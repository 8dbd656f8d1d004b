SPECIFICATION SetupSpec
CONSTANTS
    MixRates = {44100, 48000}
    MixChannels = {1, 2, 6}
    MixBits = {24, 32}
    CustomRateOk = {FALSE}
    AacAvailable = {FALSE, TRUE}
    ProfileRates = {0, 44100, 48000, 96000}
    SliderKbps = {0, 1, 112, 128, 201, 240, 279, 375, 447, 584, 990}
INVARIANTS
    BestCodec
    NearestBitrate
    SliderHonest
    RateAgreed
