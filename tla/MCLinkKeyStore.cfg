SPECIFICATION Spec
CONSTANTS
    Devices = {h1, h2, h3}
    MAX_LINK_KEYS = 2
    MaxKey = 3
    MaxProfiles = 1
SYMMETRY HeadsetSymmetry
INVARIANTS
    OneKeyPerHeadset
    KeyKept
PROPERTIES
    PairsOnlyWhenNeeded
