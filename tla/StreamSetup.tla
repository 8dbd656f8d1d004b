----------------------------- MODULE StreamSetup -----------------------------
(***************************************************************************)
(* How one connection decides what is streamed: the codec, the rate the    *)
(* capture runs at, the rate the encoder is told, the mode announced to    *)
(* the headset and the SSC bitrate (app/src/codec_policy.h, and the places *)
(* that apply it: the streaming worker of a2dp_service.cpp, run_streaming  *)
(* of the CLI in main.cpp, WasapiCapture::init,                            *)
(* BtStackTransport::configure_codec, SscEncoder::init and the bitrate     *)
(* slider of winui3/MainWindow).                                           *)
(*                                                                         *)
(* The decisions are taken one after the other by different components,    *)
(* each from what it sees; the properties say that they fit together.      *)
(* Rates are in Hz, bitrates in bit/s as in the code.                      *)
(***************************************************************************)
EXTENDS Naturals, Sequences, SequencesExt

CONSTANTS
    MixRates,       \* sample rates the Windows mix format may have
    MixChannels,    \* its channel counts
    MixBits,        \* its container sizes
    CustomRateOk,   \* BOOLEANs IsFormatSupported may answer
    AacAvailable,   \* BOOLEANs: builds with AAC_ENCODER_AVAILABLE, and without
    ProfileRates,   \* sample rates the profile dialog offers (0 = auto)
    SliderKbps      \* bitrates asked for: slider, profile, --bitrate (0 = auto)

ASSUME SetupAssumption ==
    /\ MixRates \subseteq Nat \ {0}
    /\ MixChannels \subseteq Nat \ {0}
    /\ MixBits \subseteq Nat \ {0}
    /\ CustomRateOk \subseteq BOOLEAN
    /\ AacAvailable \subseteq BOOLEAN
    /\ ProfileRates \subseteq Nat
    /\ SliderKbps \subseteq Nat

VARIABLES
    stage,      \* how far the worker has come with the connection
    profile,    \* active_profile_: codec, rate, kbps, quality
    front,      \* which front end set the profile: WinUI, wx or the CLI
    caps,       \* get_remote_caps(): codecs advertised and the UHQ bit
    mix,        \* the endpoint's mix format
    codec,      \* selected_codec
    captureSr,  \* wasapi_capture.get_sample_rate()
    encodeSr,   \* g_ctx.encode_sample_rate
    configUhq,  \* SET_CONFIGURATION carried SSC_CAP_UHQ
    bitrate,    \* bit/s the SSC daemon is asked for, 0 for other codecs
    fedSr       \* rate of the PCM the encoder receives, 0 when it gets none

setupVars == <<stage, profile, front, caps, mix, codec, captureSr, encodeSr,
               configUhq, bitrate, fedSr>>

Codecs == {"SSC", "AAC", "SBC"}
Qualities == {"High", "Standard", "Mobile"}

-----------------------------------------------------------------------------
(* codec_policy.h                                                          *)

\* Seeded fault: the mandatory codec is preferred to AAC.
resolve_codec_sbc_first(requested, advertised) ==
    IF requested \in advertised THEN requested
    ELSE IF "SSC" \in advertised THEN "SSC"
    ELSE IF "SBC" \in advertised THEN "SBC"
    ELSE IF "AAC" \in advertised THEN "AAC"
    ELSE "none"

resolve_codec(requested, advertised) ==
    IF requested \in advertised THEN requested
    ELSE IF "SSC" \in advertised THEN "SSC"
    ELSE IF "AAC" \in advertised THEN "AAC"
    ELSE IF "SBC" \in advertised THEN "SBC"
    ELSE "none"

kBasicBitratesBps == <<88000, 96000, 128000, 192000, 229000, 256000, 328000>>
kUhqBitratesBps == <<152000, 250000, 291000, 308000, 442000, 584000, 886000>>

is_uhq_rate(rate) == rate \in {88200, 96000}

ModeBitrates(rate) ==
    IF is_uhq_rate(rate) THEN kUhqBitratesBps ELSE kBasicBitratesBps

Distance(a, b) == IF a > b THEN a - b ELSE b - a

\* Seeded fault: the last of the closest entries wins.
snap_bitrate_bps_last(bps, rate) ==
    LET list == ModeBitrates(rate)
        best[i \in 1 .. Len(list)] ==
            IF i > 1 /\ Distance(bps, best[i - 1]) < Distance(bps, list[i])
            THEN best[i - 1]
            ELSE list[i]
    IN  best[Len(list)]

\* The entry of a table that is closest to a bitrate: one pass from the left,
\* in which best[i] is the first of the closest among i entries.
Closest(bps, list) ==
    LET best[i \in 1 .. Len(list)] ==
            IF i = 1 THEN list[1]
            ELSE IF Distance(bps, list[i]) < Distance(bps, best[i - 1])
            THEN list[i]
            ELSE best[i - 1]
    IN  best[Len(list)]

snap_bitrate_bps(bps, rate) == Closest(bps, ModeBitrates(rate))

pick_bitrate_bps(quality, rate) ==
    LET basic == [High |-> 229000, Standard |-> 192000, Mobile |-> 128000]
        uhq == [High |-> 584000, Standard |-> 442000, Mobile |-> 250000]
    IN  IF is_uhq_rate(rate) THEN uhq[quality] ELSE basic[quality]

\* Seeded fault: the capability bit of the headset is not looked at.
resolve_encode_sr_ungated(cdc, capture_sr, requested_sr, uhq_bit) ==
    IF cdc = "SSC" /\ capture_sr = 48000 /\ is_uhq_rate(requested_sr)
    THEN requested_sr
    ELSE capture_sr

resolve_encode_sr(cdc, capture_sr, requested_sr, uhq_bit) ==
    IF cdc = "SSC" /\ capture_sr = 48000 /\ is_uhq_rate(requested_sr) /\ uhq_bit
    THEN requested_sr
    ELSE capture_sr

-----------------------------------------------------------------------------
(* The user interfaces.  SscEncoder::snap_bitrate_kbps leaves 0 = auto.    *)

snap_bitrate_kbps(kbps, rate) ==
    IF kbps = 0 THEN 0 ELSE snap_bitrate_bps(kbps * 1000, rate) \div 1000

\* Seeded fault: the slider always uses the table of the basic mode.
SliderRateBasic(rate) == 48000

SliderRate(rate) == IF rate = 96000 THEN 96000 ELSE 48000

SetupInit ==
    /\ stage = "idle"
    /\ profile = [codec |-> "SSC", rate |-> 0, kbps |-> 0, quality |-> "High"]
    /\ front = "winui"
    /\ caps = [codecs |-> {}, uhq |-> FALSE]
    /\ mix = [rate |-> 48000, channels |-> 2, bits |-> 32]
    /\ codec = "none"
    /\ captureSr = 0
    /\ encodeSr = 0
    /\ configUhq = FALSE
    /\ bitrate = 0
    /\ fedSr = 0

sessionVars == <<caps, mix, codec, captureSr, encodeSr, configUhq, bitrate, fedSr>>

\* OnRateChanged: the slider's value is snapped again for the new mode.
OnRateChanged(rate) ==
    /\ stage = "idle"
    /\ front' = "winui"
    /\ profile' = [profile EXCEPT
                     !.rate = rate,
                     !.kbps = snap_bitrate_kbps(profile.kbps, SliderRate(rate))]
    /\ UNCHANGED <<stage, sessionVars>>

\* OnBitrateChanged, with the event that writing the slider back raises.
OnBitrateChanged(kbps) ==
    /\ stage = "idle"
    /\ front = "winui"
    /\ profile' = [profile EXCEPT
                     !.kbps = snap_bitrate_kbps(kbps, SliderRate(profile.rate))]
    /\ UNCHANGED <<stage, front, sessionVars>>

\* A profile of the wx front end, with the bitrate its file holds.
LoadProfile(cdc, rate, kbps, quality) ==
    /\ stage = "idle"
    /\ front' = "wx"
    /\ profile' = [codec |-> cdc, rate |-> rate, kbps |-> kbps, quality |-> quality]
    /\ UNCHANGED <<stage, sessionVars>>

\* main(): the options of the CLI; --uhq asks for 96 kHz, -c auto is SSC and
\* an unknown -q is High.  --bitrate is not snapped before the encoder.
ParseOptions(cdc, uhq, kbps, quality) ==
    /\ stage = "idle"
    /\ front' = "cli"
    /\ profile' = [codec |-> cdc, rate |-> IF uhq THEN 96000 ELSE 0,
                   kbps |-> kbps, quality |-> quality]
    /\ UNCHANGED <<stage, sessionVars>>

-----------------------------------------------------------------------------
(* streaming_thread_func_inner, and run_streaming of the CLI, once the     *)
(* headset is connected.                                                   *)

ChooseCodec(advertised, uhq) ==
    /\ stage = "idle"
    /\ caps' = [codecs |-> advertised, uhq |-> uhq]
    /\ codec' = resolve_codec(profile.codec, advertised)
    /\ stage' = IF codec' = "none" THEN "failed" ELSE "codec"
    /\ UNCHANGED <<profile, front, mix, captureSr, encodeSr, configUhq,
                   bitrate, fedSr>>

SelectCodec(advertised, uhq) == front # "cli" /\ ChooseCodec(advertised, uhq)

find_best_btstack_codec(advertised, uhq) ==
    front = "cli" /\ ChooseCodec(advertised, uhq)

\* WasapiCapture::init(p.sample_rate): the preferred rate when shared mode
\* takes it as it is, else the mix format's.
OpenCapture(rate, channels, bits, ok) ==
    /\ stage = "codec"
    /\ front # "cli"
    /\ stage' = "capture"
    /\ mix' = [rate |-> rate, channels |-> channels, bits |-> bits]
    /\ captureSr' = IF profile.rate > 0 /\ profile.rate # rate /\ ok
                    THEN profile.rate
                    ELSE rate
    /\ UNCHANGED <<profile, front, caps, codec, encodeSr, configUhq, bitrate,
                   fedSr>>

\* The CLI calls init() without a preferred rate and takes the mix format.
CliOpensCapture(rate, channels, bits) ==
    /\ stage = "codec"
    /\ front = "cli"
    /\ stage' = "capture"
    /\ mix' = [rate |-> rate, channels |-> channels, bits |-> bits]
    /\ captureSr' = rate
    /\ UNCHANGED <<profile, front, caps, codec, encodeSr, configUhq, bitrate,
                   fedSr>>

DecideRate ==
    /\ stage = "capture"
    /\ front # "cli"
    /\ stage' = "rate"
    /\ encodeSr' = resolve_encode_sr(codec, captureSr, profile.rate, caps.uhq)
    /\ UNCHANGED <<profile, front, caps, mix, codec, captureSr, configUhq,
                   bitrate, fedSr>>

\* The CLI asks the policy only when --uhq could apply.
CliDecidesRate ==
    /\ stage = "capture"
    /\ front = "cli"
    /\ stage' = "rate"
    /\ encodeSr' = IF codec = "SSC" /\ captureSr = 48000 /\ profile.rate = 96000
                   THEN resolve_encode_sr(codec, captureSr, 96000, caps.uhq)
                   ELSE captureSr
    /\ UNCHANGED <<profile, front, caps, mix, codec, captureSr, configUhq,
                   bitrate, fedSr>>

\* configure_codec: the SSC capability byte comes from the sample rate.
ConfigureCodec ==
    /\ stage = "rate"
    /\ stage' = "configured"
    /\ configUhq' = (codec = "SSC" /\ is_uhq_rate(encodeSr))
    /\ UNCHANGED <<profile, front, caps, mix, codec, captureSr, encodeSr,
                   bitrate, fedSr>>

\* SscEncoder::init, which fails when the daemon does not start;
\* SbcEncoder::init and AacEncoder::init refuse any other rate than 44.1 and
\* 48 kHz.  A build without AAC ends the session, whatever else is advertised.
InitEncoder(aac) ==
    /\ stage = "configured"
    /\ \/ /\ codec = "SSC"
          /\ bitrate' = IF profile.kbps > 0
                        THEN snap_bitrate_bps(profile.kbps * 1000, encodeSr)
                        ELSE pick_bitrate_bps(profile.quality, encodeSr)
          /\ stage' \in {"streaming", "failed"}
       \/ /\ codec # "SSC"
          /\ stage' = IF encodeSr \in {44100, 48000} /\ (codec = "AAC" => aac)
                      THEN "streaming" ELSE "failed"
          /\ UNCHANGED bitrate
    /\ UNCHANGED <<profile, front, caps, mix, codec, captureSr, encodeSr,
                   configUhq, fedSr>>

\* encode_thread_func on a captured block: twice the frames when the encoder
\* runs at 96 kHz and the block is stereo float; nothing for other containers
\* than 32 and 16 bit.
EncodeBlock ==
    /\ stage = "streaming"
    /\ front # "cli"
    /\ fedSr = 0
    /\ mix.bits \in {16, 32}
    /\ fedSr' = IF encodeSr = 96000 /\ mix.channels = 2 /\ mix.bits = 32
                THEN 2 * captureSr
                ELSE captureSr
    /\ UNCHANGED <<stage, profile, front, caps, mix, codec, captureSr,
                   encodeSr, configUhq, bitrate>>

\* audio_callback: the CLI mixes surround down to stereo before it upsamples.
CliEncodesBlock ==
    /\ stage = "streaming"
    /\ front = "cli"
    /\ fedSr = 0
    /\ mix.bits \in {16, 32}
    /\ fedSr' = IF encodeSr = 96000 /\ mix.channels >= 2 /\ mix.bits = 32
                THEN 2 * captureSr
                ELSE captureSr
    /\ UNCHANGED <<stage, profile, front, caps, mix, codec, captureSr,
                   encodeSr, configUhq, bitrate>>

\* The session ends; the next one starts from the same front end.
EndSession ==
    /\ stage \in {"streaming", "failed"}
    /\ stage' = "idle"
    /\ codec' = "none"
    /\ caps' = [codecs |-> {}, uhq |-> FALSE]
    /\ captureSr' = 0
    /\ encodeSr' = 0
    /\ configUhq' = FALSE
    /\ bitrate' = 0
    /\ fedSr' = 0
    /\ UNCHANGED <<profile, front, mix>>

Interface ==
    \/ \E rate \in {0, 96000} : OnRateChanged(rate)
    \/ \E kbps \in SliderKbps : OnBitrateChanged(kbps)
    \/ \E cdc \in Codecs, rate \in ProfileRates, kbps \in SliderKbps,
          quality \in Qualities : LoadProfile(cdc, rate, kbps, quality)
    \/ \E cdc \in Codecs, uhq \in BOOLEAN, kbps \in SliderKbps,
          quality \in Qualities : ParseOptions(cdc, uhq, kbps, quality)

Session ==
    \/ \E advertised \in SUBSET Codecs, uhq \in BOOLEAN :
            /\ uhq => "SSC" \in advertised
            /\ \/ SelectCodec(advertised, uhq)
               \/ find_best_btstack_codec(advertised, uhq)
    \/ \E rate \in MixRates, channels \in MixChannels, bits \in MixBits,
          ok \in CustomRateOk : OpenCapture(rate, channels, bits, ok)
    \/ \E rate \in MixRates, channels \in MixChannels, bits \in MixBits :
            CliOpensCapture(rate, channels, bits)
    \/ DecideRate
    \/ CliDecidesRate
    \/ ConfigureCodec
    \/ \E aac \in AacAvailable : InitEncoder(aac)
    \/ EncodeBlock
    \/ CliEncodesBlock
    \/ EndSession

SetupNext == Interface \/ Session

SetupSpec == SetupInit /\ [][SetupNext]_setupVars

-----------------------------------------------------------------------------
SetupTypeOK ==
    /\ stage \in {"idle", "codec", "capture", "rate", "configured",
                  "streaming", "failed"}
    /\ profile \in [codec : Codecs, rate : Nat, kbps : Nat, quality : Qualities]
    /\ front \in {"winui", "wx", "cli"}
    /\ caps \in [codecs : SUBSET Codecs, uhq : BOOLEAN]
    /\ mix \in [rate : Nat, channels : Nat, bits : Nat]
    /\ codec \in Codecs \cup {"none"}
    /\ captureSr \in Nat
    /\ encodeSr \in {0} \cup MixRates \cup ProfileRates \cup {96000}
    /\ configUhq \in BOOLEAN
    /\ bitrate \in Nat
    /\ fedSr \in Nat

Streaming(cdc) == stage = "streaming" /\ codec = cdc

\* A stream runs with a codec the headset advertised, and with another one
\* than the profile's only when the headset lacks that one and nothing of a
\* higher priority is there; a session fails for want of a codec only when
\* the headset has none of the three (resolve_codec).
BestCodec ==
    LET rank == [SSC |-> 1, AAC |-> 2, SBC |-> 3]
    IN  /\ SetupTypeOK
        /\ stage = "streaming" =>
            /\ codec \in caps.codecs
            /\ codec # profile.codec =>
                /\ profile.codec \notin caps.codecs
                /\ \A c \in caps.codecs : rank[codec] <= rank[c]
        /\ stage = "failed" /\ codec = "none" => caps.codecs = {}

\* The daemon is only ever asked for a bitrate of the mode announced to the
\* headset, and when the user asked for one it is the closest of that mode,
\* the lower one on a tie.  "Feeding any other value to the blob makes it
\* emit a malformed frame" (codec_policy.h).
NearestBitrate ==
    Streaming("SSC") =>
        LET mode == IF configUhq THEN ToSet(kUhqBitratesBps)
                                 ELSE ToSet(kBasicBitratesBps)
            wanted == profile.kbps * 1000
        IN  /\ bitrate \in mode
            /\ profile.kbps > 0 =>
                \A b \in mode \ {bitrate} :
                    \/ Distance(wanted, bitrate) < Distance(wanted, b)
                    \/ /\ Distance(wanted, bitrate) = Distance(wanted, b)
                       /\ bitrate < b

\* What the WinUI slider shows is what is streamed, unless the mode it was
\* snapped for is not the mode the session got: snapping in the window and
\* again in SscEncoder::init agree, however often the rate was toggled.
SliderHonest ==
    Streaming("SSC") /\ front = "winui" /\ profile.kbps > 0
        /\ (is_uhq_rate(encodeSr) <=> profile.rate = 96000)
    => bitrate = profile.kbps * 1000

\* Every stage agrees on the rate: "UHQ is only used with a UHQ-capable sink"
\* (README.md), which plays silence when it is sent 96 kHz frames it cannot
\* decode; and the encoder is fed PCM of the rate it was initialised with,
\* as anything else plays at the wrong speed and pitch (resolve_encode_sr).
\* The service upsamples stereo only; the CLI mixes surround down first.
RateAgreed ==
    /\ Streaming("SSC") /\ configUhq => caps.uhq
    /\ stage = "streaming" /\ fedSr # 0
         /\ (mix.channels = 2 \/ (front = "cli" /\ mix.channels > 2))
       => fedSr = encodeSr
=============================================================================
