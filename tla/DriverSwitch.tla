----------------------------- MODULE DriverSwitch -----------------------------
(***************************************************************************)
(* The dongle's driver toggle: set_dongle_winusb() of driver_switch.cpp on *)
(* its detached thread, detect_dongle_driver() of driver_mode.cpp, and the *)
(* driver panel of the WinUI window that starts the one and shows the      *)
(* other.  Each tool the switch runs (pnputil, PowerShell, makecat,        *)
(* signtool) is a step that succeeds, is refused at the UAC prompt or      *)
(* exits with an error, after which the switch returns and leaves          *)
(* everything done so far in place.                                        *)
(*                                                                         *)
(* Windows itself - the driver store, the device node and what Setup picks *)
(* for it - is external and modelled by what the header of                 *)
(* driver_switch.h relies on.                                              *)
(***************************************************************************)

VARIABLES
    store,       \* packages in the driver store that match the dongle
    node,        \* service of the device node; "none": no node at all
    plugged,     \* the dongle is in its port
    pfx,         \* a2dpwb.pfx exists under %LOCALAPPDATA%
    sdk,         \* the Windows SDK is installed
    certOk,      \* the signer is in Root and TrustedPublisher
    sw,          \* where the switch thread is; "none" when there is none
    want,        \* enable_winusb
    toDelete,    \* packages of find_winusb_infs() not deleted yet
    instance_id, \* the detection got an instance ID of the device node
    report,      \* result of the last switch
    isStreaming, \* isStreaming_ of the window
    driverBusy,  \* driverBusy_, also: the two buttons are disabled
    shown        \* DriverStateText

osVars == <<store, node, plugged>>
certVars == <<pfx, certOk, sdk>>
uiVars == <<isStreaming, driverBusy, shown>>
switchVars == <<osVars, certVars, sw, want, toDelete, instance_id, report,
                uiVars>>

Packages == {"vendor", "zadig", "other", "ours"}
WinUsbPackages == {"zadig", "ours"}
Services == {"WinUSB", "BTHUSB", "libusb", "noService", "none"}
Modes == {"WinUsbStream", "BthUsb", "Other", "NotPresent"}
Results == {"Ok", "NotPresent", "NoChange", "InfWriteError",
            "ElevationCancelled", "PnPError"}
Steps == {"none", "detect", "delete", "cert", "inf", "catalog", "sign", "add",
          "remove", "scan", "report"}

\* The service a package brings.
ServiceOf == [vendor |-> "BTHUSB", zadig |-> "WinUSB", ours |-> "WinUSB",
              other |-> "libusb"]

\* What Setup may pick when it evaluates the store: our package is the
\* newest; between the user's own packages the newest wins, and both beat
\* the vendor's.
Best(s) ==
    LET rank == IF "ours" \in s THEN {"ours"}
                ELSE IF s \cap {"zadig", "other"} # {}
                     THEN s \cap {"zadig", "other"} ELSE {"vendor"}
    IN  {ServiceOf[p] : p \in rank}

Evaluated == IF plugged THEN node' \in Best(store) ELSE node' = "none"

-----------------------------------------------------------------------------
(* driver_mode.cpp and the search of the driver store.                     *)

\* detect_dongle_driver(): a node without a service counts as absent.
detect_dongle_driver ==
    CASE node = "WinUSB" -> "WinUsbStream"
      [] node = "BTHUSB" -> "BthUsb"
      [] node = "libusb" -> "Other"
      [] OTHER -> "NotPresent"

Requested == IF want THEN "WinUsbStream" ELSE "BthUsb"

\* Seeded fault: only the package this program installed is found.
FindsOwnPackage(s) == s \cap {"ours"}

\* Seeded fault: the search forgets to look for winusb.inf.
FindsEveryPackage(s) == s

\* find_winusb_infs(): packages for the VID:PID that mention winusb.inf.
find_winusb_infs(s) == s \cap WinUsbPackages

-----------------------------------------------------------------------------
(* set_dongle_winusb().                                                    *)

Return(r) == sw' = "report" /\ report' = r

\* A tool was refused or exited with an error.  The error may come after
\* the tool had its effect.
ToolFails(effect) ==
    \/ Return("ElevationCancelled") /\ UNCHANGED <<store, node>>
    \/ Return("PnPError") /\ (effect \/ UNCHANGED <<store, node>>)

Detect ==
    /\ sw = "detect"
    /\ instance_id' \in BOOLEAN
    /\ CASE detect_dongle_driver = "NotPresent" ->
                Return("NotPresent") /\ UNCHANGED toDelete
         [] detect_dongle_driver = Requested ->
                Return("NoChange") /\ UNCHANGED toDelete
         [] OTHER -> /\ toDelete' = find_winusb_infs(store)
                     /\ sw' = "delete"
                     /\ UNCHANGED report
    /\ UNCHANGED <<osVars, certVars, want, uiVars>>

\* pnputil /delete-driver /uninstall: the package goes, and a node that used
\* its service is left without one or gets the next best.
Uninstalled(p) ==
    /\ store' = store \ {p}
    /\ IF node = ServiceOf[p]
       THEN node' \in Best(store') \cup {"noService"}
       ELSE UNCHANGED node

DeletePackage ==
    /\ sw = "delete"
    /\ \E p \in toDelete :
          \/ /\ Uninstalled(p)
             /\ toDelete' = toDelete \ {p}
             /\ UNCHANGED <<sw, report>>
          \/ ToolFails(Uninstalled(p)) /\ UNCHANGED toDelete
    /\ UNCHANGED <<plugged, certVars, want, instance_id, uiVars>>

DeletedAll ==
    /\ sw = "delete" /\ toDelete = {}
    /\ sw' = IF want THEN "cert" ELSE "remove"
    /\ UNCHANGED <<osVars, certVars, want, toDelete, instance_id, report,
                   uiVars>>

\* ensure_signing_pfx(): an existing PFX is taken as a finished set-up.  The
\* script exports the PFX before it trusts the certificate, so it may fail
\* with the one and not the other; a refusal too is reported as PnPError.
EnsureSigningPfx ==
    /\ sw = "cert"
    /\ \/ /\ pfx
          /\ sw' = "inf"
          /\ UNCHANGED <<pfx, certOk, report>>
       \/ /\ ~pfx
          /\ pfx' = TRUE /\ certOk' = TRUE
          /\ sw' = "inf"
          /\ UNCHANGED report
       \/ /\ ~pfx
          /\ pfx' \in BOOLEAN
          /\ UNCHANGED certOk
          /\ Return("PnPError")
    /\ UNCHANGED <<osVars, sdk, want, toDelete, instance_id, uiVars>>

\* A step that only writes files in the temp directory.
PackageStep(from, to, ok, result) ==
    /\ sw = from
    /\ \/ ok /\ sw' = to /\ UNCHANGED report
       \/ Return(result)
    /\ UNCHANGED <<osVars, certVars, want, toDelete, instance_id, uiVars>>

WriteWinusbInf == PackageStep("inf", "catalog", TRUE, "InfWriteError")

\* find_sdk_tool(): makecat and signtool come with the Windows SDK.
find_sdk_tool == sdk

MakeCatalog == PackageStep("catalog", "sign", find_sdk_tool, "PnPError")

SignCatalog == PackageStep("sign", "add", find_sdk_tool, "PnPError")

Installed ==
    /\ certOk
    /\ store' = store \cup {"ours"}
    /\ node' = IF node = "none" THEN "none" ELSE "WinUSB"

\* pnputil /add-driver /install: refused when the signer is not trusted.
AddDriver ==
    /\ sw = "add"
    /\ \/ Installed /\ sw' = "remove" /\ UNCHANGED report
       \/ ToolFails(Installed)
    /\ UNCHANGED <<plugged, certVars, want, toDelete, instance_id, uiVars>>

Removed == node # "none" /\ node' = "none" /\ UNCHANGED store

\* pnputil /remove-device on the node found at the start, or nothing where
\* the detection got no instance ID for it.
RemoveDevice ==
    /\ sw = "remove"
    /\ \/ /\ IF instance_id THEN Removed ELSE UNCHANGED <<store, node>>
          /\ sw' = "scan"
          /\ UNCHANGED report
       \/ instance_id /\ ToolFails(Removed)
    /\ UNCHANGED <<plugged, certVars, want, toDelete, instance_id, uiVars>>

\* pnputil /scan-devices: a missing node appears with the best driver.
Rescanned ==
    /\ IF node = "none" THEN Evaluated ELSE UNCHANGED node
    /\ UNCHANGED store

ScanDevices ==
    /\ sw = "scan"
    /\ \/ Rescanned /\ Return("Ok")
       \/ ToolFails(Rescanned)
    /\ UNCHANGED <<plugged, certVars, want, toDelete, instance_id, uiVars>>

-----------------------------------------------------------------------------
(* The driver panel.                                                       *)

\* RunDriverSwitch(): one switch at a time, on its own thread, and not from
\* a window that shows a session.
RunDriverSwitch ==
    /\ ~driverBusy /\ ~isStreaming
    /\ driverBusy' = TRUE
    /\ want' \in BOOLEAN
    /\ sw' = "detect"
    /\ UNCHANGED <<osVars, certVars, toDelete, instance_id, report, isStreaming,
                   shown>>

\* Seeded fault: the buttons come back on success only.
ReportsSuccessOnly ==
    /\ sw = "report"
    /\ driverBusy' = (report \notin {"Ok", "NoChange"})
    /\ shown' = detect_dongle_driver
    /\ sw' = "none"
    /\ UNCHANGED <<osVars, certVars, want, toDelete, instance_id, report,
                   isStreaming>>

\* The result arrives on the UI thread: whatever it is, the state is
\* detected afresh and the buttons come back.
SwitchReported ==
    /\ sw = "report"
    /\ driverBusy' = FALSE
    /\ shown' = detect_dongle_driver
    /\ sw' = "none"
    /\ UNCHANGED <<osVars, certVars, want, toDelete, instance_id, report,
                   isStreaming>>

\* OnRefreshDriverClick() and the detection at start-up.
RefreshDriverMode ==
    /\ shown # detect_dongle_driver
    /\ shown' = detect_dongle_driver
    /\ UNCHANGED <<osVars, certVars, sw, want, toDelete, instance_id, report,
                   isStreaming, driverBusy>>

\* SetStreamingUi(): a session starts or ends; a switch that runs does not
\* keep it from starting.
SetStreamingUi ==
    /\ isStreaming' = ~isStreaming
    /\ UNCHANGED <<osVars, certVars, sw, want, toDelete, instance_id, report,
                   driverBusy, shown>>

\* The user pulls the dongle or puts it back.
Replug ==
    /\ plugged' = ~plugged
    /\ IF plugged THEN node' = "none" ELSE node' \in Best(store)
    /\ UNCHANGED <<store, certVars, sw, want, toDelete, instance_id, report,
                   uiVars>>

SwitchInit ==
    /\ store \in {s \in SUBSET Packages : "vendor" \in s}
    /\ plugged \in BOOLEAN
    /\ IF plugged THEN node \in Best(store) ELSE node = "none"
    /\ pfx \in BOOLEAN /\ certOk = pfx /\ sdk \in BOOLEAN
    /\ "ours" \in store => pfx
    /\ sw = "none" /\ want = FALSE /\ toDelete = {} /\ instance_id = FALSE
    /\ report = "NoChange"
    /\ isStreaming = FALSE /\ driverBusy = FALSE /\ shown = detect_dongle_driver

SwitchThread ==
    \/ Detect \/ DeletePackage \/ DeletedAll \/ EnsureSigningPfx
    \/ WriteWinusbInf \/ MakeCatalog \/ SignCatalog
    \/ AddDriver \/ RemoveDevice \/ ScanDevices

SwitchNext ==
    \/ SwitchThread \/ RunDriverSwitch \/ SwitchReported
    \/ RefreshDriverMode \/ SetStreamingUi \/ Replug

\* Each tool ends and each prompt is answered; the dispatcher runs what is
\* queued.  Users are under no obligation.
SwitchFairness == WF_switchVars(SwitchThread) /\ WF_switchVars(SwitchReported)

SwitchSpec == SwitchInit /\ [][SwitchNext]_switchVars /\ SwitchFairness

-----------------------------------------------------------------------------
SwitchTypeOK ==
    /\ store \subseteq Packages /\ node \in Services
    /\ {plugged, pfx, certOk, sdk, want, instance_id, isStreaming, driverBusy}
          \subseteq BOOLEAN
    /\ sw \in Steps /\ toDelete \subseteq Packages
    /\ report \in Results /\ shown \in Modes

\* The store always keeps the vendor's package to fall back to, and a dongle
\* that is plugged in but cannot be used in any mode - no node, or a node
\* without a driver - is never left behind by a switch that reported success
\* and knew the node to remove (driver_switch.h: "never touches vendor BTHUSB
\* INFs").
DongleNotLost ==
    /\ SwitchTypeOK
    /\ "vendor" \in store
    /\ sw = "none" /\ plugged /\ instance_id
       /\ detect_dongle_driver = "NotPresent"
          => report \notin {"Ok", "NoChange"}

\* After a switch that reported success the dongle is in the mode asked for,
\* whichever packages were in the store before and wherever earlier switches
\* were cut off; only a foreign non-WinUSB package, which the switch does
\* not look for, may take the place of the vendor's driver, and a switch that
\* got no instance ID may leave the node without one.
OkMeansSwitched ==
    report = "Ok" /\ instance_id /\ sw \in {"none", "report"}
        /\ node # "none" /\ (want \/ "other" \notin store)
    => detect_dongle_driver = Requested

\* Every switch ends and gives the two buttons back, whatever tool fails.
SwitchEnds == driverBusy ~> ~driverBusy

\* A failed switch can be repeated: once the dongle is plugged in and no
\* switch runs, it is in some mode a switch can start from.
RetryPossible ==
    sw = "none" /\ plugged => detect_dongle_driver # "NotPresent"
=============================================================================
