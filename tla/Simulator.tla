------------------------------- MODULE Simulator -------------------------------
(***************************************************************************)
(* SimulatorLab: four instruments that share one physical state.  A caller *)
(* injects and clears faults, discovers, connects, disconnects and writes  *)
(* settings, in any order.  Only one thread ever uses a lab, so each call  *)
(* is one step.                                                            *)
(*                                                                         *)
(* A call that returns early or is refused before it assigns anything (a   *)
(* timed-out tool, an unsupported fault, a repeated injection, a setting   *)
(* out of range) is a stuttering step; a refused connect is not, because   *)
(* it drops the connection.  identify, read_settings, self_test, acquire   *)
(* and checkpoint_state assign nothing.                                    *)
(***************************************************************************)
EXTENDS Integers, FiniteSets

CONSTANTS
    UsedDevices,        \* the devices callers operate
    UsedFaults,         \* the faults callers inject and clear
    DriveRequests       \* drive amplitudes callers ask for, in tenths

Devices == {"signal_source_01", "scope_01", "mux_01", "temperature_01"}

Faults ==
    {"CONNECTION_TIMEOUT", "STALE_RESOURCE", "WRONG_IDENTITY", "MUX_CHANNEL_SWAP",
     "CALIBRATION_SUPERSEDED", "TEMPERATURE_DRIFT", "NOISE_RISE", "SIGNAL_COLLAPSE",
     "TOOL_TIMEOUT"}

\* supported_faults of the device classes.
Supported ==
    [d \in Devices |->
        CASE d = "scope_01"       -> Faults \ {"MUX_CHANNEL_SWAP", "TEMPERATURE_DRIFT"}
          [] d = "mux_01"         -> {"MUX_CHANNEL_SWAP", "TOOL_TIMEOUT"}
          [] d = "temperature_01" -> {"TEMPERATURE_DRIFT", "TOOL_TIMEOUT"}
          [] OTHER                -> {"TOOL_TIMEOUT"}]

\* Resource strings, seen from one device: its own, its own with the ::STALE
\* suffix, and that of anything else.
Resources == {"expected", "stale", "other"}

ConnectionState == {"disconnected", "connected", "fault"}

\* The amplitudes write_safe_setting accepts, [0.1, 1.0].
DriveRange == 1..10

ASSUME UseAssumption ==
    /\ UsedDevices \subseteq Devices
    /\ UsedFaults \subseteq Faults
    /\ DriveRequests \subseteq Int

VARIABLES
    devices,    \* per device: connection, connected resource, hint, own faults
    effects,    \* LabState.active_faults
    refcounts,  \* LabState.fault_refcounts; 0 stands for a missing key
    settings    \* LabState.drive_amplitude, active_calibration, active_mux_channel

vars == <<devices, effects, refcounts, settings>>

Device ==
    [connection : ConnectionState, resource : {"expected", "none"},
     hint : {"expected", "stale"}, faults : SUBSET Faults]

Settings == [drive : DriveRange, calibration : {"A", "B"}, channel : {1, 2}]

Init ==
    /\ devices = [d \in Devices |-> [connection |-> "disconnected", resource |-> "none",
                                     hint |-> "expected", faults |-> {}]]
    /\ effects = {}
    /\ refcounts = [f \in Faults |-> 0]
    /\ settings = [drive |-> 10, calibration |-> "B", channel |-> 1]

---------------------------------------------------------------------------
(* Faults and their shared effects.                                        *)

ActivateFault(f) ==
    /\ refcounts' = [refcounts EXCEPT ![f] = @ + 1]
    /\ effects' = effects \cup {f}

FaultyDeactivateFault(f) ==
    /\ refcounts' = [refcounts EXCEPT ![f] = IF @ <= 1 THEN 0 ELSE @ - 1]
    /\ effects' = effects \ {f}
DeactivateFault(f) ==
    /\ refcounts' = [refcounts EXCEPT ![f] = IF @ <= 1 THEN 0 ELSE @ - 1]
    /\ effects' = IF refcounts[f] <= 1 THEN effects \ {f} ELSE effects

FaultInjected(dev, f) ==
    [dev EXCEPT !.faults = @ \cup {f},
                !.hint = IF f = "STALE_RESOURCE" THEN "stale" ELSE @]

FaultyFaultCleared(dev, f) == [dev EXCEPT !.faults = @ \ {f}]
FaultCleared(dev, f) ==
    [dev EXCEPT !.faults = @ \ {f},
                !.hint = IF f = "STALE_RESOURCE" THEN "expected" ELSE @]

InjectFault(d, f) ==
    /\ f \in Supported[d]
    /\ f \notin devices[d].faults
    /\ devices' = [devices EXCEPT ![d] = FaultInjected(@, f)]
    /\ ActivateFault(f)
    /\ UNCHANGED settings

\* Clearing a fault of a device that does not own it must change nothing.
ClearFault(d, f) ==
    /\ f \in devices[d].faults
    /\ devices' = [devices EXCEPT ![d] = FaultCleared(@, f)]
    /\ DeactivateFault(f)
    /\ UNCHANGED settings

---------------------------------------------------------------------------
(* Connections.                                                            *)

ToolAnswers(d) == "TOOL_TIMEOUT" \notin devices[d].faults

FaultyDiscovered(dev) ==
    IF dev.connection = "fault"
      THEN [FaultCleared(dev, "STALE_RESOURCE") EXCEPT !.connection = "disconnected"]
      ELSE dev
Discovered(dev) ==
    [FaultCleared(dev, "STALE_RESOURCE") EXCEPT
        !.hint = "expected",
        !.connection = IF @ = "fault" THEN "disconnected" ELSE @]

Discover(d) ==
    /\ ToolAnswers(d)
    /\ devices' = [devices EXCEPT ![d] = Discovered(@)]
    /\ IF "STALE_RESOURCE" \in devices[d].faults
         THEN DeactivateFault("STALE_RESOURCE")
         ELSE UNCHANGED <<effects, refcounts>>
    /\ UNCHANGED settings

ConnectFails(dev, r) == "CONNECTION_TIMEOUT" \in dev.faults \/ r # "expected"

\* connect(None) takes the hint.
AfterConnect(dev, requested) ==
    LET r == IF requested = "none" THEN dev.hint ELSE requested
    IN IF ConnectFails(dev, r)
         THEN [dev EXCEPT !.resource = "none", !.connection = "fault"]
         ELSE [dev EXCEPT !.resource = r, !.hint = r, !.connection = "connected"]

FaultyConnect(d, requested) ==
    /\ ToolAnswers(d)
    /\ devices' = [devices EXCEPT
                     ![d] = [AfterConnect(@, requested) EXCEPT
                               !.resource = IF @ = "none" THEN devices[d].resource ELSE @]]
    /\ UNCHANGED <<effects, refcounts, settings>>
Connect(d, requested) ==
    /\ ToolAnswers(d)
    /\ devices' = [devices EXCEPT ![d] = AfterConnect(@, requested)]
    /\ UNCHANGED <<effects, refcounts, settings>>

\* disconnect needs no answer of the tool.
Disconnect(d) ==
    /\ devices' = [devices EXCEPT ![d].resource = "none", ![d].connection = "disconnected"]
    /\ UNCHANGED <<effects, refcounts, settings>>

---------------------------------------------------------------------------
(* Settings.                                                               *)

Operable(d) == ToolAnswers(d) /\ devices[d].connection = "connected"

FaultyWriteDrive(v) ==
    /\ Operable("signal_source_01")
    /\ settings' = [settings EXCEPT !.drive = v]
    /\ UNCHANGED <<devices, effects, refcounts>>
WriteDrive(v) ==
    /\ Operable("signal_source_01")
    /\ v \in DriveRange
    /\ settings' = [settings EXCEPT !.drive = v]
    /\ UNCHANGED <<devices, effects, refcounts>>

WriteCalibration(c) ==
    /\ Operable("scope_01")
    /\ c = "A" => "CALIBRATION_SUPERSEDED" \notin devices["scope_01"].faults
    /\ settings' = [settings EXCEPT !.calibration = c]
    /\ UNCHANGED <<devices, effects, refcounts>>

WriteChannel(c) ==
    /\ Operable("mux_01")
    /\ settings' = [settings EXCEPT !.channel = c]
    /\ UNCHANGED <<devices, effects, refcounts>>

Next ==
    \/ \E d \in UsedDevices, f \in UsedFaults : InjectFault(d, f) \/ ClearFault(d, f)
    \/ \E d \in UsedDevices : Discover(d) \/ Disconnect(d)
    \/ \E d \in UsedDevices, r \in Resources \cup {"none"} : Connect(d, r)
    \/ \E v \in DriveRequests : WriteDrive(v)
    \/ \E c \in {"A", "B"} : WriteCalibration(c)
    \/ \E c \in {1, 2} : WriteChannel(c)

Spec == Init /\ [][Next]_vars

---------------------------------------------------------------------------
(* Properties.                                                             *)

\* Type invariant; the drive amplitude stays in its safe range whatever is
\* requested (SignalSourceDevice.write_safe_setting).
TypeOK ==
    /\ devices \in [Devices -> Device]
    /\ effects \in SUBSET Faults
    /\ refcounts \in [Faults -> Nat]
    /\ settings \in Settings

Owners(f) == {d \in Devices : f \in devices[d].faults}

\* A shared effect lasts exactly as long as some device owns its fault, and
\* the count is the number of owners, after any sequence of injections,
\* clears (also on devices that do not own the fault) and rediscoveries
\* (LabState.activate_fault, deactivate_fault).  The devices section of
\* checkpoint_state therefore determines the effects it leaves out.
SharedEffects ==
    /\ effects = {f \in Faults : Owners(f) # {}}
    /\ \A f \in Faults : refcounts[f] = Cardinality(Owners(f))

\* A device has a connected resource exactly while it is connected, and it is
\* its own: a checkpoint taken at any moment passes _checkpoint_snapshot,
\* which refuses a non-connected device that retained a resource.
CheckpointAccepted ==
    \A d \in Devices :
        devices[d].resource = IF devices[d].connection = "connected"
                                THEN "expected" ELSE "none"

\* A stale hint is never left behind by clearing, rediscovering or connecting:
\* the fault that explains it is still there.
StaleHintExplained ==
    \A d \in Devices : devices[d].hint = "stale" => "STALE_RESOURCE" \in devices[d].faults

\* The recovery of scenario A works from every state a caller can get into: as
\* soon as a device answers and its connections do not time out, rediscovery
\* followed by connect to the hint connects it and leaves no stale resource.
Recovered(dev) == AfterConnect(Discovered(dev), "none")

RecoverySucceeds ==
    \A d \in Devices :
        devices[d].faults \cap {"TOOL_TIMEOUT", "CONNECTION_TIMEOUT"} = {} =>
            /\ Recovered(devices[d]).connection = "connected"
            /\ Recovered(devices[d]).resource = "expected"
            /\ "STALE_RESOURCE" \notin Recovered(devices[d]).faults

\* What the name of test_stale_resource_requires_rediscovery_before_connecting
\* says: no device becomes connected while its resource is stale.  connect
\* with the resource named explicitly does exactly that.
StaleRequiresRediscovery ==
    [][\A d \in Devices :
         /\ devices[d].connection # "connected"
         /\ devices'[d].connection = "connected"
         => "STALE_RESOURCE" \notin devices[d].faults]_vars
================================================================================
