----------------------------- MODULE SimulatorProofs ----------------------------
(***************************************************************************)
(* Proofs about Simulator, for any callers that use any of the devices and *)
(* faults and ask for any amplitudes.                                      *)
(***************************************************************************)
EXTENDS Simulator, FiniteSetTheorems, TLAPS

\* Every device is one of four, so the owners of a fault can be counted.
LEMMA DevicesFinite == IsFiniteSet(Devices)
<1>1. IsFiniteSet({})
  BY FS_EmptySet
<1>2. IsFiniteSet({} \cup {"signal_source_01"})
  BY <1>1, FS_AddElement
<1>3. IsFiniteSet(({} \cup {"signal_source_01"}) \cup {"scope_01"})
  BY <1>2, FS_AddElement
<1>4. IsFiniteSet((({} \cup {"signal_source_01"}) \cup {"scope_01"}) \cup {"mux_01"})
  BY <1>3, FS_AddElement
<1>5. IsFiniteSet(((({} \cup {"signal_source_01"}) \cup {"scope_01"}) \cup {"mux_01"})
                    \cup {"temperature_01"})
  BY <1>4, FS_AddElement
<1>6. Devices = ((({} \cup {"signal_source_01"}) \cup {"scope_01"}) \cup {"mux_01"})
                    \cup {"temperature_01"}
  BY DEF Devices
<1> QED
  BY <1>5, <1>6

LEMMA OwnersFinite ==
    ASSUME NEW f
    PROVE  /\ IsFiniteSet(Owners(f))
           /\ Cardinality(Owners(f)) \in Nat
           /\ Cardinality(Owners(f)) = 0 <=> Owners(f) = {}
<1>1. Owners(f) \in SUBSET Devices
  BY DEF Owners
<1>2. IsFiniteSet(Owners(f))
  BY <1>1, DevicesFinite, FS_Subset
<1> QED
  BY <1>2, FS_CardinalityType, FS_EmptySet

LEMMA SupportedFaults == \A d \in Devices : Supported[d] \subseteq Faults
BY DEF Supported, Devices, Faults

\* A connection attempt yields a device again, and never touches its faults.
LEMMA AfterConnectType ==
    ASSUME NEW dev \in Device, NEW r \in Resources \cup {"none"}
    PROVE  /\ AfterConnect(dev, r) \in Device
           /\ AfterConnect(dev, r).faults = dev.faults
BY DEF AfterConnect, ConnectFails, Device, Resources, ConnectionState

LEMMA DiscoveredType ==
    ASSUME NEW dev \in Device
    PROVE  /\ Discovered(dev) \in Device
           /\ Discovered(dev).faults = dev.faults \ {"STALE_RESOURCE"}
BY DEF Discovered, FaultCleared, Device, ConnectionState

---------------------------------------------------------------------------
(* Types.                                                                  *)

LEMMA TypeStep == TypeOK /\ [Next]_vars => TypeOK'
<1> SUFFICES ASSUME TypeOK, [Next]_vars PROVE TypeOK'
  OBVIOUS
<1> USE UseAssumption DEF TypeOK
<1>1. ASSUME NEW d \in UsedDevices, NEW f \in UsedFaults, InjectFault(d, f)
      PROVE  TypeOK'
  <2>1. FaultInjected(devices[d], f) \in Device
    BY DEF FaultInjected, Device
  <2> QED
    BY <1>1, <2>1 DEF InjectFault, ActivateFault
<1>2. ASSUME NEW d \in UsedDevices, NEW f \in UsedFaults, ClearFault(d, f)
      PROVE  TypeOK'
  <2>1. FaultCleared(devices[d], f) \in Device
    BY DEF FaultCleared, Device
  <2> QED
    BY <1>2, <2>1 DEF ClearFault, DeactivateFault
<1>3. ASSUME NEW d \in UsedDevices, Discover(d)
      PROVE  TypeOK'
  <2>1. Discovered(devices[d]) \in Device
    BY DiscoveredType
  <2>2. devices' \in [Devices -> Device] /\ settings' \in Settings
    BY <1>3, <2>1 DEF Discover
  <2>3. CASE "STALE_RESOURCE" \in devices[d].faults
    <3>1. DeactivateFault("STALE_RESOURCE")
      BY <1>3, <2>3 DEF Discover
    <3>2. effects' \in SUBSET Faults /\ refcounts' \in [Faults -> Nat]
      BY <3>1 DEF DeactivateFault, Faults
    <3> QED
      BY <2>2, <3>2
  <2>4. CASE "STALE_RESOURCE" \notin devices[d].faults
    BY <1>3, <2>2, <2>4 DEF Discover
  <2> QED
    BY <2>3, <2>4
<1>4. ASSUME NEW d \in UsedDevices, Disconnect(d)
      PROVE  TypeOK'
  BY <1>4 DEF Disconnect, Device, ConnectionState
<1>5. ASSUME NEW d \in UsedDevices, NEW r \in Resources \cup {"none"}, Connect(d, r)
      PROVE  TypeOK'
  <2>1. AfterConnect(devices[d], r) \in Device
    BY AfterConnectType
  <2> QED
    BY <1>5, <2>1 DEF Connect
<1>6. ASSUME NEW v \in DriveRequests, WriteDrive(v)
      PROVE  TypeOK'
  BY <1>6 DEF WriteDrive, Settings
<1>7. ASSUME NEW c \in {"A", "B"}, WriteCalibration(c)
      PROVE  TypeOK'
  BY <1>7 DEF WriteCalibration, Settings
<1>8. ASSUME NEW c \in {1, 2}, WriteChannel(c)
      PROVE  TypeOK'
  BY <1>8 DEF WriteChannel, Settings
<1>9. CASE UNCHANGED vars
  BY <1>9 DEF vars
<1> QED
  BY <1>1, <1>2, <1>3, <1>4, <1>5, <1>6, <1>7, <1>8, <1>9 DEF Next

LEMMA TypeInit == Init => TypeOK
BY DEF Init, TypeOK, Device, Settings, ConnectionState, DriveRange

\* Every device, effect, count and setting keeps its type; in particular no
\* sequence of requests drives the source out of its safe range.
THEOREM LabTypeCorrect == Spec => []TypeOK
BY TypeInit, TypeStep, PTL DEF Spec

---------------------------------------------------------------------------
(* Shared effects.  Inductive as it stands, given the types.               *)

\* A device gets a fault it did not own: one more owner.
LEMMA OwnerAdded ==
    ASSUME TypeOK, SharedEffects, TypeOK',
           NEW d \in Devices, NEW f \in Faults, f \notin devices[d].faults,
           \A e \in Devices : devices'[e].faults =
               IF e = d THEN devices[e].faults \cup {f} ELSE devices[e].faults,
           ActivateFault(f)
    PROVE  SharedEffects'
<1>1. Owners(f)' = Owners(f) \cup {d}
  BY DEF Owners
<1>2. d \notin Owners(f)
  BY DEF Owners
<1>3. \A g \in Faults : g # f => Owners(g)' = Owners(g)
  BY DEF Owners
<1>4. Cardinality(Owners(f) \cup {d}) = Cardinality(Owners(f)) + 1
  BY <1>2, OwnersFinite, FS_AddElement
<1>5. refcounts'[f] = Cardinality(Owners(f)')
  BY <1>1, <1>4 DEF ActivateFault, SharedEffects, TypeOK
<1>6. ASSUME NEW g \in Faults, g # f
      PROVE  refcounts'[g] = Cardinality(Owners(g)')
  BY <1>3, <1>6 DEF ActivateFault, SharedEffects, TypeOK
<1>7. effects' = {g \in Faults : Owners(g)' # {}}
  BY <1>1, <1>3 DEF ActivateFault, SharedEffects
<1> QED
  BY <1>5, <1>6, <1>7 DEF SharedEffects

\* A device loses a fault it owned: one owner less, and the effect ends if it
\* was the last.
LEMMA OwnerRemoved ==
    ASSUME TypeOK, SharedEffects, TypeOK',
           NEW d \in Devices, NEW f \in Faults, f \in devices[d].faults,
           \A e \in Devices : devices'[e].faults =
               IF e = d THEN devices[e].faults \ {f} ELSE devices[e].faults,
           DeactivateFault(f)
    PROVE  SharedEffects'
<1>1. Owners(f)' = Owners(f) \ {d}
  BY DEF Owners
<1>2. d \in Owners(f)
  BY DEF Owners
<1>3. \A g \in Faults : g # f => Owners(g)' = Owners(g)
  BY DEF Owners
<1>4. Cardinality(Owners(f) \ {d}) = Cardinality(Owners(f)) - 1
  BY <1>2, OwnersFinite, FS_RemoveElement
<1>5. /\ Cardinality(Owners(f)) \in Nat \ {0}
      /\ refcounts[f] = Cardinality(Owners(f))
  BY <1>2, OwnersFinite DEF SharedEffects
<1>6. refcounts'[f] = Cardinality(Owners(f)')
  BY <1>1, <1>4, <1>5 DEF DeactivateFault, TypeOK
<1>7. ASSUME NEW g \in Faults, g # f
      PROVE  refcounts'[g] = Cardinality(Owners(g)')
  BY <1>3, <1>7 DEF DeactivateFault, SharedEffects, TypeOK
<1>8. IsFiniteSet(Owners(f) \ {d})
  BY OwnersFinite, FS_RemoveElement
<1>9. Owners(f) \ {d} = {} <=> refcounts[f] <= 1
  BY <1>4, <1>5, <1>8, FS_EmptySet
<1>10. effects' = {g \in Faults : Owners(g)' # {}}
  BY <1>1, <1>3, <1>9 DEF DeactivateFault, SharedEffects
<1> QED
  BY <1>6, <1>7, <1>10 DEF SharedEffects

\* A step that moves no fault leaves the effects consistent.
LEMMA OwnersKept ==
    ASSUME SharedEffects, UNCHANGED <<effects, refcounts>>,
           \A e \in Devices : devices'[e].faults = devices[e].faults
    PROVE  SharedEffects'
<1>1. \A g : Owners(g)' = Owners(g)
  BY DEF Owners
<1> QED
  BY <1>1 DEF SharedEffects

LEMMA SharedStep == TypeOK /\ SharedEffects /\ [Next]_vars => SharedEffects'
<1> SUFFICES ASSUME TypeOK, SharedEffects, [Next]_vars PROVE SharedEffects'
  OBVIOUS
<1>0. TypeOK'
  BY TypeStep
<1> USE UseAssumption
<1>1. ASSUME NEW d \in UsedDevices, NEW f \in UsedFaults, InjectFault(d, f)
      PROVE  SharedEffects'
  <2>1. \A e \in Devices : devices'[e].faults =
            IF e = d THEN devices[e].faults \cup {f} ELSE devices[e].faults
    BY <1>1 DEF InjectFault, FaultInjected, TypeOK, Device
  <2> QED
    BY <1>0, <1>1, <2>1, OwnerAdded DEF InjectFault
<1>2. ASSUME NEW d \in UsedDevices, NEW f \in UsedFaults, ClearFault(d, f)
      PROVE  SharedEffects'
  <2>1. \A e \in Devices : devices'[e].faults =
            IF e = d THEN devices[e].faults \ {f} ELSE devices[e].faults
    BY <1>2 DEF ClearFault, FaultCleared, TypeOK, Device
  <2> QED
    BY <1>0, <1>2, <2>1, OwnerRemoved DEF ClearFault
<1>3. ASSUME NEW d \in UsedDevices, Discover(d)
      PROVE  SharedEffects'
  <2>1. \A e \in Devices : devices'[e].faults =
            IF e = d THEN devices[e].faults \ {"STALE_RESOURCE"} ELSE devices[e].faults
    BY <1>3, DiscoveredType DEF Discover, TypeOK
  <2>2. CASE "STALE_RESOURCE" \in devices[d].faults
    BY <1>0, <1>3, <2>1, <2>2, OwnerRemoved DEF Discover, Faults
  <2>3. CASE "STALE_RESOURCE" \notin devices[d].faults
    <3>1. \A e \in Devices : devices'[e].faults = devices[e].faults
      BY <2>1, <2>3
    <3> QED
      BY <1>3, <2>3, <3>1, OwnersKept DEF Discover
  <2> QED
    BY <2>2, <2>3
<1>4. ASSUME NEW d \in UsedDevices, Disconnect(d)
      PROVE  SharedEffects'
  <2>1. \A e \in Devices : devices'[e].faults = devices[e].faults
    BY <1>4 DEF Disconnect, TypeOK, Device
  <2> QED
    BY <1>4, <2>1, OwnersKept DEF Disconnect
<1>5. ASSUME NEW d \in UsedDevices, NEW r \in Resources \cup {"none"}, Connect(d, r)
      PROVE  SharedEffects'
  <2>1. \A e \in Devices : devices'[e].faults = devices[e].faults
    BY <1>5, AfterConnectType DEF Connect, TypeOK
  <2> QED
    BY <1>5, <2>1, OwnersKept DEF Connect
<1>6. CASE \/ \E v \in DriveRequests : WriteDrive(v)
           \/ \E c \in {"A", "B"} : WriteCalibration(c)
           \/ \E c \in {1, 2} : WriteChannel(c)
           \/ UNCHANGED vars
  BY <1>6, OwnersKept DEF WriteDrive, WriteCalibration, WriteChannel, vars
<1> QED
  BY <1>1, <1>2, <1>3, <1>4, <1>5, <1>6 DEF Next

LEMMA SharedInit == Init => SharedEffects
<1> SUFFICES ASSUME Init PROVE SharedEffects
  OBVIOUS
<1>1. \A f \in Faults : Owners(f) = {}
  BY DEF Init, Owners
<1>2. \A f \in Faults : Cardinality(Owners(f)) = 0
  BY <1>1, FS_EmptySet
<1> QED
  BY <1>1, <1>2 DEF Init, SharedEffects

\* However injections, clears and rediscoveries of the four devices are mixed,
\* an effect lasts exactly as long as it has an owner and its count is exact.
THEOREM EffectsAreOwned == Spec => []SharedEffects
<1>1. TypeOK /\ SharedEffects /\ [Next]_vars => (TypeOK /\ SharedEffects)'
  BY TypeStep, SharedStep
<1> QED
  BY <1>1, TypeInit, SharedInit, PTL DEF Spec

---------------------------------------------------------------------------
(* Connections.                                                            *)

ConnectionInv == TypeOK /\ CheckpointAccepted /\ StaleHintExplained

LEMMA ConnectionStep == ConnectionInv /\ [Next]_vars => ConnectionInv'
<1> SUFFICES ASSUME ConnectionInv, [Next]_vars PROVE ConnectionInv'
  OBVIOUS
<1>0. TypeOK'
  BY TypeStep DEF ConnectionInv
<1> DEFINE Good(dev) ==
      /\ dev.resource = IF dev.connection = "connected" THEN "expected" ELSE "none"
      /\ dev.hint = "stale" => "STALE_RESOURCE" \in dev.faults
<1>good. /\ \A d \in Devices : devices[d] \in Device /\ Good(devices[d])
         /\ DOMAIN devices = Devices
  BY DEF ConnectionInv, CheckpointAccepted, StaleHintExplained, TypeOK
<1>suffices. SUFFICES \A d \in Devices : Good(devices'[d])
  BY <1>0 DEF ConnectionInv, CheckpointAccepted, StaleHintExplained
<1> USE UseAssumption
<1>1. ASSUME NEW d \in UsedDevices, NEW f \in UsedFaults, InjectFault(d, f)
      PROVE  \A e \in Devices : Good(devices'[e])
  <2>1. Good(FaultInjected(devices[d], f))
    BY <1>good DEF FaultInjected, Device
  <2> QED
    BY <1>1, <1>good, <2>1 DEF InjectFault
<1>2. ASSUME NEW d \in UsedDevices, NEW f \in UsedFaults, ClearFault(d, f)
      PROVE  \A e \in Devices : Good(devices'[e])
  <2>1. Good(FaultCleared(devices[d], f))
    BY <1>good DEF FaultCleared, Device
  <2> QED
    BY <1>2, <1>good, <2>1 DEF ClearFault
<1>3. ASSUME NEW d \in UsedDevices, Discover(d)
      PROVE  \A e \in Devices : Good(devices'[e])
  <2>1. Good(Discovered(devices[d]))
    BY <1>good DEF Discovered, FaultCleared, Device, ConnectionState
  <2> QED
    BY <1>3, <1>good, <2>1 DEF Discover
<1>4. ASSUME NEW d \in UsedDevices, Disconnect(d)
      PROVE  \A e \in Devices : Good(devices'[e])
  BY <1>4, <1>good DEF Disconnect, Device
<1>5. ASSUME NEW d \in UsedDevices, NEW r \in Resources \cup {"none"}, Connect(d, r)
      PROVE  \A e \in Devices : Good(devices'[e])
  <2>1. Good(AfterConnect(devices[d], r))
    BY <1>good DEF AfterConnect, ConnectFails, Device, Resources
  <2> QED
    BY <1>5, <1>good, <2>1 DEF Connect
<1>6. CASE \/ \E v \in DriveRequests : WriteDrive(v)
           \/ \E c \in {"A", "B"} : WriteCalibration(c)
           \/ \E c \in {1, 2} : WriteChannel(c)
           \/ UNCHANGED vars
  BY <1>6, <1>good DEF WriteDrive, WriteCalibration, WriteChannel, vars
<1> HIDE DEF Good
<1> QED
  BY <1>1, <1>2, <1>3, <1>4, <1>5, <1>6 DEF Next

LEMMA ConnectionInit == Init => ConnectionInv
BY TypeInit DEF Init, ConnectionInv, CheckpointAccepted, StaleHintExplained

LEMMA ConnectionInvariant == Spec => []ConnectionInv
BY ConnectionInit, ConnectionStep, PTL DEF Spec

\* Any state a lab can reach passes the checkpoint validation of the mapping.
THEOREM CheckpointsAreAccepted == Spec => []CheckpointAccepted
BY ConnectionInvariant, PTL DEF ConnectionInv

\* A stale hint is always explained by a fault that is still active.
THEOREM StaleHintsAreExplained == Spec => []StaleHintExplained
BY ConnectionInvariant, PTL DEF ConnectionInv

\* Rediscovery followed by a reconnect recovers every device that answers,
\* from any state.
THEOREM RecoveryAlwaysSucceeds == Spec => []RecoverySucceeds
<1>1. TypeOK => RecoverySucceeds
  <2> SUFFICES ASSUME TypeOK, NEW d \in Devices,
                      devices[d].faults \cap {"TOOL_TIMEOUT", "CONNECTION_TIMEOUT"} = {}
               PROVE  /\ Recovered(devices[d]).connection = "connected"
                      /\ Recovered(devices[d]).resource = "expected"
                      /\ "STALE_RESOURCE" \notin Recovered(devices[d]).faults
    BY DEF RecoverySucceeds
  <2> DEFINE dev == Discovered(devices[d])
  <2>1. /\ dev \in Device
        /\ dev.faults = devices[d].faults \ {"STALE_RESOURCE"}
        /\ dev.hint = "expected"
    BY DiscoveredType DEF TypeOK, Discovered, FaultCleared, Device
  <2>2. ~ ConnectFails(dev, dev.hint)
    BY <2>1 DEF ConnectFails
  <2> HIDE DEF dev
  <2>3. AfterConnect(dev, "none") =
          [dev EXCEPT !.resource = "expected", !.hint = "expected",
                      !.connection = "connected"]
    BY <2>1, <2>2 DEF AfterConnect
  <2>4. Recovered(devices[d]) = AfterConnect(dev, "none")
    BY DEF Recovered, dev
  <2> QED
    BY <2>1, <2>3, <2>4 DEF Device
<1> QED
  BY <1>1, LabTypeCorrect, PTL
================================================================================
