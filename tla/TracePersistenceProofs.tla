-------------------------- MODULE TracePersistenceProofs --------------------------
(***************************************************************************)
(* What the tables of save_trace and save_hero_seed are worth, for any     *)
(* processes, traces and seeds of the kind the mapper makes: evidence is   *)
(* whole and is kept, facts come with the evidence they cite, and what was *)
(* acknowledged stays.                                                     *)
(***************************************************************************)
EXTENDS TracePersistence, FakeTraces, TLAPS

---------------------------------------------------------------------------
(* What the transactions make of the tables.                               *)

TableNames == {"devices", "runs", "calibrations", "memories"} \cup EvidenceTables

IsTables(d) == d = [k \in TableNames |-> d[k]]

LEMMA EmptyIsTables ==
    /\ IsTables(EmptyTables)
    /\ \A k \in TableNames : EmptyTables[k] = {}
  BY DEF IsTables, EmptyTables, TableNames, EvidenceTables

TraceInserted(d, w, rows) ==
    /\ IsTables(w)
    /\ w.runs = d.runs \cup {rows.run}
    /\ w.devices = UpsertedDevices(d.devices, rows.devices)
    /\ \A k \in EvidenceTables : w[k] = InsertedById(d[k], EvidenceRows(rows, k))
    /\ w.calibrations = d.calibrations /\ w.memories = d.memories

LEMMA SavedTraceTables ==
    ASSUME NEW d, IsTables(d), NEW rows
    PROVE  TraceInserted(d, SavedTrace(d, rows), rows)
<1>. DEFINE w == SavedTrace(d, rows)
<1>1. DOMAIN d = TableNames
  BY DEF IsTables
<1>2. /\ w = [k \in TableNames |-> w[k]]
      /\ w.runs = d.runs \cup {rows.run}
      /\ w.devices = UpsertedDevices(d.devices, rows.devices)
      /\ w.observations = InsertedById(d.observations, rows.observations)
      /\ w.actions = InsertedById(d.actions, rows.actions)
      /\ w.outcomes = InsertedById(d.outcomes, rows.outcomes)
      /\ w.checkpoints = InsertedById(d.checkpoints, {rows.checkpoint})
      /\ w.audits = InsertedById(d.audits, rows.audits)
      /\ w.calibrations = d.calibrations /\ w.memories = d.memories
  BY <1>1 DEF SavedTrace, TableNames, EvidenceTables
<1>. HIDE DEF w
<1>3. \A k \in EvidenceTables : w[k] = InsertedById(d[k], EvidenceRows(rows, k))
  BY <1>2 DEF EvidenceTables, EvidenceRows
<1>4. TraceInserted(d, w, rows)
  BY <1>2, <1>3 DEF TraceInserted, IsTables
<1>. QED
  BY <1>4 DEF w

FactsReplaced(d, w, seed) ==
    /\ IsTables(w)
    /\ \A k \in EvidenceTables : w[k] = d[k]
    /\ w.runs = d.runs
    /\ w.calibrations = Replaced(d.calibrations, Range(seed.calibrations))
    /\ w.memories = Replaced(d.memories, Range(seed.memories))
    /\ w.devices = {IF x.id = seed.active_device
                    THEN [x EXCEPT !.calibration = seed.active, !.updated = Now]
                    ELSE x : x \in d.devices}

LEMMA SavedFactsTables ==
    ASSUME NEW d, IsTables(d), NEW seed
    PROVE  FactsReplaced(d, SavedFacts(d, seed), seed)
<1>1. DOMAIN d = TableNames
  BY DEF IsTables
<1>. QED
  BY <1>1 DEF SavedFacts, TableNames, EvidenceTables, IsTables, FactsReplaced

---------------------------------------------------------------------------
(* The invariant.  EvidenceIsWhole holds because a run that is stored is   *)
(* the run of one trace with all its rows; facts come with their evidence  *)
(* because the process that stores them has found or stored every trace of *)
(* its seed, and because the first trace decides whose seed it is.         *)

KeysOf(table) == \A x, y \in table : x.id = y.id => x = y

RunsAreWhole(d) ==
    /\ KeysOf(d.runs)
    /\ \A x \in d.runs : \E t \in AllTraces : t.run = x
    /\ \A t \in AllTraces : t.run \in d.runs => TraceStored(d, t)
    /\ \A k \in EvidenceTables : \A x \in d[k] :
          \E t \in AllTraces : t.run \in d.runs /\ x \in EvidenceRows(t, k)

TracesStored(d, c) == \A i \in DOMAIN c.traces : c.traces[i].run \in d.runs

FactsOf(d, seed) ==
    /\ TracesStored(d, seed)
    /\ d.calibrations = Range(seed.calibrations)
    /\ d.memories = Range(seed.memories)
    /\ \A x \in d.devices : x.calibration # None => x.calibration = seed.active

PointersAreValid(d) ==
    \A x \in d.devices : x.calibration # None =>
        \E c \in d.calibrations :
            c.id = x.calibration /\ c.device = x.id /\ c.status = "active"

FactsAreWhole(d) ==
    /\ d.calibrations \cup d.memories # {} => \E seed \in SeedCalls : FactsOf(d, seed)
    /\ PointersAreValid(d)

DevicesAreRows(d) == \A x \in d.devices : DOMAIN x = DeviceColumns

TablesInv(d) == IsTables(d) /\ DevicesAreRows(d) /\ RunsAreWhole(d) /\ FactsAreWhole(d)

\* What a call that returned has left behind.
Settled(d, c) ==
    /\ TracesStored(d, c)
    /\ c \in SeedCalls =>
          /\ d.calibrations = Range(c.calibrations)
          /\ d.memories = Range(c.memories)
          /\ \A x \in d.devices : x.id = c.active_device => x.calibration = c.active
          /\ \E x \in d.devices : x.id = c.active_device

\* The two ways in which a transaction changes the tables.
TraceAdded(d, w, t) ==
    /\ t \in AllTraces
    /\ ~RunIsStored(d, t)
    /\ w = SavedTrace(d, t)

FactsAdded(d, w, seed) ==
    /\ seed \in SeedCalls
    /\ TracesStored(d, seed)
    /\ FactsAccepted(d, seed)
    /\ w = SavedFacts(d, seed)

LEMMA TracesAreTraces ==
    ASSUME NEW c \in Calls, NEW i \in DOMAIN c.traces
    PROVE  c.traces[i] \in AllTraces
<1>1. c.traces[i] \in Range(c.traces)
  BY DEF Range
<1>. QED
  BY <1>1 DEF AllTraces

LEMMA SeedTraces ==
    ASSUME NEW seed \in SeedCalls
    PROVE  /\ seed.kind = "seed" /\ seed \in Calls
           /\ DOMAIN seed.traces = {1, 2} /\ Len(seed.traces) = 2
<1>1. seed.traces \in Seq(AllTraces) /\ Len(seed.traces) = 2 /\ seed.kind = "seed"
  BY CallsAssumption
<1>2. DOMAIN seed.traces = 1 .. 2
  BY <1>1
<1>3. 1 .. 2 = {1, 2}
  OBVIOUS
<1>. QED
  BY <1>1, <1>2, <1>3 DEF Calls

LEMMA TraceCallTraces ==
    ASSUME NEW c \in TraceCalls
    PROVE  c.kind = "trace" /\ c \in Calls /\ DOMAIN c.traces = {1} /\ Len(c.traces) = 1
<1>1. c.traces \in Seq(AllTraces) /\ Len(c.traces) = 1 /\ c.kind = "trace"
  BY CallsAssumption
<1>2. DOMAIN c.traces = 1 .. 1
  BY <1>1
<1>3. 1 .. 1 = {1}
  OBVIOUS
<1>. QED
  BY <1>1, <1>2, <1>3 DEF Calls

\* An exact replay finds the very trace it replays.
LEMMA ReplayFindsTrace ==
    ASSUME NEW d, RunsAreWhole(d), NEW t \in AllTraces, SameEvidence(d, t)
    PROVE  t.run \in d.runs
<1>1. PICK x \in d.runs : x.id = t.run.id /\ x.fingerprint = t.run.fingerprint
  BY DEF SameEvidence
<1>2. PICK u \in AllTraces : u.run = x
  BY <1>1 DEF RunsAreWhole
<1>. QED
  BY <1>1, <1>2, TracesAssumption

\* Two seeds of which traces are stored are seeds of the same facts.
LEMMA OneSeedStored ==
    ASSUME NEW d, RunsAreWhole(d), NEW s \in SeedCalls, NEW u \in SeedCalls,
           TracesStored(d, s), TracesStored(d, u)
    PROVE  /\ s.calibrations = u.calibrations /\ s.memories = u.memories
           /\ s.active = u.active
<1>1. /\ s.traces[1] \in AllTraces /\ u.traces[1] \in AllTraces
      /\ s.traces[1].run \in d.runs /\ u.traces[1].run \in d.runs
  BY SeedTraces, TracesAreTraces DEF TracesStored
<1>2. s.traces[1].run = u.traces[1].run
  BY <1>1, SeedsAssumption DEF RunsAreWhole, KeysOf
<1>3. s.traces[1] = u.traces[1]
  BY <1>1, <1>2, TracesAssumption
<1>. QED
  BY <1>3, SeedsAssumption

---------------------------------------------------------------------------
(* Adding a trace.                                                         *)

LEMMA TraceRowsAdded ==
    ASSUME NEW d, IsTables(d), RunsAreWhole(d), NEW w, NEW t, TraceAdded(d, w, t)
    PROVE  /\ IsTables(w)
           /\ w.runs = d.runs \cup {t.run}
           /\ \A x \in d.runs : x.id # t.run.id
           /\ \A k \in EvidenceTables : w[k] = d[k] \cup EvidenceRows(t, k)
           /\ w.devices = UpsertedDevices(d.devices, t.devices)
           /\ w.calibrations = d.calibrations /\ w.memories = d.memories
<1>1. /\ t \in AllTraces
      /\ \A x \in d.runs : x.id # t.run.id
  BY DEF TraceAdded, RunIsStored, Ids
<1>2. ASSUME NEW k \in EvidenceTables
      PROVE  InsertedById(d[k], EvidenceRows(t, k)) = d[k] \cup EvidenceRows(t, k)
  <2>1. ASSUME NEW x \in EvidenceRows(t, k), NEW y \in d[k], x.id = y.id
        PROVE  FALSE
    <3>1. PICK u \in AllTraces : u.run \in d.runs /\ y \in EvidenceRows(u, k)
      BY DEF RunsAreWhole
    <3>2. OwnIds(t, u)
      BY <1>1, <3>1, TracesAssumption
    <3>. QED
      BY <2>1, <3>1, <3>2 DEF OwnIds, Ids
  <2>. QED
    BY <2>1 DEF InsertedById, Ids
<1>3. w = SavedTrace(d, t)
  BY DEF TraceAdded
<1>4. TraceInserted(d, w, t)
  BY <1>3, SavedTraceTables
<1>. QED
  BY <1>1, <1>2, <1>4 DEF TraceInserted

LEMMA TraceKeepsRuns ==
    ASSUME NEW d, IsTables(d), RunsAreWhole(d), NEW w, NEW t, TraceAdded(d, w, t)
    PROVE  RunsAreWhole(w)
<1>1. /\ w.runs = d.runs \cup {t.run}
      /\ \A x \in d.runs : x.id # t.run.id
      /\ \A k \in EvidenceTables : w[k] = d[k] \cup EvidenceRows(t, k)
      /\ t \in AllTraces
  BY TraceRowsAdded DEF TraceAdded
<1>2. KeysOf(w.runs)
  BY <1>1 DEF RunsAreWhole, KeysOf
<1>3. \A x \in w.runs : \E u \in AllTraces : u.run = x
  BY <1>1 DEF RunsAreWhole
<1>4. ASSUME NEW u \in AllTraces, u.run \in w.runs
      PROVE  TraceStored(w, u)
  <2>1. CASE u.run \in d.runs
    BY <1>1, <2>1 DEF RunsAreWhole, TraceStored
  <2>2. CASE u.run = t.run
    <3>1. u = t
      BY <1>1, <2>2, TracesAssumption
    <3>. QED
      BY <1>1, <3>1 DEF TraceStored
  <2>. QED
    BY <1>1, <1>4, <2>1, <2>2
<1>5. ASSUME NEW k \in EvidenceTables, NEW x \in w[k]
      PROVE  \E u \in AllTraces : u.run \in w.runs /\ x \in EvidenceRows(u, k)
  BY <1>1 DEF RunsAreWhole
<1>. QED
  BY <1>2, <1>3, <1>4, <1>5 DEF RunsAreWhole

\* What an upsert of the devices of a trace keeps: every device is there, with
\* its calibration, and a new one has none.
DevicesKept(table, upserted) ==
    /\ \A y \in upserted : DOMAIN y = DeviceColumns
    /\ \A x \in table : \E y \in upserted :
          y.id = x.id /\ y.created = x.created /\ y.calibration = x.calibration
    /\ \A y \in upserted :
          \/ \E x \in table : x.id = y.id /\ x.calibration = y.calibration
          \/ y.calibration = None /\ \A x \in table : x.id # y.id

LEMMA UpsertKeeps ==
    ASSUME NEW d, DevicesAreRows(d), NEW t \in AllTraces
    PROVE  DevicesKept(d.devices, UpsertedDevices(d.devices, t.devices))
<1>. DEFINE table == d.devices
            upserted == UpsertedDevices(table, t.devices)
<1>0. \A x \in table : DOMAIN x = DeviceColumns
  BY DEF DevicesAreRows
<1>. HIDE DEF table
<1>1. \A row \in t.devices : DOMAIN row = DeviceColumns /\ row.calibration = None
  BY DevicesAssumption DEF NewDevices
<1>2. ASSUME NEW row \in t.devices, NEW x \in table
      PROVE  /\ DOMAIN Upserted(x, row) = DeviceColumns
             /\ Upserted(x, row).id = row.id
             /\ Upserted(x, row).created = x.created
             /\ Upserted(x, row).calibration = x.calibration
  BY <1>0, <1>1 DEF Upserted, DeviceColumns
<1>3. ASSUME NEW y \in upserted
      PROVE  \/ y \in table
             \/ y \in t.devices /\ \A x \in table : x.id # y.id
             \/ \E row \in t.devices, x \in table : x.id = row.id /\ y = Upserted(x, row)
  BY DEF UpsertedDevices, Ids
<1>4. ASSUME NEW x \in table
      PROVE  \E y \in upserted :
                y.id = x.id /\ y.created = x.created /\ y.calibration = x.calibration
  <2>1. CASE x.id \notin Ids(t.devices)
    <3>1. x \in upserted
      BY <2>1 DEF UpsertedDevices
    <3>. QED
      BY <3>1
  <2>2. CASE x.id \in Ids(t.devices)
    <3>1. PICK row \in t.devices : row.id = x.id
      BY <2>2 DEF Ids
    <3>2. Upserted(x, row) \in upserted
      BY <3>1 DEF UpsertedDevices
    <3>. QED
      BY <1>2, <3>1, <3>2
  <2>. QED
    BY <2>1, <2>2
<1>5. ASSUME NEW y \in upserted
      PROVE  /\ DOMAIN y = DeviceColumns
             /\ \/ \E x \in table : x.id = y.id /\ x.calibration = y.calibration
                \/ y.calibration = None /\ \A x \in table : x.id # y.id
  <2>1. CASE y \in table
    BY <1>0, <2>1
  <2>2. CASE y \in t.devices /\ \A x \in table : x.id # y.id
    BY <1>1, <2>2
  <2>3. ASSUME NEW row \in t.devices, NEW x \in table, x.id = row.id, y = Upserted(x, row)
        PROVE  /\ DOMAIN y = DeviceColumns
               /\ x.id = y.id /\ x.calibration = y.calibration
    BY <1>2, <2>3
  <2>. QED
    BY <1>3, <2>1, <2>2, <2>3
<1>. QED
  BY <1>4, <1>5 DEF DevicesKept, table

LEMMA TraceKeepsFacts ==
    ASSUME NEW d, TablesInv(d), NEW w, NEW t, TraceAdded(d, w, t)
    PROVE  DevicesAreRows(w) /\ FactsAreWhole(w)
<1>1. /\ w.runs = d.runs \cup {t.run}
      /\ w.devices = UpsertedDevices(d.devices, t.devices)
      /\ w.calibrations = d.calibrations /\ w.memories = d.memories
      /\ t \in AllTraces
  BY TraceRowsAdded DEF TablesInv, TraceAdded
<1>2. /\ \A y \in w.devices : DOMAIN y = DeviceColumns
      /\ \A y \in w.devices :
            \/ \E x \in d.devices : x.id = y.id /\ x.calibration = y.calibration
            \/ y.calibration = None /\ \A x \in d.devices : x.id # y.id
  BY <1>1, UpsertKeeps DEF TablesInv, DevicesKept
<1>3. ASSUME NEW seed \in SeedCalls, FactsOf(d, seed)
      PROVE  FactsOf(w, seed)
  BY <1>1, <1>2, <1>3 DEF FactsOf, TracesStored
<1>4. PointersAreValid(w)
  BY <1>1, <1>2 DEF TablesInv, FactsAreWhole, PointersAreValid
<1>. QED
  BY <1>1, <1>2, <1>3, <1>4 DEF TablesInv, FactsAreWhole, DevicesAreRows

LEMMA TraceKeepsSettled ==
    ASSUME NEW d, TablesInv(d), NEW w, NEW t, TraceAdded(d, w, t), NEW c, Settled(d, c)
    PROVE  Settled(w, c)
<1>1. /\ w.runs = d.runs \cup {t.run}
      /\ w.devices = UpsertedDevices(d.devices, t.devices)
      /\ w.calibrations = d.calibrations /\ w.memories = d.memories
      /\ t \in AllTraces
  BY TraceRowsAdded DEF TablesInv, TraceAdded
<1>2. /\ \A x \in d.devices : \E y \in w.devices :
            y.id = x.id /\ y.created = x.created /\ y.calibration = x.calibration
      /\ \A y \in w.devices :
            \/ \E x \in d.devices : x.id = y.id /\ x.calibration = y.calibration
            \/ y.calibration = None /\ \A x \in d.devices : x.id # y.id
  BY <1>1, UpsertKeeps DEF TablesInv, DevicesKept
<1>. QED
  BY <1>1, <1>2 DEF Settled, TracesStored

---------------------------------------------------------------------------
(* Adding the facts of a seed.                                             *)

FactsInserted(d, w, seed) ==
    /\ IsTables(w)
    /\ w.runs = d.runs
    /\ \A k \in EvidenceTables : w[k] = d[k]
    /\ w.calibrations = Range(seed.calibrations)
    /\ w.memories = Range(seed.memories)
    /\ d.calibrations \subseteq w.calibrations
    /\ d.memories \subseteq w.memories
    /\ w.devices = {IF x.id = seed.active_device
                    THEN [x EXCEPT !.calibration = seed.active, !.updated = Now]
                    ELSE x : x \in d.devices}

\* Either no facts are stored or those of this seed are: nothing is replaced.
LEMMA FactRowsSaved ==
    ASSUME NEW d, TablesInv(d), NEW seed \in SeedCalls, TracesStored(d, seed)
    PROVE  FactsInserted(d, SavedFacts(d, seed), seed)
<1>. DEFINE w == SavedFacts(d, seed)
<1>1. FactsReplaced(d, w, seed)
  BY SavedFactsTables DEF TablesInv
<1>. HIDE DEF w
<1>2. \/ d.calibrations = {} /\ d.memories = {}
      \/ d.calibrations = Range(seed.calibrations) /\ d.memories = Range(seed.memories)
  <2>1. CASE d.calibrations \cup d.memories = {}
    BY <2>1
  <2>2. CASE d.calibrations \cup d.memories # {}
    <3>1. PICK u \in SeedCalls : FactsOf(d, u)
      BY <2>2 DEF TablesInv, FactsAreWhole
    <3>2. u.calibrations = seed.calibrations /\ u.memories = seed.memories
      BY <3>1, OneSeedStored DEF FactsOf, TablesInv
    <3>. QED
      BY <3>1, <3>2 DEF FactsOf
  <2>. QED
    BY <2>1, <2>2
<1>3. \A table, rows : table = {} \/ table = rows => Replaced(table, rows) = rows
  BY DEF Replaced, Ids
<1>4. FactsInserted(d, w, seed)
  BY <1>1, <1>2, <1>3 DEF FactsInserted, FactsReplaced
<1>. QED
  BY <1>4 DEF w

LEMMA FactRowsAdded ==
    ASSUME NEW d, TablesInv(d), NEW w, NEW seed, FactsAdded(d, w, seed)
    PROVE  FactsInserted(d, w, seed)
  BY FactRowsSaved DEF FactsAdded

\* The pointer is set to an active calibration of the device itself.
LEMMA ActiveIsOwn ==
    ASSUME NEW d, TablesInv(d), NEW w, NEW seed, FactsAdded(d, w, seed)
    PROVE  /\ \E c \in w.calibrations :
                 c.id = seed.active /\ c.device = seed.active_device /\ c.status = "active"
           /\ \E x \in d.devices : x.id = seed.active_device
  BY DEF FactsAdded, FactsAccepted, ActiveBelongs, Ids

LEMMA FactsKeepDevices ==
    ASSUME NEW d, TablesInv(d), NEW w, NEW seed, FactsInserted(d, w, seed)
    PROVE  /\ \A y \in w.devices : \E x \in d.devices :
                 /\ DOMAIN y = DeviceColumns /\ y.id = x.id
                 /\ y.calibration = IF x.id = seed.active_device THEN seed.active
                                    ELSE x.calibration
           /\ \A x \in d.devices : \E y \in w.devices :
                 /\ y.id = x.id /\ y.created = x.created
                 /\ y.calibration = IF x.id = seed.active_device THEN seed.active
                                    ELSE x.calibration
<1>. DEFINE moved(x) == IF x.id = seed.active_device
                        THEN [x EXCEPT !.calibration = seed.active, !.updated = Now] ELSE x
<1>1. w.devices = {moved(x) : x \in d.devices}
  BY DEF FactsInserted
<1>2. ASSUME NEW x \in d.devices
      PROVE  /\ DOMAIN moved(x) = DeviceColumns
             /\ moved(x).id = x.id /\ moved(x).created = x.created
             /\ moved(x).calibration = IF x.id = seed.active_device THEN seed.active
                                       ELSE x.calibration
  BY DEF TablesInv, DevicesAreRows, DeviceColumns
<1>. HIDE DEF moved
<1>. QED
  BY <1>1, <1>2

LEMMA FactsKeepTables ==
    ASSUME NEW d, TablesInv(d), NEW w, NEW seed, FactsAdded(d, w, seed)
    PROVE  TablesInv(w)
<1>1. FactsInserted(d, w, seed)
  BY FactRowsAdded
<1>2. /\ IsTables(w) /\ w.runs = d.runs
      /\ \A k \in EvidenceTables : w[k] = d[k]
      /\ w.calibrations = Range(seed.calibrations) /\ w.memories = Range(seed.memories)
      /\ d.calibrations \subseteq w.calibrations
  BY <1>1 DEF FactsInserted
<1>3. RunsAreWhole(w)
  BY <1>2 DEF TablesInv, RunsAreWhole, TraceStored
<1>4. /\ DevicesAreRows(w)
      /\ \A y \in w.devices : \E x \in d.devices :
            /\ y.id = x.id
            /\ y.calibration = IF x.id = seed.active_device THEN seed.active ELSE x.calibration
  BY <1>1, FactsKeepDevices DEF DevicesAreRows
<1>5. ASSUME NEW x \in d.devices, x.calibration # None
      PROVE  x.calibration = seed.active
  <2>1. d.calibrations # {}
    BY <1>5 DEF TablesInv, FactsAreWhole, PointersAreValid
  <2>2. PICK u \in SeedCalls : FactsOf(d, u)
    BY <2>1 DEF TablesInv, FactsAreWhole
  <2>3. u.active = seed.active
    BY <2>2, OneSeedStored DEF FactsOf, FactsAdded, TablesInv
  <2>. QED
    BY <1>5, <2>2, <2>3 DEF FactsOf
<1>6. FactsOf(w, seed)
  BY <1>2, <1>4, <1>5 DEF FactsOf, FactsAdded, TracesStored
<1>7. PointersAreValid(w)
  <2>. SUFFICES ASSUME NEW y \in w.devices, y.calibration # None
                PROVE  \E c \in w.calibrations :
                          c.id = y.calibration /\ c.device = y.id /\ c.status = "active"
    BY DEF PointersAreValid
  <2>1. PICK x \in d.devices :
          /\ y.id = x.id
          /\ y.calibration = IF x.id = seed.active_device THEN seed.active ELSE x.calibration
    BY <1>4
  <2>2. CASE x.id = seed.active_device
    BY <2>1, <2>2, ActiveIsOwn
  <2>3. CASE x.id # seed.active_device
    BY <1>2, <2>1, <2>3 DEF TablesInv, FactsAreWhole, PointersAreValid
  <2>. QED
    BY <2>2, <2>3
<1>. QED
  BY <1>2, <1>3, <1>4, <1>6, <1>7 DEF TablesInv, FactsAreWhole, FactsAdded

LEMMA FactsKeepSettled ==
    ASSUME NEW d, TablesInv(d), NEW w, NEW seed, FactsAdded(d, w, seed),
           NEW c, Settled(d, c)
    PROVE  Settled(w, c)
<1>1. FactsInserted(d, w, seed)
  BY FactRowsAdded
<1>2. /\ w.runs = d.runs
      /\ w.calibrations = Range(seed.calibrations) /\ w.memories = Range(seed.memories)
  BY <1>1 DEF FactsInserted
<1>3. TracesStored(w, c)
  BY <1>2 DEF Settled, TracesStored
<1>4. ASSUME c \in SeedCalls
      PROVE  /\ w.calibrations = Range(c.calibrations) /\ w.memories = Range(c.memories)
             /\ \A y \in w.devices : y.id = c.active_device => y.calibration = c.active
             /\ \E y \in w.devices : y.id = c.active_device
  <2>1. /\ c.calibrations = seed.calibrations /\ c.memories = seed.memories
        /\ c.active = seed.active
    BY <1>4, OneSeedStored DEF FactsAdded, TablesInv, Settled
  <2>2. /\ \A y \in w.devices : \E x \in d.devices :
              /\ y.id = x.id
              /\ y.calibration = IF x.id = seed.active_device THEN seed.active
                                 ELSE x.calibration
        /\ \A x \in d.devices : \E y \in w.devices : y.id = x.id
    BY <1>1, FactsKeepDevices
  <2>. QED
    BY <1>2, <1>4, <2>1, <2>2 DEF Settled
<1>. QED
  BY <1>3, <1>4 DEF Settled

\* What the seed that just returned has left behind.
LEMMA FactsSettle ==
    ASSUME NEW d, TablesInv(d), NEW w, NEW seed, FactsAdded(d, w, seed)
    PROVE  Settled(w, seed)
<1>1. FactsInserted(d, w, seed)
  BY FactRowsAdded
<1>2. /\ \A y \in w.devices : \E x \in d.devices :
            /\ y.id = x.id
            /\ y.calibration = IF x.id = seed.active_device THEN seed.active ELSE x.calibration
      /\ \A x \in d.devices : \E y \in w.devices : y.id = x.id
  BY <1>1, FactsKeepDevices
<1>3. \E x \in d.devices : x.id = seed.active_device
  BY ActiveIsOwn
<1>4. /\ TracesStored(w, seed)
      /\ w.calibrations = Range(seed.calibrations) /\ w.memories = Range(seed.memories)
  BY <1>1 DEF FactsInserted, FactsAdded, TracesStored
<1>5. /\ \A x \in w.devices : x.id = seed.active_device => x.calibration = seed.active
      /\ \E x \in w.devices : x.id = seed.active_device
  BY <1>2, <1>3
<1>. QED
  BY <1>4, <1>5 DEF Settled

---------------------------------------------------------------------------
(* Every step of a process.                                                *)

Moves(d, w) ==
    \/ w = d
    \/ \E t \in AllTraces : TraceAdded(d, w, t)
    \/ \E seed \in SeedCalls : FactsAdded(d, w, seed)

\* What a process has passed in its call is stored.
Going(p) ==
    call[p] # None =>
        \A i \in DOMAIN call[p].traces : i < step[p] => call[p].traces[i].run \in db.runs

Inv ==
    /\ TablesInv(db)
    /\ call \in [Procs -> Calls \cup {None}]
    /\ step \in [Procs -> Nat \ {0}]
    /\ acked \subseteq Calls
    /\ \A p \in Procs : Going(p)
    /\ \A c \in acked : Settled(db, c)

LEMMA MovesKeep ==
    ASSUME NEW d, TablesInv(d), NEW w, Moves(d, w)
    PROVE  /\ TablesInv(w)
           /\ d.runs \subseteq w.runs
           /\ \A c : Settled(d, c) => Settled(w, c)
<1>1. CASE w = d
  BY <1>1
<1>2. ASSUME NEW t \in AllTraces, TraceAdded(d, w, t)
      PROVE  /\ TablesInv(w) /\ d.runs \subseteq w.runs
             /\ \A c : Settled(d, c) => Settled(w, c)
  <2>1. RunsAreWhole(w)
    BY <1>2, TraceKeepsRuns DEF TablesInv
  <2>2. DevicesAreRows(w) /\ FactsAreWhole(w)
    BY <1>2, TraceKeepsFacts
  <2>3. IsTables(w) /\ d.runs \subseteq w.runs
    BY <1>2, TraceRowsAdded DEF TablesInv
  <2>4. \A c : Settled(d, c) => Settled(w, c)
    BY <1>2, TraceKeepsSettled
  <2>. QED
    BY <2>1, <2>2, <2>3, <2>4 DEF TablesInv
<1>3. ASSUME NEW seed \in SeedCalls, FactsAdded(d, w, seed)
      PROVE  /\ TablesInv(w) /\ d.runs \subseteq w.runs
             /\ \A c : Settled(d, c) => Settled(w, c)
  <2>1. TablesInv(w)
    BY <1>3, FactsKeepTables
  <2>2. d.runs \subseteq w.runs
    BY <1>3, FactRowsAdded DEF FactsInserted
  <2>3. \A c : Settled(d, c) => Settled(w, c)
    BY <1>3, FactsKeepSettled
  <2>. QED
    BY <2>1, <2>2, <2>3
<1>. QED
  BY <1>1, <1>2, <1>3 DEF Moves

LEMMA CallTraces ==
    ASSUME NEW c \in Calls
    PROVE  /\ DOMAIN c.traces = 1 .. Len(c.traces) /\ Len(c.traces) \in {1, 2}
           /\ \/ c \in TraceCalls /\ c.kind = "trace" /\ Len(c.traces) = 1
              \/ c \in SeedCalls /\ c.kind = "seed" /\ Len(c.traces) = 2
<1>1. 1 .. 1 = {1} /\ 1 .. 2 = {1, 2}
  OBVIOUS
<1>2. CASE c \in TraceCalls
  BY <1>1, <1>2, TraceCallTraces
<1>3. CASE c \in SeedCalls
  BY <1>1, <1>3, SeedTraces
<1>. QED
  BY <1>2, <1>3 DEF Calls

LEMMA EndStep ==
    ASSUME Inv, NEW p \in Procs, NEW how, call[p] # None, Moves(db, db'), End(p, how),
           how = "ok" => Settled(db', call[p])
    PROVE  Inv'
<1>1. /\ TablesInv(db') /\ db.runs \subseteq db'.runs
      /\ \A c : Settled(db, c) => Settled(db', c)
  BY MovesKeep DEF Inv
<1>2. /\ call' = [call EXCEPT ![p] = None]
      /\ step' = [step EXCEPT ![p] = 1]
      /\ acked' = IF how = "ok" THEN acked \cup {call[p]} ELSE acked
  BY DEF End
<1>3. /\ call' \in [Procs -> Calls \cup {None}] /\ step' \in [Procs -> Nat \ {0}]
      /\ acked' \subseteq Calls
  BY <1>2 DEF Inv
<1>4. \A q \in Procs : Going(q)'
  BY <1>1, <1>2 DEF Inv, Going
<1>5. \A c \in acked' : Settled(db', c)
  BY <1>1, <1>2 DEF Inv
<1>. QED
  BY <1>1, <1>3, <1>4, <1>5 DEF Inv

LEMMA CommittedStep ==
    ASSUME Inv, NEW p \in Procs, AtTrace(p), Moves(db, db'), Rows(p).run \in db'.runs,
           Committed(p)
    PROVE  Inv'
<1>1. /\ TablesInv(db') /\ db.runs \subseteq db'.runs
      /\ \A c : Settled(db, c) => Settled(db', c)
  BY MovesKeep DEF Inv
<1>2. call[p] \in Calls /\ call[p] # None /\ step[p] \in Nat \ {0}
  BY DEF Inv, AtTrace
<1>3. CASE End(p, "lost")
  BY <1>2, <1>3, EndStep
<1>4. CASE call[p].kind = "trace" /\ End(p, "ok")
  <2>1. call[p] \in TraceCalls /\ call[p] \notin SeedCalls /\ DOMAIN call[p].traces = {1}
    <3>1. call[p] \notin SeedCalls
      BY <1>4, SeedTraces
    <3>2. call[p] \in TraceCalls
      BY <1>2, <3>1 DEF Calls
    <3>. QED
      BY <3>1, <3>2, TraceCallTraces
  <2>2. step[p] = 1
    <3>1. Len(call[p].traces) = 1
      BY <2>1, TraceCallTraces
    <3>2. step[p] <= 1
      BY <3>1 DEF AtTrace
    <3>. QED
      BY <1>2, <3>2
  <2>3. Settled(db', call[p])
    BY <2>1, <2>2 DEF Settled, TracesStored, Rows
  <2>. QED
    BY <1>2, <1>4, <2>3, EndStep
<1>5. CASE step' = [step EXCEPT ![p] = @ + 1] /\ UNCHANGED <<call, result, acked>>
  <2>1. /\ call' \in [Procs -> Calls \cup {None}] /\ step' \in [Procs -> Nat \ {0}]
        /\ acked' \subseteq Calls
    BY <1>5 DEF Inv
  <2>2. ASSUME NEW q \in Procs PROVE Going(q)'
    <3>1. CASE q = p
      <4>. SUFFICES ASSUME NEW i \in DOMAIN call[p].traces, i < step[p] + 1
                    PROVE  call[p].traces[i].run \in db'.runs
        BY <1>2, <1>5, <3>1 DEF Going, Inv
      <4>1. i \in Nat
        BY <1>2, CallTraces
      <4>2. CASE i < step[p]
        BY <1>1, <1>2, <4>2 DEF Inv, Going
      <4>3. CASE i = step[p]
        BY <4>3 DEF Rows
      <4>. QED
        BY <1>2, <4>1, <4>2, <4>3
    <3>2. CASE q # p
      BY <1>1, <1>5, <3>2 DEF Inv, Going
    <3>. QED
      BY <3>1, <3>2
  <2>3. \A c \in acked' : Settled(db', c)
    BY <1>1, <1>5 DEF Inv
  <2>. QED
    BY <1>1, <2>1, <2>2, <2>3 DEF Inv
<1>. QED
  BY <1>3, <1>4, <1>5 DEF Committed, Proceed

LEMMA AtTraceRows ==
    ASSUME Inv, NEW p \in Procs, AtTrace(p)
    PROVE  Rows(p) \in AllTraces /\ call[p] # None
<1>1. call[p] \in Calls /\ step[p] \in 1 .. Len(call[p].traces)
  <2>1. call[p] \in Calls /\ step[p] \in Nat \ {0} /\ step[p] <= Len(call[p].traces)
    BY DEF Inv, AtTrace
  <2>. QED
    BY <2>1, CallTraces
<1>2. step[p] \in DOMAIN call[p].traces
  BY <1>1, CallTraces
<1>. QED
  BY <1>1, <1>2, TracesAreTraces DEF Rows, AtTrace

LEMMA InsertStep ==
    ASSUME Inv, NEW p \in Procs, InsertTrace(p)
    PROVE  \/ db' = db /\ call[p] # None /\ End(p, "refused")
           \/ /\ TraceAdded(db, db', Rows(p)) /\ Committed(p)
              /\ AtTrace(p) /\ Rows(p).run \in db'.runs
<1>1. Rows(p) \in AllTraces /\ call[p] # None /\ AtTrace(p)
  BY AtTraceRows DEF InsertTrace
<1>2. CASE End(p, "refused") /\ UNCHANGED db
  BY <1>1, <1>2
<1>3. CASE db' = SavedTrace(db, Rows(p)) /\ Committed(p)
  <2>1. TraceAdded(db, db', Rows(p))
    BY <1>1, <1>3 DEF TraceAdded, InsertTrace
  <2>2. db'.runs = db.runs \cup {Rows(p).run}
    BY <2>1, TraceRowsAdded DEF Inv, TablesInv
  <2>. QED
    BY <1>1, <1>3, <2>1, <2>2
<1>. QED
  BY <1>2, <1>3 DEF InsertTrace

LEMMA SaveStep ==
    ASSUME Inv, NEW p \in Procs, SaveFacts(p)
    PROVE  /\ call[p] # None
           /\ \/ db' = db /\ End(p, "refused")
              \/ /\ FactsAdded(db, db', call[p])
                 /\ End(p, "ok") \/ End(p, "lost")
<1>1. /\ call[p] \in Calls /\ call[p] # None /\ call[p].kind = "seed"
      /\ step[p] = Len(call[p].traces) + 1
  BY DEF SaveFacts, AtFacts, Inv
<1>2. call[p] \in SeedCalls /\ DOMAIN call[p].traces = 1 .. Len(call[p].traces)
      /\ Len(call[p].traces) \in Nat
  BY <1>1, CallTraces
<1>3. TracesStored(db, call[p])
  BY <1>1, <1>2 DEF Inv, Going, TracesStored
<1>. QED
  BY <1>1, <1>2, <1>3 DEF SaveFacts, FactsAdded

\* Whatever a process does, the tables stay or one transaction moves them.
LEMMA StepMoves ==
    ASSUME Inv, [Next]_vars
    PROVE  Moves(db, db')
<1>1. CASE UNCHANGED vars
  BY <1>1 DEF vars, Moves
<1>2. ASSUME NEW p \in Procs, InsertTrace(p)
      PROVE  Moves(db, db')
  BY <1>2, InsertStep DEF Moves, TraceAdded
<1>3. ASSUME NEW p \in Procs, SaveFacts(p)
      PROVE  Moves(db, db')
  BY <1>3, SaveStep DEF Moves, FactsAdded
<1>4. ASSUME NEW p \in Procs,
             \/ \E c \in Calls : Call(p, c)
             \/ ReplayTrace(p) \/ ConflictingTrace(p) \/ Stop(p)
      PROVE  Moves(db, db')
  BY <1>4 DEF Call, ReplayTrace, ConflictingTrace, Stop, Moves
<1>. QED
  BY <1>1, <1>2, <1>3, <1>4 DEF Next

LEMMA NextInv == Inv /\ [Next]_vars => Inv'
<1>. SUFFICES ASSUME Inv, [Next]_vars PROVE Inv'
  OBVIOUS
<1>1. CASE UNCHANGED vars
  BY <1>1 DEF vars, Inv, Going
<1>2. ASSUME NEW p \in Procs, NEW c \in Calls, Call(p, c)
      PROVE  Inv'
  <2>1. DOMAIN c.traces \subseteq Nat \ {0}
    BY CallTraces
  <2>2. /\ call' = [call EXCEPT ![p] = c] /\ step' = [step EXCEPT ![p] = 1]
        /\ db' = db /\ acked' = acked
    BY <1>2 DEF Call
  <2>3. ASSUME NEW q \in Procs PROVE Going(q)'
    BY <2>1, <2>2 DEF Inv, Going
  <2>. QED
    BY <2>2, <2>3 DEF Inv
<1>3. ASSUME NEW p \in Procs, ReplayTrace(p)
      PROVE  Inv'
  <2>1. Rows(p).run \in db.runs
    BY <1>3, AtTraceRows, ReplayFindsTrace DEF ReplayTrace, Inv, TablesInv
  <2>. QED
    BY <1>3, <2>1, CommittedStep DEF ReplayTrace, Moves
<1>4. ASSUME NEW p \in Procs, ConflictingTrace(p) \/ Stop(p)
      PROVE  Inv'
  BY <1>4, EndStep DEF ConflictingTrace, Stop, AtTrace, Moves
<1>5. ASSUME NEW p \in Procs, InsertTrace(p)
      PROVE  Inv'
  BY <1>5, InsertStep, EndStep, CommittedStep DEF Moves, TraceAdded
<1>6. ASSUME NEW p \in Procs, SaveFacts(p)
      PROVE  Inv'
  <2>1. CASE db' = db /\ End(p, "refused")
    BY <1>6, <2>1, SaveStep, EndStep DEF Moves
  <2>2. CASE FactsAdded(db, db', call[p]) /\ (End(p, "ok") \/ End(p, "lost"))
    <3>1. Moves(db, db')
      BY <2>2 DEF Moves, FactsAdded
    <3>2. Settled(db', call[p])
      BY <2>2, FactsSettle DEF Inv
    <3>. QED
      BY <1>6, <2>2, <3>1, <3>2, SaveStep, EndStep
  <2>. QED
    BY <1>6, <2>1, <2>2, SaveStep
<1>. QED
  BY <1>1, <1>2, <1>3, <1>4, <1>5, <1>6 DEF Next

LEMMA InitInv == Init => Inv
<1>. SUFFICES ASSUME Init PROVE Inv
  OBVIOUS
<1>1. IsTables(db) /\ \A k \in TableNames : db[k] = {}
  BY EmptyIsTables DEF Init
<1>2. /\ db.runs = {} /\ db.devices = {} /\ db.calibrations = {} /\ db.memories = {}
      /\ \A k \in EvidenceTables : db[k] = {}
  BY <1>1 DEF TableNames
<1>3. TablesInv(db)
  BY <1>1, <1>2 DEF TablesInv, DevicesAreRows, RunsAreWhole, KeysOf, FactsAreWhole,
                    PointersAreValid
<1>. QED
  BY <1>3 DEF Init, Inv, Going

LEMMA Invariant == Spec => []Inv
  BY InitInv, NextInv, PTL DEF Spec

---------------------------------------------------------------------------
(* What follows from the invariant.                                        *)

\* Whoever stored what, and whoever was stopped where, the evidence of a run
\* is one whole trace and nothing else.
THEOREM EvidenceStaysWhole == Spec => []EvidenceIsWhole
<1>1. Inv => EvidenceIsWhole
  BY DEF Inv, TablesInv, RunsAreWhole, EvidenceIsWhole
<1>. QED
  BY <1>1, Invariant, PTL

LEMMA StoredSeed ==
    ASSUME NEW d, RunsAreWhole(d), NEW seed \in SeedCalls, TracesStored(d, seed),
           d.calibrations = Range(seed.calibrations), d.memories = Range(seed.memories)
    PROVE  SeedStored(d, seed)
<1>1. ASSUME NEW i \in DOMAIN seed.traces PROVE TraceStored(d, seed.traces[i])
  <2>1. seed.traces[i] \in AllTraces
    BY SeedTraces, TracesAreTraces
  <2>. QED
    BY <2>1 DEF RunsAreWhole, TracesStored
<1>. QED
  BY <1>1 DEF SeedStored

\* Calibrations and memories are those of one seed whose traces are all
\* stored, and a device points to an active calibration of its own or to none,
\* although nothing but the order of the transactions of save_hero_seed sees
\* to it.
THEOREM FactsKeepTheirEvidence == Spec => []FactsHaveTheirEvidence
<1>1. Inv => FactsHaveTheirEvidence
  <2>. SUFFICES ASSUME Inv PROVE FactsHaveTheirEvidence
    OBVIOUS
  <2>1. FactsAreOfOneSeed
    BY StoredSeed DEF Inv, TablesInv, FactsAreWhole, FactsOf, FactsAreOfOneSeed
  <2>2. ActiveCalibrationIsValid
    BY DEF Inv, TablesInv, FactsAreWhole, PointersAreValid, ActiveCalibrationIsValid
  <2>. QED
    BY <2>1, <2>2 DEF FactsHaveTheirEvidence
<1>. QED
  BY <1>1, Invariant, PTL

\* A call of save_trace or save_hero_seed that returned is stored for good.
THEOREM AcknowledgedStays == Spec => []AcknowledgedIsDurable
<1>1. Inv => AcknowledgedIsDurable
  <2>. SUFFICES ASSUME Inv, NEW c \in acked
                PROVE  IF c.kind = "trace" THEN TraceStored(db, c.traces[1])
                       ELSE /\ SeedStored(db, c)
                            /\ \A x \in db.devices :
                                  x.id = c.active_device => x.calibration = c.active
    BY DEF AcknowledgedIsDurable
  <2>1. /\ c \in Calls /\ RunsAreWhole(db) /\ Settled(db, c)
    BY DEF Inv, TablesInv
  <2>2. CASE c \in SeedCalls
    <3>1. SeedStored(db, c)
      BY <2>1, <2>2, StoredSeed DEF Settled
    <3>. QED
      BY <2>1, <2>2, <3>1, SeedTraces DEF Settled
  <2>3. CASE c \in TraceCalls
    <3>1. c.kind = "trace" /\ 1 \in DOMAIN c.traces
      BY <2>3, TraceCallTraces
    <3>2. c.traces[1] \in AllTraces /\ c.traces[1].run \in db.runs
      BY <2>1, <3>1, TracesAreTraces DEF Settled, TracesStored
    <3>. QED
      BY <2>1, <3>1, <3>2 DEF RunsAreWhole
  <2>. QED
    BY <2>1, <2>2, <2>3 DEF Calls
<1>. QED
  BY <1>1, Invariant, PTL

\* Whatever a transaction does, it neither alters nor removes evidence.
KeepsEvidence(d, w) ==
    /\ \A k \in TableNames \ {"devices"} : d[k] \subseteq w[k]
    /\ \A x \in d.devices : \E y \in w.devices :
          /\ y.id = x.id
          /\ y.created = x.created
          /\ x.calibration # None => y.calibration = x.calibration

LEMMA MovesKeepEvidence ==
    ASSUME NEW d, TablesInv(d), NEW w, Moves(d, w)
    PROVE  KeepsEvidence(d, w)
<1>1. CASE w = d
  BY <1>1 DEF KeepsEvidence
<1>2. ASSUME NEW t \in AllTraces, TraceAdded(d, w, t)
      PROVE  KeepsEvidence(d, w)
  <2>1. /\ w.runs = d.runs \cup {t.run}
        /\ \A k \in EvidenceTables : w[k] = d[k] \cup EvidenceRows(t, k)
        /\ w.devices = UpsertedDevices(d.devices, t.devices)
        /\ w.calibrations = d.calibrations /\ w.memories = d.memories
    BY <1>2, TraceRowsAdded DEF TablesInv
  <2>2. \A x \in d.devices : \E y \in w.devices :
            y.id = x.id /\ y.created = x.created /\ y.calibration = x.calibration
    BY <2>1, UpsertKeeps DEF TablesInv, DevicesKept
  <2>3. \A k \in TableNames \ {"devices"} : d[k] \subseteq w[k]
    BY <2>1 DEF TableNames
  <2>. QED
    BY <2>2, <2>3 DEF KeepsEvidence
<1>3. ASSUME NEW seed \in SeedCalls, FactsAdded(d, w, seed)
      PROVE  KeepsEvidence(d, w)
  <2>1. FactsInserted(d, w, seed)
    BY <1>3, FactRowsAdded
  <2>2. ASSUME NEW x \in d.devices
        PROVE  \E y \in w.devices :
                  /\ y.id = x.id /\ y.created = x.created
                  /\ x.calibration # None => y.calibration = x.calibration
    <3>1. PICK y \in w.devices :
            /\ y.id = x.id /\ y.created = x.created
            /\ y.calibration = IF x.id = seed.active_device THEN seed.active
                               ELSE x.calibration
      BY <2>1, FactsKeepDevices
    <3>2. CASE x.calibration # None
      <4>1. d.calibrations # {}
        BY <3>2 DEF TablesInv, FactsAreWhole, PointersAreValid
      <4>2. PICK u \in SeedCalls : FactsOf(d, u)
        BY <4>1 DEF TablesInv, FactsAreWhole
      <4>3. u.active = seed.active
        BY <1>3, <4>2, OneSeedStored DEF FactsOf, FactsAdded, TablesInv
      <4>4. x.calibration = seed.active
        BY <3>2, <4>2, <4>3 DEF FactsOf
      <4>. QED
        BY <3>1, <4>4
    <3>3. CASE x.calibration = None
      BY <3>1, <3>3
    <3>. QED
      BY <3>2, <3>3
  <2>3. \A k \in TableNames \ {"devices"} : d[k] \subseteq w[k]
    BY <2>1 DEF TableNames, FactsInserted
  <2>. QED
    BY <2>2, <2>3 DEF KeepsEvidence
<1>. QED
  BY <1>1, <1>2, <1>3 DEF Moves

\* Only devices change: what is stored as evidence or as a fact is never
\* altered or removed, and no device forgets the calibration it points to.
THEOREM EvidenceStays == Spec => EvidenceIsKept
<1>1. Inv /\ [Next]_vars => KeepsEvidence(db, db')
  BY StepMoves, MovesKeepEvidence DEF Inv
<1>2. Inv => DOMAIN db = TableNames
  BY DEF Inv, TablesInv, IsTables
<1>3. Inv /\ [Next]_vars =>
        [/\ \A k \in DOMAIN db \ {"devices"} : db[k] \subseteq db'[k]
         /\ \A x \in db.devices : \E y \in db'.devices :
               /\ y.id = x.id
               /\ y.created = x.created
               /\ x.calibration # None => y.calibration = x.calibration]_vars
  BY <1>1, <1>2 DEF KeepsEvidence
<1>. QED
  BY <1>3, Invariant, PTL DEF Spec, EvidenceIsKept

---------------------------------------------------------------------------
(* The reader of the gate.                                                 *)

\* What load_run_restore finds of a stored trace is that trace, whatever else
\* is in the tables.
LEMMA ReaderFinds ==
    ASSUME NEW d, RunsAreWhole(d), NEW t \in AllTraces, t.run \in d.runs
    PROVE  /\ \A x \in d.runs : x.id = t.run.id <=> x = t.run
           /\ {k \in d.checkpoints : k.run = t.run.id} = {t.checkpoint}
           /\ {a \in d.actions : a.run = t.run.id} = t.actions
           /\ {o \in d.outcomes : o.action \in Ids(t.actions)} = t.outcomes
           /\ {e \in d.audits : e.run = t.run.id} = t.audits
<1>1. \A x \in d.runs : x.id = t.run.id <=> x = t.run
  BY DEF RunsAreWhole, KeysOf
<1>2. ASSUME NEW u \in AllTraces, u.run \in d.runs, u.run.id = t.run.id
      PROVE  u = t
  BY <1>1, <1>2, TracesAssumption
<1>3. ASSUME NEW k \in EvidenceTables
      PROVE  /\ EvidenceRows(t, k) \subseteq d[k]
             /\ \A x \in d[k] : \E u \in AllTraces : u.run \in d.runs /\ x \in EvidenceRows(u, k)
  BY DEF RunsAreWhole, TraceStored
<1>4. ASSUME NEW k \in EvidenceTables \ {"outcomes"}
      PROVE  {x \in d[k] : x.run = t.run.id} = EvidenceRows(t, k)
  <2>1. \A u \in AllTraces : \A x \in EvidenceRows(u, k) : x.run = u.run.id
    BY TracesAssumption DEF OwnRows
  <2>. QED
    BY <1>2, <1>3, <2>1
<1>5. {o \in d.outcomes : o.action \in Ids(t.actions)} = t.outcomes
  <2>1. /\ t.outcomes \subseteq d.outcomes
        /\ \A x \in d.outcomes : \E u \in AllTraces : u.run \in d.runs /\ x \in u.outcomes
    BY <1>3 DEF EvidenceTables, EvidenceRows
  <2>2. \A u \in AllTraces : \A o \in u.outcomes : o.action \in Ids(u.actions)
    BY TracesAssumption DEF OwnRows
  <2>3. ASSUME NEW u \in AllTraces, u.run \in d.runs, Ids(u.actions) \cap Ids(t.actions) # {}
        PROVE  u = t
    <3>1. ~OwnIds(t, u)
      BY <2>3 DEF OwnIds, EvidenceTables, EvidenceRows
    <3>2. u.run.id = t.run.id
      BY <3>1, TracesAssumption
    <3>. QED
      BY <1>2, <2>3, <3>2
  <2>. QED
    BY <2>1, <2>2, <2>3
<1>. QED
  BY <1>1, <1>4, <1>5 DEF EvidenceTables, EvidenceRows

\* The reader's verdict on a stored trace depends on the trace alone.
LEMMA ReaderSeesOnlyTheTrace ==
    ASSUME NEW d, RunsAreWhole(d), NEW w, RunsAreWhole(w),
           NEW t \in AllTraces, t.run \in d.runs, t.run \in w.runs,
           ReaderAccepts(d, t)
    PROVE  ReaderAccepts(w, t)
<1>1. /\ \A x \in d.runs : x.id = t.run.id <=> x = t.run
      /\ {k \in d.checkpoints : k.run = t.run.id} = {t.checkpoint}
      /\ {a \in d.actions : a.run = t.run.id} = t.actions
      /\ {o \in d.outcomes : o.action \in Ids(t.actions)} = t.outcomes
      /\ {e \in d.audits : e.run = t.run.id} = t.audits
  BY ReaderFinds
<1>2. /\ {k \in w.checkpoints : k.run = t.run.id} = {t.checkpoint}
      /\ {a \in w.actions : a.run = t.run.id} = t.actions
      /\ {o \in w.outcomes : o.action \in Ids(t.actions)} = t.outcomes
      /\ {e \in w.audits : e.run = t.run.id} = t.audits
  BY ReaderFinds
<1>3. \E x \in w.runs :
          x.id = t.run.id /\ x.step = t.run.step /\ x.status = "completed"
  BY <1>1 DEF ReaderAccepts
<1>. QED
  BY <1>1, <1>2, <1>3 DEF ReaderAccepts

\* A fresh process restores every recovered run whose storing was acknowledged,
\* and no other, provided that is its verdict when the trace is all there is:
\* nothing that other processes stored, replayed, were refused or broke off can
\* change it.
THEOREM FreshProcessesRestore ==
    ASSUME \A t \in AllTraces : ReaderAccepts(SavedTrace(EmptyTables, t), t) <=> Recovered(t)
    PROVE  Spec => []FreshProcessRestores
<1>1. Inv => FreshProcessRestores
  <2>. SUFFICES ASSUME Inv, NEW c \in acked, NEW i \in DOMAIN c.traces
                PROVE  ReaderAccepts(db, c.traces[i]) <=> Recovered(c.traces[i])
    BY DEF FreshProcessRestores
  <2>. DEFINE t == c.traces[i]
              alone == SavedTrace(EmptyTables, t)
  <2>1. t \in AllTraces /\ t.run \in db.runs /\ RunsAreWhole(db)
    BY TracesAreTraces DEF Inv, TablesInv, Settled, TracesStored
  <2>2. /\ IsTables(EmptyTables) /\ EmptyTables.runs = {}
        /\ \A k \in EvidenceTables : EmptyTables[k] = {}
    BY EmptyIsTables DEF TableNames
  <2>3. RunsAreWhole(EmptyTables) /\ TraceAdded(EmptyTables, alone, t)
    BY <2>1, <2>2 DEF RunsAreWhole, KeysOf, TraceAdded, RunIsStored, Ids
  <2>. HIDE DEF t, alone
  <2>4. RunsAreWhole(alone) /\ t.run \in alone.runs
    BY <2>2, <2>3, TraceKeepsRuns, TraceRowsAdded
  <2>5. ReaderAccepts(alone, t) <=> Recovered(t)
    BY <2>1 DEF alone
  <2>. QED
    BY <2>1, <2>4, <2>5, ReaderSeesOnlyTheTrace DEF t
<1>. QED
  BY <1>1, Invariant, PTL

---------------------------------------------------------------------------
(* That a seed can be completed needs more of the tables than that they    *)
(* are whole: that they satisfy the constraints of the schema, that the    *)
(* second run of a seed is only ever stored after the first, and that a    *)
(* device row is not younger than the traces stored beside it.             *)

\* Who claims the second run of a seed comes after the first run of that seed.
InOrder(d, t) ==
    \A s \in SeedCalls : t.run.id = s.traces[2].run.id =>
        \E v \in SeedCalls : v.traces[2] = t /\ v.traces[1].run \in d.runs

SecondsFollow(d) == \A t \in AllTraces : t.run \in d.runs => InOrder(d, t)

DevicesAreOlder(d) ==
    \A t \in AllTraces : t.run \in d.runs =>
        \A row \in t.devices : \E x \in d.devices : x.id = row.id /\ x.created <= row.updated

TimesAreOrderly(d) ==
    \A x \in d.devices : x.created \in Nat /\ x.updated \in Nat /\ x.created <= Now

FitInv(d) ==
    /\ TablesInv(d)
    /\ TraceConstraints(d)
    /\ SecondsFollow(d)
    /\ DevicesAreOlder(d)
    /\ TimesAreOrderly(d)

\* The rows of an upserted table: untouched, new, or updated.
LEMMA UpsertedRows ==
    ASSUME NEW table, NEW rows,
           \A x \in rows : DOMAIN x = DeviceColumns,
           NEW y \in UpsertedDevices(table, rows)
    PROVE  \/ y \in table /\ \A row \in rows : row.id # y.id
           \/ y \in rows /\ \A x \in table : x.id # y.id
           \/ \E row \in rows, x \in table :
                 x.id = row.id /\ y.id = row.id /\ y.created = x.created /\ y.updated = row.updated
<1>1. CASE \E row \in rows, x \in table : x.id = row.id /\ y = Upserted(x, row)
  <2>1. PICK row \in rows, x \in table : x.id = row.id /\ y = Upserted(x, row)
    BY <1>1
  <2>2. y.id = row.id /\ y.created = x.created /\ y.updated = row.updated
    BY <2>1 DEF Upserted, DeviceColumns
  <2>. QED
    BY <2>1, <2>2
<1>2. CASE y \in table /\ y.id \notin Ids(rows)
  BY <1>2 DEF Ids
<1>3. CASE y \in rows /\ y.id \notin Ids(table)
  BY <1>3 DEF Ids
<1>. QED
  BY <1>1, <1>2, <1>3 DEF UpsertedDevices

\* Every row of the trace is in the upserted table, under its id.
LEMMA UpsertCovers ==
    ASSUME NEW table, NEW rows, \A x \in rows : DOMAIN x = DeviceColumns
    PROVE  \A row \in rows : \E y \in UpsertedDevices(table, rows) :
              y.id = row.id /\ y.updated = row.updated
<1>. TAKE row \in rows
<1>1. CASE row.id \notin Ids(table)
  <2>1. row \in UpsertedDevices(table, rows)
    BY <1>1 DEF UpsertedDevices
  <2>. QED
    BY <2>1
<1>2. CASE row.id \in Ids(table)
  <2>1. PICK x \in table : x.id = row.id
    BY <1>2 DEF Ids
  <2>2. Upserted(x, row) \in UpsertedDevices(table, rows)
    BY <2>1 DEF UpsertedDevices
  <2>3. Upserted(x, row).id = row.id /\ Upserted(x, row).updated = row.updated
    BY DEF Upserted, DeviceColumns
  <2>. QED
    BY <2>2, <2>3
<1>. QED
  BY <1>1, <1>2

\* An upsert leaves one row of each id.
LEMMA UpsertKeepsKey ==
    ASSUME NEW table, NEW rows, \A x \in rows : DOMAIN x = DeviceColumns,
           PrimaryKey(table), PrimaryKey(rows)
    PROVE  PrimaryKey(UpsertedDevices(table, rows))
<1>1. ASSUME NEW y \in UpsertedDevices(table, rows)
      PROVE  \/ y \in table /\ \A row \in rows : row.id # y.id
             \/ y \in rows /\ \A x \in table : x.id # y.id
             \/ \E row \in rows, x \in table :
                   x.id = row.id /\ y.id = row.id /\ y = Upserted(x, row)
  <2>1. CASE \E row \in rows, x \in table : x.id = row.id /\ y = Upserted(x, row)
    <3>1. PICK row \in rows, x \in table : x.id = row.id /\ y = Upserted(x, row)
      BY <2>1
    <3>2. y.id = row.id
      BY <3>1 DEF Upserted, DeviceColumns
    <3>. QED
      BY <3>1, <3>2
  <2>2. CASE y \in table /\ y.id \notin Ids(rows)
    BY <2>2 DEF Ids
  <2>3. CASE y \in rows /\ y.id \notin Ids(table)
    BY <2>3 DEF Ids
  <2>. QED
    BY <1>1, <2>1, <2>2, <2>3 DEF UpsertedDevices
<1>2. ASSUME NEW y \in UpsertedDevices(table, rows), NEW z \in UpsertedDevices(table, rows),
             y.id = z.id
      PROVE  y = z
  <2>1. CASE \E row \in rows, x \in table : x.id = row.id /\ y.id = row.id /\ y = Upserted(x, row)
    <3>1. PICK row \in rows, x \in table : x.id = row.id /\ y.id = row.id /\ y = Upserted(x, row)
      BY <2>1
    <3>2. PICK row2 \in rows, x2 \in table :
            x2.id = row2.id /\ z.id = row2.id /\ z = Upserted(x2, row2)
      BY <1>1, <1>2, <3>1
    <3>3. row = row2 /\ x = x2
      BY <1>2, <3>1, <3>2 DEF PrimaryKey
    <3>. QED
      BY <3>1, <3>2, <3>3
  <2>2. CASE y \in table /\ \A row \in rows : row.id # y.id
    <3>1. z \in table
      BY <1>1, <1>2, <2>2
    <3>. QED
      BY <1>2, <2>2, <3>1 DEF PrimaryKey
  <2>3. CASE y \in rows /\ \A x \in table : x.id # y.id
    <3>1. z \in rows
      BY <1>1, <1>2, <2>3
    <3>. QED
      BY <1>2, <2>3, <3>1 DEF PrimaryKey
  <2>. QED
    BY <1>1, <2>1, <2>2, <2>3
<1>. QED
  BY <1>2 DEF PrimaryKey

\* The schema accepts the devices of a trace that is not older than the stored
\* rows.
LEMMA DevicesFit ==
    ASSUME NEW d, DeviceConstraints(d), TimesAreOrderly(d), NEW t \in AllTraces, NEW w,
           w.devices = UpsertedDevices(d.devices, t.devices),
           \A row \in t.devices :
              /\ (\A x \in d.devices : x.id # row.id) => row.updated >= row.created
              /\ \A x \in d.devices : x.id = row.id => row.updated >= x.created
    PROVE  DeviceConstraints(w)
<1>1. PrimaryKey(t.devices) /\ \A x \in t.devices : DOMAIN x = DeviceColumns
  BY DevicesAssumption DEF NewDevices
<1>2. PrimaryKey(w.devices)
  BY <1>1, UpsertKeepsKey DEF DeviceConstraints
<1>3. ASSUME NEW y \in w.devices PROVE y.updated >= y.created
  BY <1>1, UpsertedRows DEF DeviceConstraints
<1>. QED
  BY <1>2, <1>3 DEF DeviceConstraints

\* The rows of a new trace share neither an id nor a run with stored ones.
LEMMA RowsAreApart ==
    ASSUME NEW d, RunsAreWhole(d), NEW w, NEW t, TraceAdded(d, w, t), NEW k \in EvidenceTables,
           NEW x \in d[k], NEW y \in EvidenceRows(t, k)
    PROVE  /\ x.id # y.id
           /\ k # "outcomes" => x.run # y.run
           /\ k = "outcomes" => x.action # y.action
<1>1. PICK u \in AllTraces : u.run \in d.runs /\ x \in EvidenceRows(u, k)
  BY DEF RunsAreWhole
<1>2. u.run.id # t.run.id /\ t \in AllTraces
  BY <1>1 DEF TraceAdded, RunIsStored, Ids
<1>3. OwnIds(t, u) /\ OwnRows(t) /\ OwnRows(u)
  BY <1>1, <1>2, TracesAssumption
<1>4. x.id # y.id
  BY <1>1, <1>3 DEF OwnIds, Ids
<1>5. k # "outcomes" => x.run # y.run
  BY <1>1, <1>2, <1>3 DEF OwnRows
<1>6. ASSUME k = "outcomes" PROVE x.action # y.action
  <2>1. x \in u.outcomes /\ y \in t.outcomes
    BY <1>1, <1>6 DEF EvidenceRows
  <2>2. x.action \in Ids(u.actions) /\ y.action \in Ids(t.actions)
    BY <1>3, <2>1 DEF OwnRows
  <2>3. Ids(t.actions) \cap Ids(u.actions) = {}
    BY <1>3 DEF OwnIds, EvidenceTables, EvidenceRows
  <2>. QED
    BY <2>2, <2>3
<1>. QED
  BY <1>4, <1>5, <1>6

\* Keys that hold of the stored rows and of the new ones hold of both.
LEMMA KeysFit ==
    ASSUME NEW d, TablesInv(d), NEW w, NEW t, TraceAdded(d, w, t), NEW k \in EvidenceTables,
           PrimaryKey(d[k]), NEW rows, EvidenceRows(t, k) \subseteq rows, PrimaryKey(rows)
    PROVE  /\ PrimaryKey(w[k])
           /\ \A c : k # "outcomes" /\ OncePerRun(d[k], c) /\ OncePerRun(rows, c) => OncePerRun(w[k], c)
<1>1. w[k] = d[k] \cup EvidenceRows(t, k)
  BY TraceRowsAdded DEF TablesInv
<1>2. \A x \in d[k], y \in EvidenceRows(t, k) : x.id # y.id /\ (k # "outcomes" => x.run # y.run)
  BY RowsAreApart DEF TablesInv
<1>3. PrimaryKey(w[k])
  BY <1>1, <1>2 DEF PrimaryKey
<1>4. ASSUME NEW c, k # "outcomes", OncePerRun(d[k], c), OncePerRun(rows, c)
      PROVE  OncePerRun(w[k], c)
  <2>. SUFFICES ASSUME NEW x \in w[k], NEW y \in w[k], x.run = y.run, x[c] = y[c]
                PROVE  x = y
    BY DEF OncePerRun
  <2>1. CASE x \in d[k] /\ y \in d[k]
    BY <1>4, <2>1 DEF OncePerRun
  <2>2. CASE x \in EvidenceRows(t, k) /\ y \in EvidenceRows(t, k)
    BY <1>4, <2>2 DEF OncePerRun
  <2>. QED
    BY <1>1, <1>2, <1>4, <2>1, <2>2
<1>. QED
  BY <1>3, <1>4

\* A trace whose rows the schema accepts in some tables, it accepts in others
\* that have the devices and actions it refers to.
LEMMA AddedTraceFits ==
    ASSUME NEW d, TablesInv(d), TraceConstraints(d), NEW w, NEW t, TraceAdded(d, w, t),
           DeviceConstraints(w),
           NEW b, TraceConstraints(b), \A k \in EvidenceTables : EvidenceRows(t, k) \subseteq b[k],
           Ids(b.devices) \subseteq Ids(w.devices), Ids(b.actions) \subseteq Ids(w.actions)
    PROVE  TraceConstraints(w)
<1>1. /\ w.runs = d.runs \cup {t.run}
      /\ \A x \in d.runs : x.id # t.run.id
      /\ \A k \in EvidenceTables : w[k] = d[k] \cup EvidenceRows(t, k)
      /\ w.devices = UpsertedDevices(d.devices, t.devices)
      /\ t \in AllTraces
  BY TraceRowsAdded DEF TablesInv, TraceAdded
<1>2. Ids(d.devices) \subseteq Ids(w.devices)
  BY <1>1, UpsertKeeps DEF TablesInv, DevicesKept, Ids
<1>3. /\ Ids(d.runs) \subseteq Ids(w.runs) /\ t.run.id \in Ids(w.runs)
      /\ Ids(d.actions) \subseteq Ids(w.actions)
  BY <1>1 DEF Ids, EvidenceTables
<1>4. PrimaryKey(w.runs)
  BY <1>1 DEF TraceConstraints, PrimaryKey
<1>5. OwnRows(t)
  BY <1>1, TracesAssumption
<1>6. ObservationConstraints(w)
  <2>1. /\ w.observations = d.observations \cup t.observations
        /\ t.observations \subseteq b.observations
        /\ \A x \in t.observations : x.run = t.run.id
    BY <1>1, <1>5 DEF EvidenceTables, EvidenceRows, OwnRows
  <2>2. PrimaryKey(w.observations) /\ OncePerRun(w.observations, "order")
    BY <2>1, KeysFit DEF EvidenceTables, EvidenceRows, TraceConstraints, ObservationConstraints
  <2>3. ObservationConstraints(d) /\ ObservationConstraints(b)
    BY DEF TraceConstraints
  <2>. QED
    BY <1>2, <1>3, <2>1, <2>2, <2>3 DEF ObservationConstraints
<1>7. ActionConstraints(w)
  <2>1. /\ w.actions = d.actions \cup t.actions
        /\ t.actions \subseteq b.actions
        /\ \A x \in t.actions : x.run = t.run.id
    BY <1>1, <1>5 DEF EvidenceTables, EvidenceRows, OwnRows
  <2>2. PrimaryKey(w.actions) /\ OncePerRun(w.actions, "order")
    BY <2>1, KeysFit DEF EvidenceTables, EvidenceRows, TraceConstraints, ActionConstraints
  <2>3. ActionConstraints(d) /\ ActionConstraints(b)
    BY DEF TraceConstraints
  <2>. QED
    BY <1>2, <1>3, <2>1, <2>2, <2>3 DEF ActionConstraints
<1>8. OutcomeConstraints(w)
  <2>1. /\ w.outcomes = d.outcomes \cup t.outcomes
        /\ w.actions = d.actions \cup t.actions
        /\ t.outcomes \subseteq b.outcomes
        /\ \A x \in t.outcomes : x.action \in Ids(t.actions)
    BY <1>1, <1>5 DEF EvidenceTables, EvidenceRows, OwnRows
  <2>2. PrimaryKey(w.outcomes)
    BY <2>1, KeysFit DEF EvidenceTables, EvidenceRows, TraceConstraints, OutcomeConstraints
  <2>3. OutcomeConstraints(d) /\ OutcomeConstraints(b)
    BY DEF TraceConstraints
  <2>4. \A x \in d.outcomes, y \in t.outcomes : x.action # y.action
    BY RowsAreApart DEF TablesInv, EvidenceTables, EvidenceRows
  <2>5. \A x, y \in w.outcomes : x.action = y.action => x = y
    BY <2>1, <2>3, <2>4 DEF OutcomeConstraints
  <2>6. Ids(t.actions) \subseteq Ids(w.actions)
    BY <2>1 DEF Ids
  <2>. QED
    BY <1>3, <2>1, <2>2, <2>3, <2>5, <2>6 DEF OutcomeConstraints
<1>9. CheckpointConstraints(w)
  <2>1. /\ w.checkpoints = d.checkpoints \cup {t.checkpoint}
        /\ t.checkpoint \in b.checkpoints
        /\ t.checkpoint.run = t.run.id
    BY <1>1, <1>5 DEF EvidenceTables, EvidenceRows, OwnRows
  <2>2. PrimaryKey(w.checkpoints) /\ OncePerRun(w.checkpoints, "step")
    BY <2>1, KeysFit DEF EvidenceTables, EvidenceRows, TraceConstraints, CheckpointConstraints
  <2>3. CheckpointConstraints(d) /\ CheckpointConstraints(b)
    BY DEF TraceConstraints
  <2>. QED
    BY <1>3, <2>1, <2>2, <2>3 DEF CheckpointConstraints
<1>10. AuditConstraints(w)
  <2>1. /\ w.audits = d.audits \cup t.audits
        /\ t.audits \subseteq b.audits
        /\ \A x \in t.audits : x.run = t.run.id
    BY <1>1, <1>5 DEF EvidenceTables, EvidenceRows, OwnRows
  <2>2. PrimaryKey(w.audits) /\ OncePerRun(w.audits, "seq")
    BY <2>1, KeysFit DEF EvidenceTables, EvidenceRows, TraceConstraints, AuditConstraints
  <2>3. AuditConstraints(d) /\ AuditConstraints(b)
    BY DEF TraceConstraints
  <2>. QED
    BY <1>3, <2>1, <2>2, <2>3 DEF AuditConstraints
<1>. QED
  BY <1>4, <1>6, <1>7, <1>8, <1>9, <1>10 DEF TraceConstraints

LEMMA TraceKeepsFit ==
    ASSUME NEW d, FitInv(d), NEW w, NEW t, TraceAdded(d, w, t), InOrder(d, t), TraceConstraints(w)
    PROVE  FitInv(w)
<1>1. /\ t \in AllTraces
      /\ w.runs = d.runs \cup {t.run}
      /\ \A x \in d.runs : x.id # t.run.id
      /\ w.devices = UpsertedDevices(d.devices, t.devices)
  BY TraceRowsAdded DEF FitInv, TablesInv, TraceAdded
<1>2. TablesInv(w)
  BY <1>1, MovesKeep DEF FitInv, Moves
<1>3. \A row \in t.devices :
          DOMAIN row = DeviceColumns /\ row.created \in Nat /\ row.updated \in Nat
          /\ row.created <= Now
  BY <1>1, DevicesAssumption, TimesAssumption DEF NewDevices
<1>4. SecondsFollow(w)
  <2>1. ASSUME NEW u \in AllTraces, u.run \in w.runs PROVE InOrder(d, u)
    <3>1. u.run = t.run => u = t
      BY <1>1, TracesAssumption
    <3>. QED
      BY <1>1, <2>1, <3>1 DEF FitInv, SecondsFollow
  <2>2. \A u : InOrder(d, u) => InOrder(w, u)
    BY <1>1 DEF InOrder
  <2>. QED
    BY <2>1, <2>2 DEF SecondsFollow
<1>5. TimesAreOrderly(w)
  <2>. SUFFICES ASSUME NEW y \in w.devices
                PROVE  y.created \in Nat /\ y.updated \in Nat /\ y.created <= Now
    BY DEF TimesAreOrderly
  <2>1. \A x \in d.devices : x.created \in Nat /\ x.updated \in Nat /\ x.created <= Now
    BY DEF FitInv, TimesAreOrderly
  <2>. QED
    BY <1>1, <1>3, <2>1, UpsertedRows
<1>6. DevicesAreOlder(w)
  <2>1. ASSUME NEW row \in t.devices
        PROVE  \E y \in w.devices : y.id = row.id /\ y.created <= row.updated
    <3>1. PICK y \in w.devices : y.id = row.id /\ y.updated = row.updated
      BY <1>1, <1>3, UpsertCovers
    <3>2. y.updated >= y.created
      BY DEF TraceConstraints, DeviceConstraints
    <3>. QED
      BY <1>3, <1>5, <3>1, <3>2 DEF TimesAreOrderly
  <2>2. ASSUME NEW u \in AllTraces, u.run \in d.runs, NEW row \in u.devices
        PROVE  \E y \in w.devices : y.id = row.id /\ y.created <= row.updated
    <3>1. PICK x \in d.devices : x.id = row.id /\ x.created <= row.updated
      BY <2>2 DEF FitInv, DevicesAreOlder
    <3>2. PICK y \in w.devices : y.id = x.id /\ y.created = x.created
      BY <1>1, UpsertKeeps DEF FitInv, TablesInv, DevicesKept
    <3>. QED
      BY <3>1, <3>2
  <2>3. \A u \in AllTraces : u.run = t.run => u = t
    BY <1>1, TracesAssumption
  <2>. QED
    BY <1>1, <2>1, <2>2, <2>3 DEF DevicesAreOlder
<1>. QED
  BY <1>2, <1>4, <1>5, <1>6 DEF FitInv

LEMMA FactsKeepFit ==
    ASSUME NEW d, FitInv(d), NEW w, NEW seed, FactsAdded(d, w, seed)
    PROVE  FitInv(w)
<1>1. TablesInv(w)
  BY FactsKeepTables DEF FitInv
<1>2. FactsInserted(d, w, seed)
  BY FactRowsAdded DEF FitInv
<1>3. w.runs = d.runs /\ \A k \in EvidenceTables : w[k] = d[k]
  BY <1>2 DEF FactsInserted
<1>4. /\ \A y \in w.devices : \E x \in d.devices : y.id = x.id
      /\ \A x \in d.devices : \E y \in w.devices : y.id = x.id /\ y.created = x.created
  BY <1>2, FactsKeepDevices DEF FitInv
<1>5. \A y \in w.devices : \E x \in d.devices :
          y.id = x.id /\ y.created = x.created /\ (y.updated = x.updated \/ y.updated = Now)
  <2>. DEFINE moved(x) == IF x.id = seed.active_device
                          THEN [x EXCEPT !.calibration = seed.active, !.updated = Now] ELSE x
  <2>1. w.devices = {moved(x) : x \in d.devices}
    BY <1>2 DEF FactsInserted
  <2>2. ASSUME NEW x \in d.devices
        PROVE  /\ moved(x).id = x.id /\ moved(x).created = x.created
               /\ moved(x).updated = x.updated \/ moved(x).updated = Now
    BY DEF FitInv, TablesInv, DevicesAreRows, DeviceColumns
  <2>. HIDE DEF moved
  <2>. QED
    BY <2>1, <2>2
<1>6. TraceConstraints(w)
  <2>1. DeviceConstraints(w)
    BY DEF FactsAdded, FactsAccepted
  <2>2. Ids(w.devices) = Ids(d.devices)
    BY <1>4 DEF Ids
  <2>3. /\ w.observations = d.observations /\ w.actions = d.actions /\ w.outcomes = d.outcomes
        /\ w.checkpoints = d.checkpoints /\ w.audits = d.audits
    BY <1>3 DEF EvidenceTables
  <2>4. /\ ObservationConstraints(w) /\ ActionConstraints(w)
    BY <1>3, <2>2, <2>3 DEF FitInv, TraceConstraints, ObservationConstraints, ActionConstraints
  <2>5. /\ OutcomeConstraints(w) /\ CheckpointConstraints(w) /\ AuditConstraints(w)
    BY <1>3, <2>3 DEF FitInv, TraceConstraints, OutcomeConstraints, CheckpointConstraints,
                      AuditConstraints
  <2>. QED
    BY <1>3, <2>1, <2>4, <2>5 DEF FitInv, TraceConstraints
<1>7. SecondsFollow(w)
  BY <1>3 DEF FitInv, SecondsFollow, InOrder
<1>8. DevicesAreOlder(w)
  BY <1>3, <1>4 DEF FitInv, DevicesAreOlder
<1>9. TimesAreOrderly(w)
  BY <1>5, TimesAssumption DEF FitInv, TimesAreOrderly
<1>. QED
  BY <1>1, <1>6, <1>7, <1>8, <1>9 DEF FitInv

\* save_hero_seed stores the second trace of a seed after the first, and no
\* other call claims its run.
LEMMA StepsAreInOrder ==
    ASSUME Inv, NEW p \in Procs, AtTrace(p)
    PROVE  InOrder(db, Rows(p))
<1>. PICK c : c = call[p]
  OBVIOUS
<1>. PICK k : k = step[p]
  OBVIOUS
<1>1. c \in Calls /\ c # None /\ k \in Nat \ {0} /\ k <= Len(c.traces)
  BY DEF Inv, AtTrace
<1>. SUFFICES ASSUME NEW s \in SeedCalls, Rows(p).run.id = s.traces[2].run.id
              PROVE  \E v \in SeedCalls : v.traces[2] = Rows(p) /\ v.traces[1].run \in db.runs
  BY DEF InOrder
<1>2. CASE c \in TraceCalls
  <2>1. Len(c.traces) = 1
    BY <1>2, TraceCallTraces
  <2>2. k = 1
    BY <1>1, <2>1
  <2>. QED
    BY <1>2, <2>2, RunIdsAssumption DEF Rows
<1>3. CASE c \in SeedCalls
  <2>0. Len(c.traces) = 2 /\ 1 \in DOMAIN c.traces
    BY <1>3, SeedTraces
  <2>1. k = 1 \/ k = 2
    BY <1>1, <2>0
  <2>2. k # 1
    BY <1>3, RunIdsAssumption DEF Rows
  <2>3. c.traces[1].run \in db.runs
    BY <1>1, <2>0, <2>1, <2>2 DEF Inv, Going
  <2>. QED
    BY <1>3, <2>1, <2>2, <2>3 DEF Rows
<1>. QED
  BY <1>1, <1>2, <1>3 DEF Calls

LEMMA FitNext == Inv /\ FitInv(db) /\ [Next]_vars => FitInv(db')
<1>. SUFFICES ASSUME Inv, FitInv(db), [Next]_vars PROVE FitInv(db')
  OBVIOUS
<1>1. CASE UNCHANGED vars
  BY <1>1 DEF vars
<1>2. ASSUME NEW p \in Procs, InsertTrace(p)
      PROVE  FitInv(db')
  <2>1. CASE db' = db
    BY <2>1
  <2>2. CASE /\ TraceAdded(db, db', Rows(p)) /\ db' # db
             /\ AtTrace(p) /\ Rows(p).run \in db'.runs
    <3>1. TraceConstraints(db')
      BY <1>2, <2>2 DEF InsertTrace
    <3>2. InOrder(db, Rows(p))
      BY <2>2, StepsAreInOrder
    <3>. QED
      BY <2>2, <3>1, <3>2, TraceKeepsFit
  <2>. QED
    BY <1>2, <2>1, <2>2, InsertStep
<1>3. ASSUME NEW p \in Procs, SaveFacts(p)
      PROVE  FitInv(db')
  BY <1>3, SaveStep, FactsKeepFit
<1>4. ASSUME NEW p \in Procs,
             \/ \E c \in Calls : Call(p, c)
             \/ ReplayTrace(p) \/ ConflictingTrace(p) \/ Stop(p)
      PROVE  FitInv(db')
  BY <1>4 DEF Call, ReplayTrace, ConflictingTrace, Stop
<1>. QED
  BY <1>1, <1>2, <1>3, <1>4 DEF Next

LEMMA FitInit == Init => FitInv(db)
<1>. SUFFICES ASSUME Init PROVE FitInv(db)
  OBVIOUS
<1>1. TablesInv(db)
  BY InitInv DEF Inv
<1>2. \A k \in TableNames : db[k] = {}
  BY EmptyIsTables DEF Init
<1>3. /\ db.devices = {} /\ db.runs = {} /\ db.observations = {} /\ db.actions = {}
      /\ db.outcomes = {} /\ db.checkpoints = {} /\ db.audits = {}
  BY <1>2 DEF TableNames, EvidenceTables
<1>4. TraceConstraints(db)
  BY <1>3 DEF TraceConstraints, DeviceConstraints, PrimaryKey, OncePerRun, ObservationConstraints,
              ActionConstraints, OutcomeConstraints, CheckpointConstraints, AuditConstraints
<1>5. SecondsFollow(db) /\ DevicesAreOlder(db) /\ TimesAreOrderly(db)
  BY <1>3 DEF SecondsFollow, DevicesAreOlder, TimesAreOrderly
<1>. QED
  BY <1>1, <1>4, <1>5 DEF FitInv

LEMMA FitInvariant == Spec => []FitInv(db)
<1>1. FitInv(db) /\ Inv /\ [Next]_vars => FitInv(db)'
  BY FitNext
<1>. QED
  BY <1>1, FitInit, Invariant, PTL DEF Spec

---------------------------------------------------------------------------
(* A seed in the company of others.                                        *)

\* The tables with the two traces of a seed and nothing else.
Alone(seed) == SavedTrace(SavedTrace(EmptyTables, seed.traces[1]), seed.traces[2])

\* Nothing is wrong with the seed itself: on a fresh database the schema and
\* the checks of save_hero_seed accept it, and its second trace is the later.
SeedIsFit(seed) ==
    /\ TraceConstraints(Alone(seed))
    /\ FactsAccepted(Alone(seed), seed)
    /\ \A row \in seed.traces[2].devices : \E x \in seed.traces[1].devices :
          x.id = row.id /\ x.updated <= row.updated

\* What is in the tables with a seed and nothing else.
AloneRows(b, t1, t2) ==
    /\ IsTables(b)
    /\ b.runs = {t1.run, t2.run}
    /\ \A k \in EvidenceTables : b[k] = EvidenceRows(t1, k) \cup EvidenceRows(t2, k)
    /\ Ids(b.devices) \subseteq Ids(t1.devices) \cup Ids(t2.devices)
    /\ b.calibrations = {} /\ b.memories = {}

LEMMA AloneIsItself ==
    ASSUME NEW seed \in SeedCalls
    PROVE  AloneRows(Alone(seed), seed.traces[1], seed.traces[2])
<1>. DEFINE t1 == seed.traces[1]
            t2 == seed.traces[2]
            a == SavedTrace(EmptyTables, t1)
            b == Alone(seed)
<1>0. t1 \in AllTraces /\ t2 \in AllTraces
  BY SeedTraces, TracesAreTraces
<1>1. t1.run.id # t2.run.id
  BY RunIdsAssumption
<1>2. b = SavedTrace(a, t2)
  BY DEF Alone
<1>. HIDE DEF t1, t2, a, b
<1>3. /\ IsTables(EmptyTables) /\ EmptyTables.runs = {} /\ EmptyTables.devices = {}
      /\ EmptyTables.calibrations = {} /\ EmptyTables.memories = {}
      /\ \A k \in EvidenceTables : EmptyTables[k] = {}
  BY EmptyIsTables DEF TableNames
<1>4. RunsAreWhole(EmptyTables) /\ TraceAdded(EmptyTables, a, t1)
  BY <1>0, <1>3 DEF RunsAreWhole, KeysOf, TraceAdded, RunIsStored, Ids, a
<1>5. /\ IsTables(a) /\ RunsAreWhole(a) /\ a.runs = {t1.run}
      /\ \A k \in EvidenceTables : a[k] = EvidenceRows(t1, k)
      /\ a.devices = UpsertedDevices({}, t1.devices)
      /\ a.calibrations = {} /\ a.memories = {}
  <2>1. /\ IsTables(a)
        /\ a.runs = EmptyTables.runs \cup {t1.run}
        /\ \A k \in EvidenceTables : a[k] = EmptyTables[k] \cup EvidenceRows(t1, k)
        /\ a.devices = UpsertedDevices(EmptyTables.devices, t1.devices)
        /\ a.calibrations = EmptyTables.calibrations /\ a.memories = EmptyTables.memories
    <3>1. IsTables(EmptyTables)
      BY <1>3
    <3>. QED
      BY <1>4, <3>1, TraceRowsAdded
  <2>2. RunsAreWhole(a)
    BY <1>3, <1>4, TraceKeepsRuns
  <2>. QED
    BY <1>3, <2>1, <2>2
<1>6. TraceAdded(a, b, t2)
  BY <1>0, <1>1, <1>2, <1>5 DEF TraceAdded, RunIsStored, Ids
<1>7. /\ IsTables(b) /\ b.runs = {t1.run, t2.run}
      /\ \A k \in EvidenceTables : b[k] = EvidenceRows(t1, k) \cup EvidenceRows(t2, k)
      /\ b.devices = UpsertedDevices(a.devices, t2.devices)
      /\ b.calibrations = {} /\ b.memories = {}
  BY <1>5, <1>6, TraceRowsAdded
<1>8. \A t \in AllTraces : \A x \in t.devices : DOMAIN x = DeviceColumns
  BY DevicesAssumption DEF NewDevices
<1>9. Ids(a.devices) \subseteq Ids(t1.devices)
  <2>1. ASSUME NEW y \in a.devices PROVE y.id \in Ids(t1.devices)
    BY <1>0, <1>5, <1>8, UpsertedRows DEF Ids
  <2>. QED
    BY <2>1 DEF Ids
<1>10. Ids(b.devices) \subseteq Ids(t1.devices) \cup Ids(t2.devices)
  <2>1. ASSUME NEW y \in b.devices PROVE y.id \in Ids(a.devices) \cup Ids(t2.devices)
    BY <1>0, <1>7, <1>8, UpsertedRows DEF Ids
  <2>. QED
    BY <1>9, <2>1 DEF Ids
<1>11. AloneRows(b, t1, t2)
  BY <1>7, <1>10 DEF AloneRows
<1>. QED
  BY <1>11 DEF b, t1, t2

\* Where a seed is stored is all it needs.
LEMMA AloneIsContained ==
    ASSUME NEW d, FitInv(d), NEW seed \in SeedCalls, TracesStored(d, seed)
    PROVE  /\ \A k \in EvidenceTables : Alone(seed)[k] \subseteq d[k]
           /\ Alone(seed).runs \subseteq d.runs
           /\ Ids(Alone(seed).devices) \subseteq Ids(d.devices)
<1>. PICK t1 : t1 = seed.traces[1]
  OBVIOUS
<1>. PICK t2 : t2 = seed.traces[2]
  OBVIOUS
<1>1. t1 \in AllTraces /\ t2 \in AllTraces /\ t1.run \in d.runs /\ t2.run \in d.runs
  BY SeedTraces, TracesAreTraces DEF TracesStored
<1>2. TraceStored(d, t1) /\ TraceStored(d, t2)
  BY <1>1 DEF FitInv, TablesInv, RunsAreWhole
<1>3. Ids(t1.devices) \subseteq Ids(d.devices) /\ Ids(t2.devices) \subseteq Ids(d.devices)
  BY <1>1 DEF FitInv, DevicesAreOlder, Ids
<1>4. AloneRows(Alone(seed), t1, t2)
  BY AloneIsItself
<1>. QED
  BY <1>1, <1>2, <1>3, <1>4 DEF AloneRows, TraceStored

\* The facts of a fit seed are accepted wherever its traces are stored.
LEMMA FactsFit ==
    ASSUME NEW d, FitInv(d), NEW seed \in SeedCalls, TracesStored(d, seed),
           Coherent(seed), SeedIsFit(seed)
    PROVE  FactsAccepted(d, seed)
<1>. DEFINE w == SavedFacts(d, seed)
            b == Alone(seed)
            v == SavedFacts(b, seed)
<1>1. FactsInserted(d, w, seed)
  BY FactRowsSaved DEF FitInv
<1>2. IsTables(b) /\ b.calibrations = {} /\ b.memories = {}
  BY AloneIsItself DEF AloneRows
<1>3. FactsReplaced(b, v, seed)
  BY <1>2, SavedFactsTables
<1>4. /\ \A k \in EvidenceTables : b[k] \subseteq d[k]
      /\ b.runs \subseteq d.runs /\ Ids(b.devices) \subseteq Ids(d.devices)
  BY AloneIsContained
<1>5. /\ ReferencesPointBack(b.calibrations, seed.calibrations)
      /\ ReferencesPointBack(b.memories, InSavingOrder(seed.memories))
      /\ CalibrationConstraints(v) /\ MemoryConstraints(v)
      /\ seed.active_device \in Ids(b.devices)
  BY DEF SeedIsFit, FactsAccepted
<1>6. ActiveBelongs(w, seed)
  <2>1. "calibrations" \in DOMAIN EmptyTables
    BY DEF EmptyTables
  <2>2. [EmptyTables EXCEPT !.calibrations = Range(seed.calibrations)].calibrations
          = Range(seed.calibrations)
    BY <2>1
  <2>3. w.calibrations = Range(seed.calibrations)
    BY <1>1 DEF FactsInserted
  <2>. HIDE DEF w
  <2>. QED
    BY <2>2, <2>3 DEF Coherent, ActiveBelongs
<1>. HIDE DEF w, b, v
<1>7. \A table, rows : ReferencesPointBack({}, rows) => ReferencesPointBack(table, rows)
  BY DEF ReferencesPointBack, Ids
<1>8. /\ ReferencesPointBack(d.calibrations, seed.calibrations)
      /\ ReferencesPointBack(d.memories, InSavingOrder(seed.memories))
  BY <1>2, <1>5, <1>7
<1>9. /\ w.calibrations = v.calibrations /\ w.memories = v.memories
  BY <1>1, <1>2, <1>3 DEF FactsInserted, FactsReplaced, Replaced, Ids
<1>10. Ids(w.devices) = Ids(d.devices)
  <2>1. /\ \A y \in w.devices : \E x \in d.devices : y.id = x.id
        /\ \A x \in d.devices : \E y \in w.devices : y.id = x.id
    BY <1>1, FactsKeepDevices DEF FitInv
  <2>. QED
    BY <2>1 DEF Ids
<1>11. Ids(v.devices) \subseteq Ids(b.devices)
  <2>. DEFINE moved(x) == IF x.id = seed.active_device
                          THEN [x EXCEPT !.calibration = seed.active, !.updated = Now] ELSE x
  <2>1. v.devices = {moved(x) : x \in b.devices}
    BY <1>3 DEF FactsReplaced
  <2>2. ASSUME NEW x \in b.devices PROVE moved(x).id = x.id
    OBVIOUS
  <2>. HIDE DEF moved
  <2>. QED
    BY <2>1, <2>2 DEF Ids
<1>12. CalibrationConstraints(w)
  BY <1>4, <1>5, <1>9, <1>10, <1>11 DEF CalibrationConstraints
<1>13. MemoryConstraints(w)
  <2>1. /\ Ids(v.runs) \subseteq Ids(w.runs)
        /\ Ids(v.observations) \subseteq Ids(w.observations)
        /\ Ids(v.actions) \subseteq Ids(w.actions)
        /\ Ids(v.outcomes) \subseteq Ids(w.outcomes)
    BY <1>1, <1>3, <1>4 DEF FactsInserted, FactsReplaced, EvidenceTables, Ids
  <2>2. Ids(v.devices) \subseteq Ids(w.devices)
    BY <1>4, <1>10, <1>11
  <2>. QED
    BY <1>5, <1>9, <2>1, <2>2 DEF MemoryConstraints
<1>14. DeviceConstraints(w)
  <2>. DEFINE moved(x) == IF x.id = seed.active_device
                          THEN [x EXCEPT !.calibration = seed.active, !.updated = Now] ELSE x
  <2>1. w.devices = {moved(x) : x \in d.devices}
    BY <1>1 DEF FactsInserted
  <2>2. /\ PrimaryKey(d.devices) /\ \A x \in d.devices : x.updated >= x.created
    BY DEF FitInv, TraceConstraints, DeviceConstraints
  <2>3. ASSUME NEW x \in d.devices
        PROVE  moved(x).id = x.id /\ moved(x).updated >= moved(x).created
    <3>1. DOMAIN x = DeviceColumns /\ x.created \in Nat /\ x.created <= Now
      BY DEF FitInv, TablesInv, DevicesAreRows, TimesAreOrderly
    <3>. QED
      BY <2>2, <3>1, TimesAssumption DEF DeviceColumns
  <2>. HIDE DEF moved
  <2>. QED
    BY <2>1, <2>2, <2>3 DEF DeviceConstraints, PrimaryKey
<1>15. seed.active_device \in Ids(d.devices)
  BY <1>4, <1>5
<1>. QED
  BY <1>6, <1>8, <1>12, <1>13, <1>14, <1>15 DEF FactsAccepted, w

---------------------------------------------------------------------------
(* Completing a seed.                                                      *)

\* A trace that is stored is not stored again.
LEMMA StoredIsSkipped ==
    ASSUME NEW d, NEW t, t.run \in d.runs
    PROVE  AfterTrace(d, t) = d
  BY DEF AfterTrace, RunIsStored, Ids

\* After the first run of a seed its second can be stored, or is.
LEMMA SecondTraceFits ==
    ASSUME NEW d, FitInv(d), NEW seed \in SeedCalls, SeedIsFit(seed),
           seed.traces[1].run \in d.runs
    PROVE  FitInv(AfterTrace(d, seed.traces[2])) /\ TracesStored(AfterTrace(d, seed.traces[2]), seed)
<1>. DEFINE t1 == seed.traces[1]
            t2 == seed.traces[2]
            w == SavedTrace(d, t2)
            b == Alone(seed)
<1>0. t1 \in AllTraces /\ t2 \in AllTraces /\ DOMAIN seed.traces = {1, 2}
  BY SeedTraces, TracesAreTraces
<1>1. CASE RunIsStored(d, t2)
  <2>1. PICK u \in AllTraces : u.run \in d.runs /\ u.run.id = t2.run.id
    BY <1>1 DEF RunIsStored, Ids, FitInv, TablesInv, RunsAreWhole
  <2>2. PICK v \in SeedCalls : v.traces[2] = u /\ v.traces[1].run \in d.runs
    BY <2>1 DEF FitInv, SecondsFollow, InOrder
  <2>3. v.traces[1] \in AllTraces
    BY SeedTraces, TracesAreTraces
  <2>4. v.traces[1].run.id = t1.run.id
    BY SeedsAssumption
  <2>5. v.traces[1].run = t1.run
    BY <2>2, <2>4 DEF FitInv, TablesInv, RunsAreWhole, KeysOf
  <2>6. v.traces[1] = t1
    BY <1>0, <2>3, <2>5, TracesAssumption
  <2>7. v.traces = seed.traces
    BY <2>6, SeedsAssumption
  <2>8. t2.run \in d.runs
    BY <2>1, <2>2, <2>7
  <2>9. AfterTrace(d, t2) = d
    BY <2>8, StoredIsSkipped
  <2>. QED
    BY <1>0, <2>8, <2>9 DEF TracesStored
<1>2. CASE ~RunIsStored(d, t2)
  <2>1. AfterTrace(d, t2) = w /\ TraceAdded(d, w, t2)
    BY <1>0, <1>2 DEF AfterTrace, TraceAdded
  <2>. HIDE DEF w
  <2>2. /\ w.runs = d.runs \cup {t2.run}
        /\ \A k \in EvidenceTables : w[k] = d[k] \cup EvidenceRows(t2, k)
        /\ w.devices = UpsertedDevices(d.devices, t2.devices)
    BY <2>1, TraceRowsAdded DEF FitInv, TablesInv
  <2>3. InOrder(d, t2)
    BY DEF InOrder
  <2>4. ASSUME NEW row \in t2.devices
        PROVE  \E x \in d.devices : x.id = row.id /\ row.updated >= x.created
    <3>1. PICK first \in t1.devices : first.id = row.id /\ first.updated <= row.updated
      BY DEF SeedIsFit
    <3>2. PICK x \in d.devices : x.id = first.id /\ x.created <= first.updated
      BY <1>0 DEF FitInv, DevicesAreOlder
    <3>3. x.created \in Nat /\ first.updated \in Nat /\ row.updated \in Nat
      BY <1>0, TimesAssumption DEF FitInv, TimesAreOrderly
    <3>. QED
      BY <3>1, <3>2, <3>3
  <2>5. \A row \in t2.devices :
          /\ (\A x \in d.devices : x.id # row.id) => row.updated >= row.created
          /\ \A x \in d.devices : x.id = row.id => row.updated >= x.created
    BY <2>4 DEF FitInv, TraceConstraints, DeviceConstraints, PrimaryKey
  <2>6. DeviceConstraints(w)
    BY <1>0, <2>2, <2>5, DevicesFit DEF FitInv, TraceConstraints
  <2>7. AloneRows(b, t1, t2)
    BY AloneIsItself
  <2>8. TraceStored(d, t1)
    BY <1>0 DEF FitInv, TablesInv, RunsAreWhole
  <2>9. Ids(b.devices) \subseteq Ids(w.devices)
    <3>1. \A row \in t1.devices : \E x \in d.devices : x.id = row.id
      BY <1>0 DEF FitInv, DevicesAreOlder
    <3>2. \A x \in d.devices : \E y \in w.devices : y.id = x.id
      BY <1>0, <2>2, UpsertKeeps DEF FitInv, TablesInv, DevicesKept
    <3>3. Ids(t1.devices) \subseteq Ids(w.devices) /\ Ids(t2.devices) \subseteq Ids(w.devices)
      BY <2>4, <3>1, <3>2 DEF Ids
    <3>. QED
      BY <2>7, <3>3 DEF AloneRows
  <2>10. Ids(b.actions) \subseteq Ids(w.actions)
    <3>1. /\ b.actions = EvidenceRows(t1, "actions") \cup EvidenceRows(t2, "actions")
          /\ w.actions = d.actions \cup EvidenceRows(t2, "actions")
          /\ EvidenceRows(t1, "actions") \subseteq d.actions
      BY <2>2, <2>7, <2>8 DEF AloneRows, EvidenceTables, TraceStored
    <3>. QED
      BY <3>1 DEF Ids
  <2>11. \A k \in EvidenceTables : EvidenceRows(t2, k) \subseteq b[k]
    BY <2>7 DEF AloneRows
  <2>12. TraceConstraints(b)
    BY DEF SeedIsFit
  <2>13. TraceConstraints(w)
    <3>. HIDE DEF b, t1, t2
    <3>1. TablesInv(d) /\ TraceConstraints(d)
      BY DEF FitInv
    <3>. QED
      BY <2>1, <2>6, <2>9, <2>10, <2>11, <2>12, <3>1, AddedTraceFits
  <2>14. FitInv(w)
    BY <2>1, <2>3, <2>13, TraceKeepsFit
  <2>. QED
    BY <1>0, <2>1, <2>2, <2>14 DEF TracesStored
<1>. QED
  BY <1>1, <1>2

\* Saving facts that are saved changes nothing.
LEMMA FactsAreSavedOnce ==
    ASSUME NEW d, FitInv(d), NEW w, NEW seed, FactsAdded(d, w, seed)
    PROVE  SavedFacts(w, seed) = w
<1>. DEFINE g == SavedFacts(w, seed)
            moved(x) == IF x.id = seed.active_device
                        THEN [x EXCEPT !.calibration = seed.active, !.updated = Now] ELSE x
<1>1. FactsInserted(d, w, seed) /\ seed \in SeedCalls
  BY FactRowsAdded DEF FitInv, FactsAdded
<1>2. TablesInv(w) /\ TracesStored(w, seed)
  BY <1>1, FactsKeepTables DEF FitInv, FactsInserted, FactsAdded, TracesStored
<1>3. FactsInserted(w, g, seed)
  BY <1>1, <1>2, FactRowsSaved
<1>4. w.devices = {moved(x) : x \in d.devices} /\ g.devices = {moved(y) : y \in w.devices}
  BY <1>1, <1>3 DEF FactsInserted
<1>5. ASSUME NEW x \in d.devices PROVE moved(moved(x)) = moved(x)
  <2>1. x = [k \in DeviceColumns |-> x[k]] \/ DOMAIN x = DeviceColumns
    BY DEF FitInv, TablesInv, DevicesAreRows
  <2>2. CASE x.id # seed.active_device
    BY <2>2
  <2>3. CASE x.id = seed.active_device
    <3>1. DOMAIN x = DeviceColumns
      BY DEF FitInv, TablesInv, DevicesAreRows
    <3>2. PICK y : y = [x EXCEPT !.calibration = seed.active, !.updated = Now]
      OBVIOUS
    <3>3. y.id = x.id /\ y.calibration = seed.active /\ y.updated = Now
      BY <3>1, <3>2 DEF DeviceColumns
    <3>4. [y EXCEPT !.calibration = seed.active, !.updated = Now] = y
      BY <3>2, <3>3
    <3>. QED
      BY <2>3, <3>2, <3>3, <3>4
  <2>. QED
    BY <2>2, <2>3
<1>. HIDE DEF g, moved
<1>6. g.devices = w.devices
  BY <1>4, <1>5
<1>7. /\ IsTables(g) /\ IsTables(w) /\ g.runs = w.runs
      /\ \A k \in EvidenceTables : g[k] = w[k]
      /\ g.calibrations = w.calibrations /\ g.memories = w.memories
  BY <1>1, <1>3 DEF FactsInserted
<1>8. \A k \in TableNames : g[k] = w[k]
  BY <1>6, <1>7 DEF TableNames
<1>9. g = [k \in TableNames |-> g[k]] /\ w = [k \in TableNames |-> w[k]]
  BY <1>7 DEF IsTables
<1>10. [k \in TableNames |-> g[k]] = [k \in TableNames |-> w[k]]
  BY <1>8
<1>. QED
  BY <1>9, <1>10 DEF g

\* However an earlier attempt to store a seed was stopped, and whatever other
\* processes stored, or stored half, before and after it: once the first trace
\* of the seed is in, save_hero_seed called again and left alone completes the
\* seed within the constraints of the schema, and called once more it changes
\* nothing.  This holds of every seed that a fresh database would accept.
THEOREM SeedsCanBeCompleted ==
    ASSUME \A seed \in SeedCalls : Coherent(seed) => SeedIsFit(seed)
    PROVE  Spec => []SeedCanBeCompleted
<1>1. ASSUME NEW d, FitInv(d), NEW seed \in SeedCalls, Coherent(seed),
             SameEvidence(d, seed.traces[1])
      PROVE  /\ SeedStored(AfterSeed(d, seed), seed)
             /\ TraceConstraints(AfterSeed(d, seed))
             /\ AfterSeed(AfterSeed(d, seed), seed) = AfterSeed(d, seed)
  <2>. DEFINE t1 == seed.traces[1]
              t2 == seed.traces[2]
              e == AfterTrace(d, t2)
              f == SavedFacts(e, seed)
  <2>1. t1 \in AllTraces /\ t2 \in AllTraces /\ DOMAIN seed.traces = {1, 2}
    BY SeedTraces, TracesAreTraces
  <2>2. SeedIsFit(seed)
    BY <1>1
  <2>3. t1.run \in d.runs
    BY <1>1, <2>1, ReplayFindsTrace DEF FitInv, TablesInv
  <2>4. FitInv(e) /\ TracesStored(e, seed)
    BY <1>1, <2>2, <2>3, SecondTraceFits
  <2>5. FactsAccepted(e, seed)
    BY <1>1, <2>2, <2>4, FactsFit
  <2>6. AfterSeed(d, seed) = f
    <3>1. AfterTrace(d, t1) = d
      BY <2>3, StoredIsSkipped
    <3>. QED
      BY <2>5, <3>1 DEF AfterSeed
  <2>7. FactsAdded(e, f, seed)
    BY <2>4, <2>5 DEF FactsAdded
  <2>8. FitInv(f) /\ Settled(f, seed)
    BY <2>4, <2>7, FactsKeepFit, FactsSettle DEF FitInv
  <2>9. SavedFacts(f, seed) = f
    BY <2>4, <2>7, FactsAreSavedOnce
  <2>. HIDE DEF e, f
  <2>10. SeedStored(f, seed)
    BY <2>8, StoredSeed DEF FitInv, TablesInv, Settled
  <2>11. TraceConstraints(f)
    BY <2>8 DEF FitInv
  <2>12. AfterTrace(f, t1) = f /\ AfterTrace(f, t2) = f
    BY <2>1, <2>8, StoredIsSkipped DEF Settled, TracesStored
  <2>13. AfterSeed(f, seed) = f
    BY <2>9, <2>12 DEF AfterSeed
  <2>. QED
    BY <2>6, <2>10, <2>11, <2>13
<1>2. FitInv(db) => SeedCanBeCompleted
  BY <1>1 DEF SeedCanBeCompleted
<1>. QED
  BY <1>2, FitInvariant, PTL

---------------------------------------------------------------------------
(* The fake of the unit tests beside an undisturbed SQL repository         *)
(* (FakeTraces).                                                           *)

\* Every row of f, devices aside, is a row of s.
Follows(f, s) ==
    /\ f.runs \subseteq s.runs
    /\ \A k \in EvidenceTables : f[k] \subseteq s[k]
    /\ f.calibrations \subseteq s.calibrations
    /\ f.memories \subseteq s.memories

\* What a trace the fake does not know makes of its tables.
LEMMA AppliedTables ==
    ASSUME NEW d, IsTables(d), NEW t, ~RunIsStored(d, t)
    PROVE  \E w : /\ ApplyTrace(d, t) = Done(w)
                  /\ IsTables(w)
                  /\ w.runs = d.runs \cup {t.run}
                  /\ \A k \in EvidenceTables : w[k] = PutAll(d[k], EvidenceRows(t, k))
                  /\ w.calibrations = d.calibrations /\ w.memories = d.memories
<1>1. PICK w : w = [d EXCEPT !.devices      = PutAll(@, t.devices),
                             !.runs         = @ \cup {t.run},
                             !.observations = PutAll(@, t.observations),
                             !.actions      = PutAll(@, t.actions),
                             !.outcomes     = PutAll(@, t.outcomes),
                             !.checkpoints  = PutAll(@, {t.checkpoint}),
                             !.audits       = PutAll(@, t.audits)]
  OBVIOUS
<1>2. ApplyTrace(d, t) = Done(w)
  BY <1>1 DEF ApplyTrace
<1>3. DOMAIN d = TableNames
  BY DEF IsTables
<1>4. /\ IsTables(w)
      /\ w.runs = d.runs \cup {t.run}
      /\ w.observations = PutAll(d.observations, t.observations)
      /\ w.actions = PutAll(d.actions, t.actions)
      /\ w.outcomes = PutAll(d.outcomes, t.outcomes)
      /\ w.checkpoints = PutAll(d.checkpoints, {t.checkpoint})
      /\ w.audits = PutAll(d.audits, t.audits)
      /\ w.calibrations = d.calibrations /\ w.memories = d.memories
  BY <1>1, <1>3 DEF TableNames, EvidenceTables, IsTables
<1>5. \A k \in EvidenceTables : w[k] = PutAll(d[k], EvidenceRows(t, k))
  BY <1>4 DEF EvidenceTables, EvidenceRows
<1>. QED BY <1>2, <1>4, <1>5

LEMMA ApplyTraceTables ==
    ASSUME NEW d, IsTables(d), NEW t
    PROVE  /\ IsTables(ApplyTrace(d, t).db)
           /\ ApplyTrace(d, t).result \in {"ok", "conflict"}
<1>1. CASE RunIsStored(d, t)
  BY <1>1 DEF ApplyTrace, Done, Failing
<1>2. CASE ~RunIsStored(d, t)
  BY <1>2, AppliedTables DEF Done
<1>. QED BY <1>1, <1>2

\* A transaction of save_trace that is accepted leaves the tables as they are
\* or adds the trace; another leaves them as they are.
LEMMA SqlTraceSteps ==
    ASSUME NEW d, IsTables(d), RunsAreWhole(d), NEW t \in AllTraces
    PROVE  \/ SqlTrace(d, t).db = d /\ (SqlTrace(d, t).result = "ok" => t.run \in d.runs)
           \/ TraceAdded(d, SqlTrace(d, t).db, t) /\ SqlTrace(d, t).result = "ok"
<1>1. CASE RunIsStored(d, t)
  <2>1. CASE SameEvidence(d, t)
    BY <1>1, <2>1, ReplayFindsTrace DEF SqlTrace, Done
  <2>2. CASE ~SameEvidence(d, t)
    BY <1>1, <2>2 DEF SqlTrace, Failing
  <2>. QED BY <2>1, <2>2
<1>2. CASE ~RunIsStored(d, t)
  <2>1. CASE TraceConstraints(SavedTrace(d, t))
    BY <1>2, <2>1 DEF SqlTrace, Done, TraceAdded
  <2>2. CASE ~TraceConstraints(SavedTrace(d, t))
    BY <1>2, <2>2 DEF SqlTrace, Failing
  <2>. QED BY <2>1, <2>2
<1>. QED BY <1>1, <1>2

LEMMA SqlTraceKeeps ==
    ASSUME NEW d, IsTables(d), RunsAreWhole(d), NEW t \in AllTraces, NEW w, w = SqlTrace(d, t).db
    PROVE  IsTables(w) /\ RunsAreWhole(w) /\ Follows(d, w)
<1>1. CASE w = d
  BY <1>1 DEF Follows
<1>2. CASE TraceAdded(d, w, t)
  <2>1. /\ IsTables(w)
        /\ w.runs = d.runs \cup {t.run}
        /\ \A k \in EvidenceTables : w[k] = d[k] \cup EvidenceRows(t, k)
        /\ w.calibrations = d.calibrations /\ w.memories = d.memories
    BY <1>2, TraceRowsAdded
  <2>2. RunsAreWhole(w)
    BY <1>2, TraceKeepsRuns
  <2>. QED BY <2>1, <2>2 DEF Follows
<1>. QED BY <1>1, <1>2, SqlTraceSteps

\* A trace both accept: if the database knew its run already, from a call that
\* was refused later, it has all its rows; if not, none of their keys is taken.
LEMMA TraceFollows ==
    ASSUME NEW f, IsTables(f), NEW d, IsTables(d), RunsAreWhole(d), Follows(f, d),
           NEW t \in AllTraces, ApplyTrace(f, t).result = "ok", SqlTrace(d, t).result = "ok"
    PROVE  /\ Follows(ApplyTrace(f, t).db, SqlTrace(d, t).db)
           /\ Follows(d, f) => Follows(SqlTrace(d, t).db, ApplyTrace(f, t).db)
<1>1. PICK w : w = SqlTrace(d, t).db
  OBVIOUS
<1>2. \/ w = d /\ t.run \in d.runs
      \/ TraceAdded(d, w, t)
  BY <1>1, SqlTraceSteps
<1>3. CASE RunIsStored(f, t)
  <2>1. ApplyTrace(f, t).db = f /\ t.run \in f.runs
    BY <1>3 DEF ApplyTrace, SameTrace, Done, Failing
  <2>2. t.run \in d.runs
    BY <2>1 DEF Follows
  <2>3. ~TraceAdded(d, w, t)
    BY <2>2 DEF TraceAdded, RunIsStored, Ids
  <2>. QED BY <1>1, <1>2, <2>1, <2>3
<1>4. CASE ~RunIsStored(f, t)
  <2>1. PICK v : /\ ApplyTrace(f, t) = Done(v)
                 /\ IsTables(v)
                 /\ v.runs = f.runs \cup {t.run}
                 /\ \A k \in EvidenceTables : v[k] = PutAll(f[k], EvidenceRows(t, k))
                 /\ v.calibrations = f.calibrations /\ v.memories = f.memories
    BY <1>4, AppliedTables
  <2>2. ApplyTrace(f, t).db = v
    BY <2>1 DEF Done
  <2>3. CASE w = d /\ t.run \in d.runs
    <3>1. \A k \in EvidenceTables : EvidenceRows(t, k) \subseteq d[k]
      BY <2>3 DEF RunsAreWhole, TraceStored
    <3>2. Follows(v, d)
      BY <2>1, <2>3, <3>1 DEF Follows, PutAll
    <3>3. ~Follows(d, f)
      BY <1>4, <2>3 DEF Follows, RunIsStored, Ids
    <3>. QED BY <1>1, <2>2, <2>3, <3>2, <3>3
  <2>4. CASE TraceAdded(d, w, t)
    <3>1. /\ w.runs = d.runs \cup {t.run}
          /\ \A k \in EvidenceTables : w[k] = d[k] \cup EvidenceRows(t, k)
          /\ w.calibrations = d.calibrations /\ w.memories = d.memories
      BY <2>4, TraceRowsAdded
    <3>2. Follows(v, w)
      BY <2>1, <3>1 DEF Follows, PutAll
    <3>3. ASSUME Follows(d, f), NEW k \in EvidenceTables
          PROVE  w[k] \subseteq v[k]
      <4>1. f[k] = d[k]
        BY <3>3 DEF Follows
      <4>2. ASSUME NEW x \in d[k] PROVE x \in v[k]
        <5>1. PICK u \in AllTraces : u.run \in d.runs /\ x \in EvidenceRows(u, k)
          BY <4>2 DEF RunsAreWhole
        <5>2. u.run.id # t.run.id
          BY <2>4, <5>1 DEF TraceAdded, RunIsStored, Ids
        <5>3. OwnIds(u, t)
          BY <5>2, TracesAssumption
        <5>4. x.id \notin Ids(EvidenceRows(t, k))
          BY <5>1, <5>3 DEF OwnIds, Ids
        <5>. QED BY <2>1, <4>1, <4>2, <5>4 DEF PutAll
      <4>3. EvidenceRows(t, k) \subseteq v[k]
        BY <2>1 DEF PutAll
      <4>. QED BY <3>1, <4>2, <4>3
    <3>4. Follows(d, f) => Follows(w, v)
      BY <2>1, <3>1, <3>3 DEF Follows
    <3>. QED BY <1>1, <2>2, <3>2, <3>4
  <2>. QED BY <1>2, <2>3, <2>4
<1>. QED BY <1>3, <1>4

\* A call in progress on both sides: started from d, now at f and s.
Together(start, f, s) ==
    /\ IsTables(f.db) /\ IsTables(s.db) /\ RunsAreWhole(s.db)
    /\ Follows(start, s.db)
    /\ f.result = "ok" /\ s.result = "ok" => Follows(f.db, s.db)

\* Both began with the same rows.
Equally(f, s) == f.result = "ok" /\ s.result = "ok" => Follows(s.db, f.db)

LEMMA FollowsOn ==
    ASSUME NEW a, NEW b, NEW c, Follows(a, b), Follows(b, c)
    PROVE  Follows(a, c)
  BY DEF Follows

LEMMA SavedTogether ==
    ASSUME NEW start, NEW f, NEW s, NEW t \in AllTraces
    PROVE  /\ IsTables(f.db) => IsTables(Saved("fake", f, t).db)
           /\ IsTables(s.db) /\ RunsAreWhole(s.db) /\ Follows(start, s.db) =>
                 /\ IsTables(Saved("sql", s, t).db) /\ RunsAreWhole(Saved("sql", s, t).db)
                 /\ Follows(start, Saved("sql", s, t).db)
           /\ Together(start, f, s) => Together(start, Saved("fake", f, t), Saved("sql", s, t))
           /\ Together(start, f, s) /\ Equally(f, s)
                 => Equally(Saved("fake", f, t), Saved("sql", s, t))
<1>1. PICK g : g = Saved("fake", f, t)
  OBVIOUS
<1>2. PICK r : r = Saved("sql", s, t)
  OBVIOUS
<1>3. g = IF f.result # "ok" THEN f ELSE ApplyTrace(f.db, t)
  BY <1>1 DEF Saved
<1>4. r = IF s.result # "ok" THEN s ELSE SqlTrace(s.db, t)
  BY <1>2 DEF Saved
<1>5. IsTables(f.db) => IsTables(g.db)
  BY <1>3, ApplyTraceTables
<1>6. ASSUME IsTables(s.db), RunsAreWhole(s.db), Follows(start, s.db)
      PROVE  IsTables(r.db) /\ RunsAreWhole(r.db) /\ Follows(start, r.db)
  <2>1. CASE s.result # "ok"
    BY <1>4, <1>6, <2>1
  <2>2. CASE s.result = "ok"
    <3>1. r.db = SqlTrace(s.db, t).db
      BY <1>4, <2>2
    <3>2. IsTables(r.db) /\ RunsAreWhole(r.db) /\ Follows(s.db, r.db)
      BY <1>6, <3>1, SqlTraceKeeps
    <3>. QED BY <1>6, <3>2, FollowsOn
  <2>. QED BY <2>1, <2>2
<1>7. ASSUME Together(start, f, s), g.result = "ok", r.result = "ok"
      PROVE  Follows(g.db, r.db) /\ (Equally(f, s) => Follows(r.db, g.db))
  <2>1. /\ f.result = "ok" /\ s.result = "ok"
        /\ g = ApplyTrace(f.db, t) /\ r = SqlTrace(s.db, t)
    BY <1>3, <1>4, <1>7
  <2>2. IsTables(f.db) /\ IsTables(s.db) /\ RunsAreWhole(s.db) /\ Follows(f.db, s.db)
    BY <1>7, <2>1 DEF Together
  <2>. QED BY <1>7, <2>1, <2>2, TraceFollows DEF Equally
<1>8. Together(start, f, s) => Together(start, g, r)
  BY <1>5, <1>6, <1>7 DEF Together
<1>9. Together(start, f, s) /\ Equally(f, s) => Equally(g, r)
  BY <1>7 DEF Equally
<1>. QED BY <1>1, <1>2, <1>5, <1>6, <1>8, <1>9

\* The traces of a call, one after the other, in both.
LEMMA SaveCallTraces ==
    ASSUME NEW c \in SaveCalls
    PROVE  /\ c.traces \in Seq(AllTraces)
           /\ Len(c.traces) \in {1, 2}
<1>1. CASE c \in Calls
  BY <1>1, CallsAssumption DEF Calls
<1>2. CASE c \notin Calls
  <2>1. PICK t \in AllTraces : c = [kind |-> "trace", traces |-> <<t>>]
    BY <1>2 DEF SaveCalls
  <2>. QED BY <2>1
<1>. QED BY <1>1, <1>2

LEMMA TracedInOrder ==
    ASSUME NEW repository, NEW start, NEW c, c.traces \in Seq(AllTraces)
    PROVE  /\ Len(c.traces) = 1 =>
                 Traced(repository, start, c) = Saved(repository, Done(start), c.traces[1])
           /\ Len(c.traces) = 2 =>
                 Traced(repository, start, c)
                   = Saved(repository, Saved(repository, Done(start), c.traces[1]), c.traces[2])
<1> DEFINE first == Saved(repository, Done(start), c.traces[1])
           body(after) == [i \in 0 .. Len(c.traces) |->
                             IF i = 0 THEN Done(start)
                             ELSE Saved(repository, after[i - 1], c.traces[i])]
           after == CHOOSE g : g = body(g)
<1>1. Traced(repository, start, c) = after[Len(c.traces)]
  BY DEF Traced
<1>2. ASSUME Len(c.traces) = 1
      PROVE  after[1] = first
  <2> DEFINE g == [i \in 0 .. 1 |-> IF i = 0 THEN Done(start) ELSE first]
  <2>1. g = body(g)
    <3>1. g[0] = Done(start) /\ g[1] = first
      OBVIOUS
    <3>. QED BY <1>2, <3>1
  <2>2. after = body(after)
    BY <2>1
  <2>. HIDE DEF after
  <2>3. body(after)[0] = Done(start) /\ body(after)[1] = Saved(repository, after[0], c.traces[1])
    BY <1>2
  <2>. QED BY <2>2, <2>3
<1>3. ASSUME Len(c.traces) = 2
      PROVE  after[2] = Saved(repository, first, c.traces[2])
  <2> DEFINE second == Saved(repository, first, c.traces[2])
             g == [i \in 0 .. 2 |-> IF i = 0 THEN Done(start) ELSE IF i = 1 THEN first ELSE second]
  <2>1. g = body(g)
    <3>1. g[0] = Done(start) /\ g[1] = first /\ g[2] = second
      OBVIOUS
    <3>. QED BY <1>3, <3>1
  <2>2. after = body(after)
    BY <2>1
  <2>. HIDE DEF after
  <2>3. /\ body(after)[0] = Done(start)
        /\ body(after)[1] = Saved(repository, after[0], c.traces[1])
        /\ body(after)[2] = Saved(repository, after[1], c.traces[2])
    BY <1>3
  <2>. QED BY <2>2, <2>3
<1>. QED BY <1>1, <1>2, <1>3

\* What a call does on both sides, before the facts of a seed.
LEMMA TracedTogether ==
    ASSUME NEW f, IsTables(f), NEW d, IsTables(d), RunsAreWhole(d), NEW c \in SaveCalls
    PROVE  LET inFake == Traced("fake", f, c)
               inSql == Traced("sql", d, c)
           IN  /\ IsTables(inFake.db) /\ IsTables(inSql.db) /\ RunsAreWhole(inSql.db)
               /\ Follows(d, inSql.db)
               /\ Follows(f, d) => Together(d, inFake, inSql)
               /\ Follows(f, d) /\ Follows(d, f) => Equally(inFake, inSql)
<1>1. PICK x, y : x = Traced("fake", f, c) /\ y = Traced("sql", d, c)
  OBVIOUS
<1>2. PICK x0, y0 : x0 = Done(f) /\ y0 = Done(d)
  OBVIOUS
<1>3. /\ x0.db = f /\ y0.db = d /\ x0.result = "ok" /\ y0.result = "ok"
  BY <1>2 DEF Done
<1>4. /\ IsTables(x0.db) /\ IsTables(y0.db) /\ RunsAreWhole(y0.db)
      /\ Follows(d, y0.db)
      /\ Follows(f, d) => Together(d, x0, y0)
      /\ Follows(f, d) /\ Follows(d, f) => Equally(x0, y0)
  BY <1>3 DEF Together, Equally, Follows
<1>5. PICK x1, y1 : x1 = Saved("fake", x0, c.traces[1]) /\ y1 = Saved("sql", y0, c.traces[1])
  OBVIOUS
<1>6. c.traces[1] \in AllTraces /\ (Len(c.traces) = 2 => c.traces[2] \in AllTraces)
  BY SaveCallTraces
<1>7. /\ IsTables(x1.db) /\ IsTables(y1.db) /\ RunsAreWhole(y1.db)
      /\ Follows(d, y1.db)
      /\ Follows(f, d) => Together(d, x1, y1)
      /\ Follows(f, d) /\ Follows(d, f) => Equally(x1, y1)
  BY <1>4, <1>5, <1>6, SavedTogether
<1>8. CASE Len(c.traces) = 1
  <2>1. x = x1 /\ y = y1
    BY <1>1, <1>2, <1>5, <1>8, SaveCallTraces, TracedInOrder
  <2>. QED BY <1>1, <1>7, <2>1
<1>9. CASE Len(c.traces) = 2
  <2>1. x = Saved("fake", x1, c.traces[2]) /\ y = Saved("sql", y1, c.traces[2])
    BY <1>1, <1>2, <1>5, <1>9, SaveCallTraces, TracedInOrder
  <2>2. /\ IsTables(x.db) /\ IsTables(y.db) /\ RunsAreWhole(y.db)
        /\ Follows(d, y.db)
        /\ Follows(f, d) => Together(d, x, y)
        /\ Follows(f, d) /\ Follows(d, f) => Equally(x, y)
    BY <1>6, <1>7, <1>9, <2>1, SavedTogether
  <2>. QED BY <1>1, <2>2
<1>. QED BY <1>8, <1>9, SaveCallTraces

---------------------------------------------------------------------------
(* The facts of a seed: the fake assigns what the upserts replace.         *)

FactsAssigned(f, v, seed) ==
    /\ IsTables(v)
    /\ v.runs = f.runs
    /\ \A k \in EvidenceTables : v[k] = f[k]
    /\ v.calibrations = Replaced(f.calibrations, Range(seed.calibrations))
    /\ v.memories = Replaced(f.memories, Range(seed.memories))

LEMMA AppliedFacts ==
    ASSUME NEW f, IsTables(f), NEW seed
    PROVE  FactsAssigned(f, ApplyFacts(f, seed).db, seed)
<1>1. PICK copy : copy = [f EXCEPT !.calibrations = PutAll(@, Range(seed.calibrations)),
                                   !.memories     = PutAll(@, Range(seed.memories))]
  OBVIOUS
<1>2. PICK v : v = [copy EXCEPT !.devices =
                       {IF x.id = seed.active_device THEN [x EXCEPT !.calibration = seed.active]
                        ELSE x : x \in @}]
  OBVIOUS
<1>3. ApplyFacts(f, seed).db \in {copy, v}
  BY <1>1, <1>2 DEF ApplyFacts, Done, Failing
<1>4. DOMAIN f = TableNames
  BY DEF IsTables
<1>5. FactsAssigned(f, copy, seed)
  BY <1>1, <1>4 DEF FactsAssigned, PutAll, Replaced, IsTables, TableNames, EvidenceTables
<1>6. DOMAIN copy = TableNames
  BY <1>1, <1>4
<1>7. /\ IsTables(v)
      /\ v.runs = copy.runs
      /\ \A k \in EvidenceTables : v[k] = copy[k]
      /\ v.calibrations = copy.calibrations /\ v.memories = copy.memories
  BY <1>2, <1>6 DEF IsTables, TableNames, EvidenceTables
<1>8. FactsAssigned(f, v, seed)
  BY <1>5, <1>7 DEF FactsAssigned
<1>. QED BY <1>3, <1>5, <1>8

LEMMA ReplacedIsMonotone ==
    ASSUME NEW T, NEW U, T \subseteq U, NEW rows
    PROVE  Replaced(T, rows) \subseteq Replaced(U, rows)
  BY DEF Replaced

LEMMA FactsFollow ==
    ASSUME NEW f, NEW v, NEW d, NEW w, NEW seed, FactsAssigned(f, v, seed), FactsReplaced(d, w, seed)
    PROVE  /\ Follows(f, d) => Follows(v, w)
           /\ Follows(d, f) => Follows(w, v)
<1>1. /\ v.runs = f.runs /\ \A k \in EvidenceTables : v[k] = f[k]
      /\ w.runs = d.runs /\ \A k \in EvidenceTables : w[k] = d[k]
  BY DEF FactsAssigned, FactsReplaced
<1>2. PICK cs, ms : /\ cs = Range(seed.calibrations) /\ ms = Range(seed.memories)
                    /\ v.calibrations = Replaced(f.calibrations, cs)
                    /\ w.calibrations = Replaced(d.calibrations, cs)
                    /\ v.memories = Replaced(f.memories, ms)
                    /\ w.memories = Replaced(d.memories, ms)
  BY DEF FactsAssigned, FactsReplaced
<1>3. ASSUME Follows(f, d) PROVE Follows(v, w)
  <2>1. f.calibrations \subseteq d.calibrations /\ f.memories \subseteq d.memories
    BY <1>3 DEF Follows
  <2>2. v.calibrations \subseteq w.calibrations /\ v.memories \subseteq w.memories
    BY <1>2, <2>1, ReplacedIsMonotone
  <2>. QED BY <1>1, <1>3, <2>2 DEF Follows
<1>4. ASSUME Follows(d, f) PROVE Follows(w, v)
  <2>1. d.calibrations \subseteq f.calibrations /\ d.memories \subseteq f.memories
    BY <1>4 DEF Follows
  <2>2. w.calibrations \subseteq v.calibrations /\ w.memories \subseteq v.memories
    BY <1>2, <2>1, ReplacedIsMonotone
  <2>. QED BY <1>1, <1>4, <2>2 DEF Follows
<1>. QED BY <1>3, <1>4

\* The last transaction of a seed, or its refusal.
LEMMA SqlFactsSteps ==
    ASSUME NEW d, IsTables(d), RunsAreWhole(d), NEW seed
    PROVE  LET end == SqlFacts(d, seed)
           IN  /\ IsTables(end.db) /\ RunsAreWhole(end.db)
               /\ IF end.result = "ok" THEN FactsReplaced(d, end.db, seed) ELSE end.db = d
<1>1. CASE FactsAccepted(d, seed)
  <2>1. PICK w : w = SavedFacts(d, seed)
    OBVIOUS
  <2>2. SqlFacts(d, seed).db = w /\ SqlFacts(d, seed).result = "ok"
    BY <1>1, <2>1 DEF SqlFacts, Done
  <2>3. FactsReplaced(d, w, seed)
    BY <2>1, SavedFactsTables
  <2>4. RunsAreWhole(w)
    BY <2>3 DEF FactsReplaced, RunsAreWhole, TraceStored
  <2>. QED BY <2>2, <2>3, <2>4 DEF FactsReplaced
<1>2. CASE ~FactsAccepted(d, seed)
  <2>1. SqlFacts(d, seed).db = d /\ SqlFacts(d, seed).result # "ok"
    BY <1>2 DEF SqlFacts, Failing
  <2>. QED BY <2>1
<1>. QED BY <1>1, <1>2

---------------------------------------------------------------------------
(* A call.  The refused one of a seed leaves the fake behind: what the     *)
(* database committed before the refusal is the only difference there is.  *)

BothInv(f, d, how) ==
    /\ IsTables(f) /\ IsTables(d) /\ RunsAreWhole(d)
    /\ how # "parted" => Follows(f, d)
    /\ how = "accepted" => Follows(d, f)

LEMMA CalledTogether ==
    ASSUME NEW f, IsTables(f), NEW d, IsTables(d), RunsAreWhole(d), NEW c \in SaveCalls
    PROVE  LET inFake == FakeCall(f, c)
               inSql == SqlCall(d, c)
           IN  /\ IsTables(inFake.db) /\ IsTables(inSql.db) /\ RunsAreWhole(inSql.db)
               /\ inFake.result # "ok" => inFake.db = f
               /\ inSql.result # "ok" => Follows(d, inSql.db)
               /\ inFake.result = "ok" /\ inSql.result = "ok" /\ Follows(f, d) =>
                     /\ Follows(inFake.db, inSql.db)
                     /\ Follows(d, f) => Follows(inSql.db, inFake.db)
<1>1. PICK x, y : x = Traced("fake", f, c) /\ y = Traced("sql", d, c)
  OBVIOUS
<1>2. /\ IsTables(x.db) /\ IsTables(y.db) /\ RunsAreWhole(y.db)
      /\ Follows(d, y.db)
      /\ Follows(f, d) => Together(d, x, y)
      /\ Follows(f, d) /\ Follows(d, f) => Equally(x, y)
  BY <1>1, TracedTogether
<1>3. PICK a, b : /\ a = IF x.result = "ok" /\ c.kind = "seed" THEN ApplyFacts(x.db, c) ELSE x
                  /\ b = IF y.result = "ok" /\ c.kind = "seed" THEN SqlFacts(y.db, c) ELSE y
  OBVIOUS
<1>4. /\ FakeCall(f, c) = IF a.result = "ok" THEN a ELSE Failing(f, a.result)
      /\ SqlCall(d, c) = b
  BY <1>1, <1>3 DEF FakeCall, SqlCall
<1>5. IsTables(a.db)
  BY <1>2, <1>3, AppliedFacts DEF FactsAssigned
<1>6. /\ IsTables(b.db) /\ RunsAreWhole(b.db)
      /\ b.result # "ok" => Follows(d, b.db)
  BY <1>2, <1>3, SqlFactsSteps
<1>7. ASSUME a.result = "ok", b.result = "ok", Follows(f, d)
      PROVE  Follows(a.db, b.db) /\ (Follows(d, f) => Follows(b.db, a.db))
  <2>1. x.result = "ok" /\ y.result = "ok"
    BY <1>3, <1>7
  <2>2. Follows(x.db, y.db) /\ (Follows(d, f) => Follows(y.db, x.db))
    BY <1>2, <1>7, <2>1 DEF Together, Equally
  <2>3. CASE c.kind = "seed"
    <3>1. a.db = ApplyFacts(x.db, c).db /\ b = SqlFacts(y.db, c)
      BY <1>3, <2>1, <2>3
    <3>2. FactsAssigned(x.db, a.db, c)
      BY <1>2, <3>1, AppliedFacts
    <3>3. FactsReplaced(y.db, b.db, c)
      BY <1>2, <1>7, <3>1, SqlFactsSteps
    <3>. QED BY <2>2, <3>2, <3>3, FactsFollow
  <2>4. CASE c.kind # "seed"
    BY <1>3, <2>2, <2>4
  <2>. QED BY <2>3, <2>4
<1>8. CASE a.result = "ok"
  <2>1. FakeCall(f, c) = a
    BY <1>4, <1>8
  <2>. QED BY <1>4, <1>5, <1>6, <1>7, <1>8, <2>1
<1>9. CASE a.result # "ok"
  <2>1. FakeCall(f, c).db = f /\ FakeCall(f, c).result = a.result
    BY <1>4, <1>9 DEF Failing
  <2>. QED BY <1>4, <1>6, <1>9, <2>1
<1>. QED BY <1>8, <1>9

LEMMA BothInvInit == FakeInit => BothInv(fake, sql, sofar)
<1>1. RunsAreWhole(EmptyTables)
  BY EmptyIsTables DEF RunsAreWhole, KeysOf, TableNames
<1>. QED BY <1>1, EmptyIsTables DEF FakeInit, BothInv, Follows

LEMMA BothInvNext == BothInv(fake, sql, sofar) /\ [FakeNext]_fakeVars => BothInv(fake, sql, sofar)'
<1>. SUFFICES ASSUME BothInv(fake, sql, sofar), [FakeNext]_fakeVars
              PROVE  BothInv(fake', sql', sofar')
  OBVIOUS
<1>1. CASE UNCHANGED fakeVars
  BY <1>1 DEF fakeVars
<1>2. CASE FakeNext
  <2>1. PICK c \in SaveCalls : Save(c)
    BY <1>2 DEF FakeNext
  <2>2. PICK x, y : x = FakeCall(fake, c) /\ y = SqlCall(sql, c)
    OBVIOUS
  <2>3. /\ fake' = x.db /\ sql' = y.db
        /\ sofar' = IF x.result # y.result THEN "parted"
                    ELSE IF x.result = "ok" \/ sofar = "parted" THEN sofar
                    ELSE "refused"
    BY <2>1, <2>2 DEF Save
  <2>4. /\ IsTables(x.db) /\ IsTables(y.db) /\ RunsAreWhole(y.db)
        /\ x.result # "ok" => x.db = fake
        /\ y.result # "ok" => Follows(sql, y.db)
        /\ x.result = "ok" /\ y.result = "ok" /\ Follows(fake, sql) =>
              /\ Follows(x.db, y.db)
              /\ Follows(sql, fake) => Follows(y.db, x.db)
    BY <2>2, CalledTogether DEF BothInv
  <2>5. CASE sofar = "parted" \/ x.result # y.result
    <3>1. sofar' = "parted"
      BY <2>3, <2>5
    <3>. QED BY <2>3, <2>4, <3>1 DEF BothInv
  <2>6. CASE sofar # "parted" /\ x.result = "ok" /\ y.result = "ok"
    <3>1. sofar' = sofar
      BY <2>3, <2>6
    <3>. QED BY <2>3, <2>4, <2>6, <3>1 DEF BothInv
  <2>7. CASE sofar # "parted" /\ x.result = y.result /\ x.result # "ok"
    <3>1. sofar' = "refused"
      BY <2>3, <2>7
    <3>2. Follows(fake', sql')
      BY <2>3, <2>4, <2>7, FollowsOn DEF BothInv
    <3>. QED BY <2>3, <2>4, <3>1, <3>2 DEF BothInv
  <2>. QED BY <2>5, <2>6, <2>7
<1>. QED BY <1>1, <1>2

\* For any traces and seeds, each trace on its own included: while the fake and
\* the database ended every call of save_trace and save_hero_seed alike, the
\* fake holds no evidence the database would not, whatever was refused in
\* between; and the same evidence, if nothing was.
THEOREM FakeHasNoMoreThanTheDatabase == FakeSpec => []FakeInventsNothing
<1>1. BothInv(fake, sql, sofar) => FakeInventsNothing
  <2>. SUFFICES ASSUME BothInv(fake, sql, sofar), NEW k \in Evidence
                PROVE  /\ sofar # "parted" => fake[k] \subseteq sql[k]
                       /\ sofar = "accepted" => fake[k] = sql[k]
    BY DEF FakeInventsNothing
  <2>1. k \in EvidenceTables \cup {"runs", "calibrations", "memories"}
    BY DEF Evidence, EmptyTables, EvidenceTables
  <2>2. \A f, d : Follows(f, d) => f[k] \subseteq d[k]
    BY <2>1 DEF Follows
  <2>3. CASE sofar = "accepted"
    <3>1. Follows(fake, sql) /\ Follows(sql, fake)
      BY <2>3 DEF BothInv
    <3>. QED BY <2>2, <3>1
  <2>4. CASE sofar # "accepted"
    <3>1. sofar # "parted" => Follows(fake, sql)
      BY DEF BothInv
    <3>. QED BY <2>2, <2>4, <3>1
  <2>. QED BY <2>3, <2>4
<1>. QED BY <1>1, BothInvInit, BothInvNext, PTL DEF FakeSpec
===================================================================================
