------------------------------ MODULE TraceTables ------------------------------
(***************************************************************************)
(* What a finished simulator trace becomes in the database: the validation *)
(* and mapping of db/mapping.py (trace -> rows), the upserts of save_trace *)
(* and save_hero_seed, and the constraints of 001_init.sql on the tables   *)
(* they write.                                                             *)
(*                                                                         *)
(* A uuid5 of a run and a name is the tuple of both; one lab is modelled,  *)
(* so a device is its name.  A time is a number: base_time plus the order  *)
(* of the record, as in _record_time.  Payloads are left out, except the   *)
(* type of an action or observation, which selects the sources of a        *)
(* memory, and the agent state of a checkpoint, which a restore checks.    *)
(*                                                                         *)
(* LedgerTables models single statements of running transactions; here a   *)
(* transaction inserts rows in an order in which every foreign key points  *)
(* back, so it is accepted exactly when the tables it leaves behind        *)
(* satisfy the constraints.  The two tables that refer to themselves are   *)
(* checked row by row.                                                     *)
(***************************************************************************)
EXTENDS Naturals, Sequences, FiniteSets, Functions

CONSTANTS
    Catalog,        \* DEVICE_CATALOG: the names of the devices
    None,           \* SQL NULL, Python None
    Now             \* current_timestamp() of the server, after every base time

---------------------------------------------------------------------------
(* Traces.                                                                 *)

Orders(t) ==
    {x.order : x \in Range(t.observations) \cup Range(t.actions) \cup Range(t.outcomes)}

RecordCount(t) == Len(t.observations) + Len(t.actions) + Len(t.outcomes)

FaultyOrdersAreContiguous(t) ==
    /\ RecordCount(t) > 0
    /\ 0 \notin Orders(t)
    /\ Cardinality(Orders(t)) = RecordCount(t)
\* Positive, globally unique and contiguous from one.
OrdersAreContiguous(t) ==
    /\ RecordCount(t) > 0
    /\ Orders(t) = 1 .. RecordCount(t)

DevicesAreKnown(t) ==
    \A x \in Range(t.observations) \cup Range(t.actions) \cup Range(t.outcomes) :
        x.device \in Catalog

\* Every action has exactly one outcome, on its own device.
OutcomesAreLinked(t) ==
    /\ \A i, j \in DOMAIN t.outcomes :
          t.outcomes[i].action_order = t.outcomes[j].action_order => i = j
    /\ {o.action_order : o \in Range(t.outcomes)} = {a.order : a \in Range(t.actions)}
    /\ \A o \in Range(t.outcomes), a \in Range(t.actions) :
          o.action_order = a.order => o.device = a.device

FaultySuccessHasNoError(t) == \A o \in Range(t.outcomes) : o.success <=> ~o.error
SuccessHasNoError(t) == \A o \in Range(t.outcomes) : o.success => ~o.error

\* A device of the checkpoint that is not connected retains no resource.
CheckpointIsCoherent(c) ==
    /\ DOMAIN c = Catalog
    /\ \A d \in Catalog : c[d].connection # "connected" => ~c[d].resource

ValidTrace(t) ==
    /\ OrdersAreContiguous(t)
    /\ DevicesAreKnown(t)
    /\ OutcomesAreLinked(t)
    /\ SuccessHasNoError(t)
    /\ CheckpointIsCoherent(t.checkpoint)

---------------------------------------------------------------------------
(* map_trace.                                                              *)

ActionId(r, n)  == <<r, "action", n>>
OutcomeId(r, n) == <<r, "outcome", n>>

OutcomeOfAction(t, n) == CHOOSE o \in Range(t.outcomes) : o.action_order = n

DeviceRows(t, base) ==
    {[id |-> d, connection |-> t.checkpoint[d].connection,
      faults |-> t.checkpoint[d].faults, calibration |-> None,
      created |-> base, updated |-> base + RecordCount(t)] : d \in Catalog}

\* The persistence fingerprint hashes the whole trace with its run and base
\* time; equal hashes are taken to mean equal traces.
RunRow(t, r, base) ==
    [id |-> r, status |-> "completed", step |-> RecordCount(t),
     fingerprint |-> <<t, r, base>>]

ObservationRows(t, r, base) ==
    {[id |-> <<r, "observation", x.order>>, run |-> r, device |-> x.device,
      order |-> x.order, type |-> x.type, at |-> base + x.order]
     : x \in Range(t.observations)}

ActionRows(t, r, base) ==
    {[id |-> ActionId(r, a.order), run |-> r, device |-> a.device, order |-> a.order,
      type |-> a.type,
      status |-> IF OutcomeOfAction(t, a.order).success THEN "succeeded" ELSE "failed",
      created |-> base + a.order, executed |-> base + OutcomeOfAction(t, a.order).order]
     : a \in Range(t.actions)}

OutcomeRows(t, r, base) ==
    {[id |-> OutcomeId(r, o.order), action |-> ActionId(r, o.action_order),
      order |-> o.order, success |-> o.success, at |-> base + o.order]
     : o \in Range(t.outcomes)}

FaultyAuditTarget(t, r, n) ==
    IF \E x \in Range(t.observations) : x.order = n THEN <<r, "observation", n>>
    ELSE ActionId(r, n)
\* What an event of the timeline is about: record n of the trace.
AuditTarget(t, r, n) ==
    IF \E x \in Range(t.observations) : x.order = n THEN <<r, "observation", n>>
    ELSE IF \E a \in Range(t.actions) : a.order = n THEN ActionId(r, n)
    ELSE OutcomeId(r, n)

FaultyAuditRows(t, r, base) ==
    {[id |-> <<r, "audit", n>>, run |-> r, seq |-> n - 1, target |-> AuditTarget(t, r, n),
      at |-> base + n] : n \in 1 .. RecordCount(t)}
AuditRows(t, r, base) ==
    {[id |-> <<r, "audit", n>>, run |-> r, seq |-> n, target |-> AuditTarget(t, r, n),
      at |-> base + n] : n \in 1 .. RecordCount(t)}

LastActionId(t, r) ==
    IF t.actions = <<>> THEN None
    ELSE ActionId(r, CHOOSE n \in {a.order : a \in Range(t.actions)} :
                         \A a \in Range(t.actions) : a.order <= n)

\* The settings of physical_state are left out of its section.
AgentState(t, r) ==
    [current_step |-> RecordCount(t),
     device_states |-> t.checkpoint,
     physical_state |-> "settings",
     completed_action_ids |-> {ActionId(r, a.order) : a \in Range(t.actions)},
     pending_action_id |-> None]

CheckpointRow(t, r, base) ==
    [id |-> <<r, "checkpoint", RecordCount(t)>>, run |-> r, step |-> RecordCount(t),
     agent_state |-> AgentState(t, r), last |-> LastActionId(t, r), pending |-> None,
     at |-> base + RecordCount(t) + 1]

MapTrace(t, r, base) ==
    [devices      |-> DeviceRows(t, base),
     run          |-> RunRow(t, r, base),
     observations |-> ObservationRows(t, r, base),
     actions      |-> ActionRows(t, r, base),
     outcomes     |-> OutcomeRows(t, r, base),
     checkpoint   |-> CheckpointRow(t, r, base),
     audits       |-> AuditRows(t, r, base)]

---------------------------------------------------------------------------
(* The tables and their constraints.                                       *)

EmptyTables ==
    [devices |-> {}, runs |-> {}, observations |-> {}, actions |-> {}, outcomes |-> {},
     checkpoints |-> {}, audits |-> {}, calibrations |-> {}, memories |-> {}]

Ids(table) == {x.id : x \in table}

PrimaryKey(table) == \A x, y \in table : x.id = y.id => x = y

OncePerRun(table, column) ==
    \A x, y \in table : x.run = y.run /\ x[column] = y[column] => x = y

ObservationConstraints(d) ==
    /\ PrimaryKey(d.observations)
    /\ OncePerRun(d.observations, "order")
    /\ \A x \in d.observations : x.order > 0 /\ x.run \in Ids(d.runs) /\ x.device \in Ids(d.devices)

ActionConstraints(d) ==
    /\ PrimaryKey(d.actions)
    /\ OncePerRun(d.actions, "order")
    /\ \A x \in d.actions :
          /\ x.order > 0
          /\ x.run \in Ids(d.runs)
          /\ x.device \in Ids(d.devices)
          /\ x.executed >= x.created

OutcomeConstraints(d) ==
    /\ PrimaryKey(d.outcomes)
    /\ \A x, y \in d.outcomes : x.action = y.action => x = y
    /\ \A x \in d.outcomes : x.order > 0 /\ x.action \in Ids(d.actions)

CheckpointConstraints(d) ==
    /\ PrimaryKey(d.checkpoints)
    /\ OncePerRun(d.checkpoints, "step")
    /\ \A x \in d.checkpoints :
          x.run \in Ids(d.runs) /\ {x.last, x.pending} \ {None} \subseteq Ids(d.actions)

AuditConstraints(d) ==
    /\ PrimaryKey(d.audits)
    /\ OncePerRun(d.audits, "seq")
    /\ \A x \in d.audits : x.seq > 0 /\ x.run \in Ids(d.runs)

\* ck_devices_timestamp_order: an upsert keeps created_at, so a trace older
\* than the first one that mentioned a device is refused.
DeviceConstraints(d) ==
    /\ PrimaryKey(d.devices)
    /\ \A x \in d.devices : x.updated >= x.created

TraceConstraints(d) ==
    /\ DeviceConstraints(d)
    /\ PrimaryKey(d.runs)
    /\ ObservationConstraints(d)
    /\ ActionConstraints(d)
    /\ OutcomeConstraints(d)
    /\ CheckpointConstraints(d)
    /\ AuditConstraints(d)

---------------------------------------------------------------------------
(* save_trace.                                                             *)

\* ON CONFLICT (id) DO NOTHING.
InsertedById(table, rows) == table \cup {x \in rows : x.id \notin Ids(table)}

FaultyUpserted(stored, row) == row
\* ON CONFLICT (id) DO UPDATE: created_at stays, a NULL calibration keeps the
\* stored one.
Upserted(stored, row) ==
    [row EXCEPT !.created = stored.created,
                !.calibration = IF @ = None THEN stored.calibration ELSE @]

UpsertedDevices(table, rows) ==
    {x \in table : x.id \notin Ids(rows)}
    \cup {x \in rows : x.id \notin Ids(table)}
    \cup UNION {{Upserted(y, x) : y \in {s \in table : s.id = x.id}} : x \in rows}

RunIsStored(d, rows) == rows.run.id \in Ids(d.runs)

FaultySameEvidence(d, rows) == RunIsStored(d, rows)
SameEvidence(d, rows) ==
    \E x \in d.runs : x.id = rows.run.id /\ x.fingerprint = rows.run.fingerprint

FaultySavedTrace(d, rows) ==
    [d EXCEPT !.runs         = @ \cup {rows.run},
              !.devices      = UpsertedDevices(@, rows.devices),
              !.observations = InsertedById(@, rows.observations),
              !.actions      = InsertedById(@, rows.actions),
              !.outcomes     = InsertedById(@, rows.outcomes),
              !.audits       = InsertedById(@, rows.audits)]
SavedTrace(d, rows) ==
    [d EXCEPT !.runs         = @ \cup {rows.run},
              !.devices      = UpsertedDevices(@, rows.devices),
              !.observations = InsertedById(@, rows.observations),
              !.actions      = InsertedById(@, rows.actions),
              !.outcomes     = InsertedById(@, rows.outcomes),
              !.checkpoints  = InsertedById(@, {rows.checkpoint}),
              !.audits       = InsertedById(@, rows.audits)]

---------------------------------------------------------------------------
(* Evidence and its reader.                                                *)

\* The tables a trace is evidence in, and its rows there.
EvidenceTables == {"observations", "actions", "outcomes", "checkpoints", "audits"}

EvidenceRows(rows, k) == IF k = "checkpoints" THEN {rows.checkpoint} ELSE rows[k]

\* Rows name their run, or the action they conclude.
OwnRows(t) ==
    /\ \A k \in EvidenceTables \ {"outcomes"} : \A x \in EvidenceRows(t, k) : x.run = t.run.id
    /\ \A o \in t.outcomes : o.action \in Ids(t.actions)

\* The id of every row is derived from the id of its run.
OwnIds(t, u) ==
    \A k \in EvidenceTables : Ids(EvidenceRows(t, k)) \cap Ids(EvidenceRows(u, k)) = {}

DeviceColumns == {"id", "connection", "faults", "calibration", "created", "updated"}

\* One row for each device, without its active calibration: only a seed sets it.
NewDevices(t) ==
    /\ PrimaryKey(t.devices)
    /\ \A x \in t.devices : DOMAIN x = DeviceColumns /\ x.calibration = None

\* The sections of the agent state that process B looks for.
RestoredSections == {"device_states", "completed_action_ids", "physical_state"}

\* The checks of process B of the gate, on what load_run_restore gives it:
\* the run, its newest checkpoint with the agent state, the counts and the
\* timeline.  It expects a run that ended well: the oscilloscope connected and
\* without an active fault.  NULL is no completed action.
ReaderAccepts(d, rows) ==
    LET r == rows.run.id
        n == rows.run.step
        checkpoints == {k \in d.checkpoints : k.run = r}
        newest == CHOOSE k \in checkpoints : \A j \in checkpoints : j.step <= k.step
        actions == {a \in d.actions : a.run = r}
        outcomes == {o \in d.outcomes : o.action \in Ids(actions)}
        timeline == {e \in d.audits : e.run = r}
        state == newest.agent_state
        scope == state.device_states["scope_01"]
    IN /\ \E x \in d.runs : x.id = r /\ x.step = n /\ x.status = "completed"
       /\ checkpoints # {}
       /\ newest.step = n /\ state.current_step = n
       /\ RestoredSections \subseteq DOMAIN state
       /\ newest.last \in state.completed_action_ids
       /\ newest.pending = None /\ state.pending_action_id = None
       /\ scope.connection = "connected" /\ scope.faults = {}
       /\ Cardinality(actions) = Cardinality(rows.actions)
       /\ Cardinality(outcomes) = Cardinality(rows.outcomes)
       /\ {e.seq : e \in timeline} = 1 .. n
       /\ \E e \in timeline, o \in outcomes : e.target = o.id /\ ~o.success

---------------------------------------------------------------------------
(* The last transaction of save_hero_seed.                                 *)

Superseding(rows) == SelectSeq(rows, LAMBDA x : x.superseded_by = None)
Superseded(rows)  == SelectSeq(rows, LAMBDA x : x.superseded_by # None)

FaultyInSavingOrder(rows) == rows
\* sorted(memories, key = superseded_by is not None) is stable.
InSavingOrder(rows) == Superseding(rows) \o Superseded(rows)

\* The foreign key superseded_by, checked at each INSERT.
ReferencesPointBack(table, rows) ==
    \A i \in DOMAIN rows :
        \/ rows[i].superseded_by = None
        \/ rows[i].superseded_by \in Ids(table) \cup {rows[j].id : j \in 1 .. i - 1}

\* ON CONFLICT (id) DO UPDATE.  The columns it does not set (run, device and
\* sources of a memory, device and version of a calibration) are the same for
\* the same id in every seed build_hero_seed makes.
Replaced(table, rows) == {x \in table : x.id \notin Ids(rows)} \cup rows

CalibrationConstraints(d) ==
    /\ \A x, y \in d.calibrations : x.device = y.device /\ x.version = y.version => x = y
    /\ \A x \in d.calibrations :
          /\ x.device \in Ids(d.devices)
          /\ x.superseded_by # x.id
          /\ x.until # None => x.until > x.from

MemoryConstraints(d) ==
    \A x \in d.memories :
        /\ x.run \in Ids(d.runs) \cup {None}
        /\ x.device \in Ids(d.devices)
        /\ x.observation \in Ids(d.observations) \cup {None}
        /\ x.action \in Ids(d.actions) \cup {None}
        /\ x.outcome \in Ids(d.outcomes) \cup {None}
        /\ x.superseded_by # x.id
        /\ x.until # None => x.until > x.from

FaultySavedFacts(d, seed) ==
    [d EXCEPT !.calibrations = Replaced(@, Range(seed.calibrations)),
              !.memories     = Replaced(@, Range(seed.memories))]
\* Calibrations, memories and the pointer to the active calibration.
SavedFacts(d, seed) ==
    [d EXCEPT !.calibrations = Replaced(@, Range(seed.calibrations)),
              !.memories     = Replaced(@, Range(seed.memories)),
              !.devices      = {IF x.id = seed.active_device
                                THEN [x EXCEPT !.calibration = seed.active, !.updated = Now]
                                ELSE x : x \in @}]

\* The SELECT before the UPDATE: no foreign key guards the pointer.
ActiveBelongs(d, seed) ==
    \E c \in d.calibrations :
        c.id = seed.active /\ c.device = seed.active_device /\ c.status = "active"

FactsAccepted(d, seed) ==
    LET saved == SavedFacts(d, seed)
    IN /\ ReferencesPointBack(d.calibrations, seed.calibrations)
       /\ ReferencesPointBack(d.memories, InSavingOrder(seed.memories))
       /\ CalibrationConstraints(saved)
       /\ MemoryConstraints(saved)
       /\ DeviceConstraints(saved)
       /\ ActiveBelongs(saved, seed)
       /\ seed.active_device \in Ids(d.devices)
================================================================================
