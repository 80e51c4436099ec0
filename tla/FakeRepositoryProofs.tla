-------------------------- MODULE FakeRepositoryProofs --------------------------
(***************************************************************************)
(* Proofs about FakeRepository for any identifiers, calls, seeded devices  *)
(* and failures: the fake and the tables of the SQL repository hold the    *)
(* same rows until a constraint the fake does not have parts them.         *)
(*                                                                         *)
(* What a call makes of the tables is proved in StructuredMemoryProofs of  *)
(* any database; here it is taken from there for the tables beside the     *)
(* fake, which no process but the one of FakeRepository uses.              *)
(***************************************************************************)
EXTENDS FakeRepository, TLAPS

Repository == INSTANCE StructuredMemoryProofs
    WITH Procs <- {}, MaxAttempts <- 1, db <- sql, pc <- <<>>, call <- <<>>, attempt <- <<>>,
         snap <- <<>>, work <- <<>>, loaded <- <<>>, result <- <<>>, applied <- <<>>, acks <- <<>>

---------------------------------------------------------------------------
(* The definitions the two repositories share.                             *)

LEMMA SharedTypes ==
    /\ Repository!Database = Database
    /\ Repository!EmptyDatabase = EmptyDatabase
    /\ Repository!OpenStatus = OpenStatus /\ Repository!TerminalStatus = TerminalStatus
    /\ Repository!RunStatus = RunStatus
    /\ Repository!DeviceRow = DeviceRow /\ Repository!RunRow = RunRow
    /\ Repository!ActionRow = ActionRow /\ Repository!OutcomeRow = OutcomeRow
    /\ Repository!CheckpointRow = CheckpointRow /\ Repository!AuditRow = AuditRow
    /\ Repository!StagedAction = StagedAction /\ Repository!ActionStepCommit = ActionStepCommit
<1>1. /\ Repository!OpenStatus = OpenStatus /\ Repository!TerminalStatus = TerminalStatus
      /\ Repository!RunStatus = RunStatus /\ Repository!ConnectionState = ConnectionState
      /\ Repository!AgentState = AgentState
  BY DEF Repository!OpenStatus, OpenStatus, Repository!TerminalStatus, TerminalStatus,
         Repository!RunStatus, RunStatus, Repository!ConnectionState, ConnectionState,
         Repository!AgentState, AgentState
<1>2. /\ Repository!DeviceRow = DeviceRow /\ Repository!RunRow = RunRow
      /\ Repository!ActionRow = ActionRow /\ Repository!OutcomeRow = OutcomeRow
      /\ Repository!CheckpointRow = CheckpointRow /\ Repository!AuditRow = AuditRow
  BY <1>1 DEF Repository!DeviceRow, DeviceRow, Repository!RunRow, RunRow,
         Repository!ActionRow, ActionRow, Repository!OutcomeRow, OutcomeRow,
         Repository!CheckpointRow, CheckpointRow, Repository!AuditRow, AuditRow
<1>3. Repository!StagedAction = StagedAction /\ Repository!ActionStepCommit = ActionStepCommit
  BY <1>1, <1>2 DEF Repository!StagedAction, StagedAction, Repository!ActionStepCommit,
         ActionStepCommit
<1> QED BY <1>1, <1>2, <1>3
        DEF Repository!Database, Database, Repository!EmptyDatabase, EmptyDatabase

\* What StructuredMemoryProofs assumes.
LEMMA SharedAssumptions ==
    /\ SeededDevices \subseteq Repository!DeviceRow
    /\ 1 \in Nat \ {0}
    /\ Actions \cap Outcomes = {}
    /\ \A c \in StageCalls : c.action.status \in Repository!OpenStatus
    /\ StageCalls \subseteq Repository!StagedAction
    /\ CommitCalls \subseteq Repository!ActionStepCommit
    /\ None \notin Actions \cup Calibrations
  BY SharedTypes, SeededDevicesAssumption, DistinctTargetsAssumption, StagedOpenAssumption,
     CallsAssumption, NoneAssumption

LEMMA SharedStatements ==
    ASSUME NEW d, NEW c
    PROVE  /\ Repository!SqlStaged(d, c) = SqlStaged(d, c)
           /\ Repository!SqlCommitted(d, c) = SqlCommitted(d, c)
           /\ Repository!ValidStaged(c) <=> ValidStaged(c)
           /\ Repository!ValidCommit(c) <=> ValidCommit(c)
<1>1. Repository!OpenStatus = OpenStatus
  BY DEF Repository!OpenStatus, OpenStatus
<1>2. Repository!SqlStaged(d, c) = SqlStaged(d, c)
  BY DEF Repository!SqlStaged, SqlStaged, Repository!Accepted, Accepted, Repository!Refused, Refused,
     Repository!UpsertDevices, UpsertDevices, Repository!UpsertedDevice, UpsertedDevice,
     Repository!Coalesced, Coalesced, Repository!InsertRun, InsertRun,
     Repository!InsertRunOk, InsertRunOk, Repository!InsertAction, InsertAction,
     Repository!InsertActionOk, InsertActionOk, Repository!InsertCheckpoint, InsertCheckpoint,
     Repository!InsertCheckpointOk, InsertCheckpointOk, Repository!RefersToAction, RefersToAction,
     Repository!InsertAudit, InsertAudit, Repository!InsertAuditOk, InsertAuditOk
<1>3. Repository!SqlCommitted(d, c) = SqlCommitted(d, c)
  BY DEF Repository!SqlCommitted, SqlCommitted, Repository!Accepted, Accepted,
     Repository!Refused, Refused, Repository!UpdateActionOk, UpdateActionOk,
     Repository!UpdateAction, UpdateAction, Repository!ActionIsOpen, ActionIsOpen,
     Repository!OpenStatus, OpenStatus, Repository!InsertOutcome, InsertOutcome,
     Repository!InsertOutcomeOk, InsertOutcomeOk, Repository!UpdateRun, UpdateRun,
     Repository!UpdateRunOk, UpdateRunOk, Repository!RunIsAtExpectedStep, RunIsAtExpectedStep,
     Repository!InsertCheckpoint, InsertCheckpoint, Repository!InsertCheckpointOk, InsertCheckpointOk,
     Repository!RefersToAction, RefersToAction, Repository!InsertAudit, InsertAudit,
     Repository!InsertAuditOk, InsertAuditOk
<1>4. Repository!ValidStaged(c) <=> ValidStaged(c)
  BY DEF Repository!ValidStaged, ValidStaged, Repository!StagedActionMatches, StagedActionMatches,
     Repository!StagedCheckpointMatches, StagedCheckpointMatches,
     Repository!StagedAuditMatches, StagedAuditMatches
<1>5. Repository!ValidCommit(c) <=> ValidCommit(c)
  BY DEF Repository!ValidCommit, ValidCommit, Repository!StepAdvances, StepAdvances,
     Repository!OutcomeMatches, OutcomeMatches, Repository!StatusMatchesVerdict, StatusMatchesVerdict,
     Repository!CheckpointMatches, CheckpointMatches, Repository!AgentStateMatches, AgentStateMatches,
     Repository!AuditMatches, AuditMatches
<1> QED BY <1>2, <1>3, <1>4, <1>5

\* The rows of a database agree (StructuredMemoryProofs).
RowsInv(d) == Repository!RowsInv(d)

LEMMA SeededRows ==
    /\ [EmptyDatabase EXCEPT !.devices = SeededDevices] \in Database
    /\ RowsInv([EmptyDatabase EXCEPT !.devices = SeededDevices])
  BY SharedTypes, SharedAssumptions, Repository!SeededRowsInv DEF RowsInv

LEMMA StagedRowsAgree ==
    ASSUME NEW d \in Database, RowsInv(d), NEW c \in StageCalls, ValidStaged(c),
           SqlStaged(d, c).result = "ok"
    PROVE  SqlStaged(d, c).db \in Database /\ RowsInv(SqlStaged(d, c).db)
  BY SharedTypes, SharedAssumptions, SharedStatements, Repository!SqlStagedKeepsRows DEF RowsInv

LEMMA CommittedRowsAgree ==
    ASSUME NEW d \in Database, RowsInv(d), NEW c \in CommitCalls, ValidCommit(c),
           SqlCommitted(d, c).result = "ok"
    PROVE  SqlCommitted(d, c).db \in Database /\ RowsInv(SqlCommitted(d, c).db)
  BY SharedTypes, SharedAssumptions, SharedStatements, Repository!SqlCommittedKeepsRows DEF RowsInv

---------------------------------------------------------------------------
(* What the fake restores from rows that agree.                            *)

LEMMA SharedSelects ==
    ASSUME NEW d, NEW r
    PROVE  /\ Repository!RunsOf(d, r) = RunsOf(d, r)
           /\ Repository!LatestCheckpoints(d, r) = LatestCheckpoints(d, r)
           /\ Repository!Reading(d, r) =
                [run |-> RunsOf(d, r), checkpoint |-> LatestCheckpoints(d, r),
                 actions |-> ActionsOf(d, r), outcomes |-> OutcomesOf(d, r),
                 timeline |-> TimelineOf(d, r)]
  BY DEF Repository!RunsOf, RunsOf, Repository!LatestCheckpoints, LatestCheckpoints,
         Repository!Reading, Repository!ActionsOf, ActionsOf, Repository!OutcomesOf, OutcomesOf,
         Repository!TimelineOf, TimelineOf

LEMMA SharedCardinality == ASSUME NEW S PROVE Repository!Cardinality(S) = Cardinality(S)
  BY DEF Repository!Cardinality, Cardinality, Repository!IsFiniteSet, IsFiniteSet

\* Identifiers of runs are keys, and each run has a latest checkpoint.
LEMMA RowsAreFound ==
    ASSUME NEW d \in Database, RowsInv(d)
    PROVE  /\ \A x, y \in d.runs : x.id = y.id => x = y
           /\ \A x \in d.runs : LatestCheckpoints(d, x.id) # {}
<1>1. Repository!Keys(d) /\ Repository!ProgressAgrees(d)
  BY DEF RowsInv, Repository!RowsInv, Repository!DatabaseInv
<1>2. \A x, y \in d.runs : x.id = y.id => x = y
  BY <1>1 DEF Repository!Keys
<1>3. \A x \in d.runs : \E k : k \in Repository!LatestCheckpoints(d, x.id)
  BY <1>1 DEF Repository!ProgressAgrees
<1>4. \A x \in d.runs : \E k : k \in LatestCheckpoints(d, x.id)
  BY <1>3, SharedSelects
<1> QED BY <1>2, <1>4

\* One run in a restore: step, pending action, counts and timeline agree.
TellsOf(d, r) ==
    LET x == LoadRunRestore(d, r)
    IN /\ x.run.step = x.checkpoint.step
       /\ x.action_count = x.outcome_count + (IF x.checkpoint.pending = None THEN 0 ELSE 1)
       /\ Cardinality(x.timeline) = x.action_count + x.outcome_count

\* uq_checkpoints_run_step.
CheckpointKeys(d) == \A k, j \in d.checkpoints : k.run = j.run /\ k.step = j.step => k = j

\* The checkpoint the fake restores is the latest one.
LEMMA NewestIsLatest ==
    ASSUME NEW d \in Database, CheckpointKeys(d), NEW r, NEW k \in LatestCheckpoints(d, r)
    PROVE  NewestCheckpoint(d, r) = k
<1>1. PICK n : n = NewestCheckpoint(d, r)
  OBVIOUS
<1>2. n \in d.checkpoints /\ n.run = r /\ \A j \in d.checkpoints : j.run = r => j.step <= n.step
  BY <1>1 DEF NewestCheckpoint, LatestCheckpoints
<1>3. k \in d.checkpoints /\ k.run = r /\ \A j \in d.checkpoints : j.run = r => j.step <= k.step
  BY DEF LatestCheckpoints
<1>4. n.step \in Nat /\ k.step \in Nat
  BY <1>2, <1>3 DEF Database, CheckpointRow
<1>5. n.step = k.step
  BY <1>2, <1>3, <1>4
<1> QED BY <1>1, <1>2, <1>3, <1>5 DEF CheckpointKeys

LEMMA RowsAreRestored ==
    ASSUME NEW d \in Database, RowsInv(d), CheckpointKeys(d), NEW r \in Runs, CanRestore(d, r)
    PROVE  TellsOf(d, r)
<1>1. PICK x \in d.runs : x.id = r
  BY DEF CanRestore
<1>2. RunsOf(d, r) = {x} /\ (CHOOSE y \in d.runs : y.id = r) = x
  BY <1>1, RowsAreFound DEF RunsOf
<1>3. LatestCheckpoints(d, r) # {}
  BY <1>1, RowsAreFound
<1>4. Repository!OneStory(Repository!Reading(d, r))
  <2>1. d \in Repository!Database
    BY SharedTypes
  <2>2. Repository!RunsOf(d, r) # {} /\ Repository!LatestCheckpoints(d, r) # {}
    BY <1>2, <1>3, SharedSelects
  <2> QED BY <2>1, <2>2, SharedAssumptions, Repository!ReadingTellsOneStory DEF RowsInv
<1>5. PICK k \in LatestCheckpoints(d, r) :
         /\ x.step = k.step
         /\ Cardinality(ActionsOf(d, r))
              = Cardinality(OutcomesOf(d, r)) + (IF k.pending = None THEN 0 ELSE 1)
         /\ Cardinality(TimelineOf(d, r))
              = Cardinality(ActionsOf(d, r)) + Cardinality(OutcomesOf(d, r))
  <2>1. PICK l : l = Repository!Reading(d, r)
    OBVIOUS
  <2>2. /\ l.run = {x} /\ l.checkpoint = LatestCheckpoints(d, r)
        /\ l.actions = ActionsOf(d, r) /\ l.outcomes = OutcomesOf(d, r)
        /\ l.timeline = TimelineOf(d, r)
    BY <1>2, <2>1, SharedSelects
  <2> QED BY <1>4, <2>1, <2>2, SharedCardinality DEF Repository!OneStory
<1>6. NewestCheckpoint(d, r) = k
  BY <1>5, NewestIsLatest
<1>7. LoadRunRestore(d, r)
        = [run |-> x, checkpoint |-> k, timeline |-> TimelineOf(d, r),
           action_count |-> Cardinality(ActionsOf(d, r)),
           outcome_count |-> Cardinality(OutcomesOf(d, r))]
  <2>1. {o \in d.outcomes : \E a \in d.actions : a.run = r /\ a.id = o.action} = OutcomesOf(d, r)
    BY DEF OutcomesOf, ActionsOf
  <2> QED BY <1>2, <1>6, <2>1 DEF LoadRunRestore, OutcomeCount, TimelineOf, ActionsOf
<1> QED BY <1>5, <1>7 DEF TellsOf

---------------------------------------------------------------------------
(* Staging in both.                                                        *)

\* A device row without its calibration.
Strip(x) == [x EXCEPT !.calibration = None]

Bare(rows) == {Strip(x) : x \in rows}

\* d and e hold the same rows but for the calibrations of devices.
Alike(d, e) ==
    /\ Bare(d.devices) = Bare(e.devices)
    /\ d.runs = e.runs
    /\ d.actions = e.actions
    /\ d.outcomes = e.outcomes
    /\ d.checkpoints = e.checkpoints
    /\ d.audits = e.audits

LEMMA AlikeIsSame ==
    ASSUME NEW d \in Database, NEW e \in Database, Alike(d, e)
    PROVE  WithoutCalibration(d) = WithoutCalibration(e)
  BY DEF Alike, Bare, Strip, WithoutCalibration, Database

LEMMA BareOfUnion ==
    ASSUME NEW A, NEW B
    PROVE  Bare(A \cup B) = Bare(A) \cup Bare(B)
  BY DEF Bare

\* The rows whose key is not one of the keys in rows.
Others(S, rows) == {x \in S : \A row \in rows : x.id # row.id}

LEMMA OthersStripped ==
    ASSUME NEW S \in SUBSET DeviceRow, NEW rows
    PROVE  Bare(Others(S, rows)) = Others(Bare(S), rows)
<1>1. \A x \in S : Strip(x).id = x.id
  BY DEF DeviceRow, Strip
<1>2. \A y \in Bare(Others(S, rows)) : y \in Others(Bare(S), rows)
  BY <1>1 DEF Bare, Others
<1>3. \A y \in Others(Bare(S), rows) : y \in Bare(Others(S, rows))
  <2>. SUFFICES ASSUME NEW y \in Others(Bare(S), rows) PROVE y \in Bare(Others(S, rows))
    OBVIOUS
  <2>1. PICK x \in S : y = Strip(x)
    BY DEF Bare, Others
  <2>2. \A row \in rows : y.id # row.id
    BY DEF Others
  <2>3. x \in Others(S, rows)
    BY <1>1, <2>1, <2>2 DEF Others
  <2>. QED BY <2>1, <2>3 DEF Bare
<1>. QED BY <1>2, <1>3

\* Stripped of calibrations, an upserted row is the excluded row.
LEMMA UpsertedStripped ==
    ASSUME NEW e, NEW row \in DeviceRow
    PROVE  Bare(UpsertedDevice(e, row)) = {Strip(row)}
<1>1. CASE ~ \E x \in e.devices : x.id = row.id
  BY <1>1 DEF UpsertedDevice, Bare
<1>2. CASE \E x \in e.devices : x.id = row.id
  <2>1. UpsertedDevice(e, row) = Coalesced(e, row)
    BY <1>2 DEF UpsertedDevice
  <2>2. \A v : Strip([row EXCEPT !.calibration = v]) = Strip(row)
    BY DEF DeviceRow, Strip
  <2>3. CASE row.calibration # None
    BY <2>1, <2>3 DEF Coalesced, Bare
  <2>4. CASE row.calibration = None
    <3>1. UpsertedDevice(e, row)
            = {[row EXCEPT !.calibration = x.calibration] : x \in {y \in e.devices : y.id = row.id}}
      BY <2>1, <2>4 DEF Coalesced
    <3>2. \A z \in UpsertedDevice(e, row) : Strip(z) = Strip(row)
      BY <2>2, <3>1
    <3>3. UpsertedDevice(e, row) # {}
      BY <1>2, <3>1
    <3>. QED BY <3>2, <3>3 DEF Bare
  <2>. QED BY <2>3, <2>4
<1>. QED BY <1>1, <1>2

\* The COALESCE of the upsert is all that tells it from an assignment.
LEMMA UpsertIsPut ==
    ASSUME NEW d \in Database, NEW e \in Database, Bare(d.devices) = Bare(e.devices),
           NEW rows \in SUBSET DeviceRow
    PROVE  Bare(PutAll(d.devices, rows)) = Bare(UpsertDevices(e, rows).devices)
<1>1. PICK U : U = UNION {UpsertedDevice(e, row) : row \in rows}
  OBVIOUS
<1>2. Bare(U) = Bare(rows)
  <2>1. \A y \in Bare(U) : y \in Bare(rows)
    <3>. SUFFICES ASSUME NEW x \in U PROVE Strip(x) \in Bare(rows)
      BY DEF Bare
    <3>1. PICK row \in rows : x \in UpsertedDevice(e, row)
      BY <1>1
    <3>2. Strip(x) \in Bare(UpsertedDevice(e, row))
      BY <3>1 DEF Bare
    <3>3. Strip(x) = Strip(row)
      BY <3>2, UpsertedStripped
    <3>. QED BY <3>3 DEF Bare
  <2>2. \A y \in Bare(rows) : y \in Bare(U)
    <3>. SUFFICES ASSUME NEW row \in rows PROVE Strip(row) \in Bare(U)
      BY DEF Bare
    <3>1. Strip(row) \in Bare(UpsertedDevice(e, row))
      BY UpsertedStripped
    <3>2. UpsertedDevice(e, row) \subseteq U
      BY <1>1
    <3>. QED BY <3>1, <3>2 DEF Bare
  <2>. QED BY <2>1, <2>2
<1>3. d.devices \in SUBSET DeviceRow /\ e.devices \in SUBSET DeviceRow
  BY DEF Database
<1>4. Bare(Others(d.devices, rows)) = Bare(Others(e.devices, rows))
  <2>1. Bare(Others(d.devices, rows)) = Others(Bare(d.devices), rows)
    BY <1>3, OthersStripped
  <2>2. Bare(Others(e.devices, rows)) = Others(Bare(e.devices), rows)
    BY <1>3, OthersStripped
  <2>. QED BY <2>1, <2>2
<1>5. PutAll(d.devices, rows) = Others(d.devices, rows) \cup rows
  BY DEF PutAll, Others
<1>6. UpsertDevices(e, rows).devices = Others(e.devices, rows) \cup U
  BY <1>1 DEF UpsertDevices, Others, Database
<1>7. Bare(Others(d.devices, rows) \cup rows) = Bare(Others(d.devices, rows)) \cup Bare(rows)
  BY BareOfUnion
<1>8. Bare(Others(e.devices, rows) \cup U) = Bare(Others(e.devices, rows)) \cup Bare(U)
  BY BareOfUnion
<1>. QED BY <1>2, <1>4, <1>5, <1>6, <1>7, <1>8

\* What an accepted staging makes of the tables, and the keys that were free.
LEMMA SqlStagedRows ==
    ASSUME NEW e \in Database, NEW c \in StagedAction, SqlStaged(e, c).result = "ok"
    PROVE  LET w == SqlStaged(e, c).db
           IN  /\ w.devices = UpsertDevices(e, c.devices).devices
               /\ w.runs = e.runs \cup {c.run} /\ \A x \in e.runs : x.id # c.run.id
               /\ w.actions = e.actions \cup {c.action} /\ \A x \in e.actions : x.id # c.action.id
               /\ w.outcomes = e.outcomes
               /\ w.checkpoints = e.checkpoints \cup {c.checkpoint}
               /\ \A x \in e.checkpoints : /\ x.id # c.checkpoint.id
                                           /\ x.run = c.checkpoint.run => x.step # c.checkpoint.step
               /\ w.audits = e.audits \cup {c.audit} /\ \A x \in e.audits : x.id # c.audit.id
<1> DEFINE u == UpsertDevices(e, c.devices)
           r == InsertRun(u, c.run)
           a == InsertAction(r, c.action)
           k == InsertCheckpoint(a, c.checkpoint)
           w == InsertAudit(k, c.audit)
<1>1. /\ InsertRunOk(u, c.run) /\ InsertActionOk(r, c.action)
      /\ InsertCheckpointOk(a, c.checkpoint) /\ InsertAuditOk(k, c.audit)
      /\ SqlStaged(e, c).db = w
  BY DEF SqlStaged, Accepted, Refused
<1>2. /\ DOMAIN u = {"devices", "runs", "actions", "outcomes", "checkpoints", "audits"}
      /\ u = [u EXCEPT !.runs = u.runs]
      /\ u.runs = e.runs /\ u.actions = e.actions /\ u.outcomes = e.outcomes
      /\ u.checkpoints = e.checkpoints /\ u.audits = e.audits
  BY DEF UpsertDevices, Database
<1> HIDE DEF u
<1>3. /\ DOMAIN r = DOMAIN u /\ r.devices = u.devices /\ r.runs = e.runs \cup {c.run}
      /\ r.actions = e.actions /\ r.outcomes = e.outcomes
      /\ r.checkpoints = e.checkpoints /\ r.audits = e.audits
  BY <1>2 DEF InsertRun
<1> HIDE DEF r
<1>4. /\ DOMAIN a = DOMAIN u /\ a.devices = u.devices /\ a.runs = e.runs \cup {c.run}
      /\ a.actions = e.actions \cup {c.action} /\ a.outcomes = e.outcomes
      /\ a.checkpoints = e.checkpoints /\ a.audits = e.audits
  BY <1>2, <1>3 DEF InsertAction
<1> HIDE DEF a
<1>5. /\ DOMAIN k = DOMAIN u /\ k.devices = u.devices /\ k.runs = e.runs \cup {c.run}
      /\ k.actions = e.actions \cup {c.action} /\ k.outcomes = e.outcomes
      /\ k.checkpoints = e.checkpoints \cup {c.checkpoint} /\ k.audits = e.audits
  BY <1>2, <1>4 DEF InsertCheckpoint
<1> HIDE DEF k
<1>6. /\ w.devices = u.devices /\ w.runs = e.runs \cup {c.run}
      /\ w.actions = e.actions \cup {c.action} /\ w.outcomes = e.outcomes
      /\ w.checkpoints = e.checkpoints \cup {c.checkpoint} /\ w.audits = e.audits \cup {c.audit}
  BY <1>2, <1>5 DEF InsertAudit
<1> HIDE DEF w
<1>7. \A x \in e.runs : x.id # c.run.id
  BY <1>1, <1>2 DEF InsertRunOk
<1>8. \A x \in e.actions : x.id # c.action.id
  BY <1>1, <1>3 DEF InsertActionOk
<1>9. \A x \in e.checkpoints : /\ x.id # c.checkpoint.id
                               /\ x.run = c.checkpoint.run => x.step # c.checkpoint.step
  BY <1>1, <1>4 DEF InsertCheckpointOk
<1>10. \A x \in e.audits : x.id # c.audit.id
  BY <1>1, <1>5 DEF InsertAuditOk
<1> QED BY <1>1, <1>6, <1>7, <1>8, <1>9, <1>10 DEF u

\* Assigning a row with a free key adds it.
LEMMA PutIsInsert ==
    ASSUME NEW table, NEW row, \A x \in table : x.id # row.id
    PROVE  Put(table, row) = table \cup {row}
  BY DEF Put

LEMMA StagedAlike ==
    ASSUME NEW d \in Database, NEW e \in Database, Alike(d, e), NEW c \in StagedAction,
           SqlStaged(e, c).result = "ok"
    PROVE  Alike(Staged(d, c), SqlStaged(e, c).db)
<1>1. PICK w : w = SqlStaged(e, c).db
  OBVIOUS
<1>2. /\ w.devices = UpsertDevices(e, c.devices).devices
      /\ w.runs = e.runs \cup {c.run} /\ \A x \in e.runs : x.id # c.run.id
      /\ w.actions = e.actions \cup {c.action} /\ \A x \in e.actions : x.id # c.action.id
      /\ w.outcomes = e.outcomes
      /\ w.checkpoints = e.checkpoints \cup {c.checkpoint}
      /\ \A x \in e.checkpoints : x.id # c.checkpoint.id
      /\ w.audits = e.audits \cup {c.audit} /\ \A x \in e.audits : x.id # c.audit.id
  BY <1>1, SqlStagedRows
<1>3. Bare(PutAll(d.devices, c.devices)) = Bare(w.devices)
  BY <1>2, UpsertIsPut DEF Alike, StagedAction
<1>4. /\ Put(d.runs, c.run) = w.runs /\ Put(d.actions, c.action) = w.actions
      /\ Put(d.checkpoints, c.checkpoint) = w.checkpoints /\ Put(d.audits, c.audit) = w.audits
  BY <1>2, PutIsInsert DEF Alike
<1> QED BY <1>1, <1>2, <1>3, <1>4 DEF Alike, Staged

LEMMA StagedType ==
    ASSUME NEW d \in Database, NEW c \in StagedAction
    PROVE  Staged(d, c) \in Database
  BY DEF Staged, Put, PutAll, Database, StagedAction

---------------------------------------------------------------------------
(* Committing in both.                                                     *)

\* The tables the two guarded UPDATEs leave.
ActionsUpdated(actions, c) ==
    {IF ActionIsOpen(x, c) THEN [x EXCEPT !.status = c.action_status] ELSE x : x \in actions}

RunsUpdated(runs, c) ==
    {IF RunIsAtExpectedStep(x, c)
     THEN [x EXCEPT !.status = c.run_status, !.step = c.next] ELSE x : x \in runs}

\* A database given by its tables.
Tables(devices, runs, actions, outcomes, checkpoints, audits) ==
    [devices |-> devices, runs |-> runs, actions |-> actions, outcomes |-> outcomes,
     checkpoints |-> checkpoints, audits |-> audits]

LEMMA DatabaseIsTables ==
    ASSUME NEW d \in Database
    PROVE  d = Tables(d.devices, d.runs, d.actions, d.outcomes, d.checkpoints, d.audits)
  BY DEF Database, Tables

LEMMA UpdateActionTables ==
    ASSUME NEW v, NEW r, NEW a, NEW o, NEW k, NEW e, NEW c
    PROVE  UpdateAction(Tables(v, r, a, o, k, e), c) = Tables(v, r, ActionsUpdated(a, c), o, k, e)
<1>1. PICK d : d = Tables(v, r, a, o, k, e)
  OBVIOUS
<1>2. UpdateAction(d, c) = [d EXCEPT !.actions = ActionsUpdated(d.actions, c)]
  BY DEF UpdateAction, ActionsUpdated
<1>3. d.actions = a
  BY <1>1 DEF Tables
<1>4. [d EXCEPT !.actions = ActionsUpdated(a, c)] = Tables(v, r, ActionsUpdated(a, c), o, k, e)
  BY <1>1 DEF Tables
<1>. QED BY <1>1, <1>2, <1>3, <1>4

LEMMA UpdateRunTables ==
    ASSUME NEW v, NEW r, NEW a, NEW o, NEW k, NEW e, NEW c
    PROVE  UpdateRun(Tables(v, r, a, o, k, e), c) = Tables(v, RunsUpdated(r, c), a, o, k, e)
<1>1. PICK d : d = Tables(v, r, a, o, k, e)
  OBVIOUS
<1>2. UpdateRun(d, c) = [d EXCEPT !.runs = RunsUpdated(d.runs, c)]
  BY DEF UpdateRun, RunsUpdated
<1>3. d.runs = r
  BY <1>1 DEF Tables
<1>4. [d EXCEPT !.runs = RunsUpdated(r, c)] = Tables(v, RunsUpdated(r, c), a, o, k, e)
  BY <1>1 DEF Tables
<1>. QED BY <1>1, <1>2, <1>3, <1>4

LEMMA InsertOutcomeTables ==
    ASSUME NEW v, NEW r, NEW a, NEW o, NEW k, NEW e, NEW x
    PROVE  InsertOutcome(Tables(v, r, a, o, k, e), x) = Tables(v, r, a, o \cup {x}, k, e)
  BY DEF InsertOutcome, Tables

LEMMA InsertCheckpointTables ==
    ASSUME NEW v, NEW r, NEW a, NEW o, NEW k, NEW e, NEW x
    PROVE  InsertCheckpoint(Tables(v, r, a, o, k, e), x) = Tables(v, r, a, o, k \cup {x}, e)
  BY DEF InsertCheckpoint, Tables

LEMMA InsertAuditTables ==
    ASSUME NEW v, NEW r, NEW a, NEW o, NEW k, NEW e, NEW x
    PROVE  InsertAudit(Tables(v, r, a, o, k, e), x) = Tables(v, r, a, o, k, e \cup {x})
  BY DEF InsertAudit, Tables

\* A commit that passes the checks of the fake fails in SQL at an INSERT only.
LEMMA CommitIsConstrained ==
    ASSUME NEW e \in Database, NEW c, MayCommit(e, c)
    PROVE  SqlCommitted(e, c).result \in {"ok", "constraint"}
<1>1. UpdateActionOk(e, c)
  BY DEF MayCommit, UpdateActionOk, ActionIsOpen
<1>2. PICK a : a = UpdateAction(e, c)
  OBVIOUS
<1>3. a.runs = e.runs /\ DOMAIN a = DOMAIN e
  BY <1>2 DEF UpdateAction, Database
<1>4. InsertOutcome(a, c.outcome).runs = e.runs
  BY <1>3 DEF InsertOutcome, Database
<1>5. UpdateRunOk(InsertOutcome(UpdateAction(e, c), c.outcome), c)
  BY <1>2, <1>4 DEF UpdateRunOk, RunIsAtExpectedStep, MayCommit
<1>. QED BY <1>1, <1>5 DEF SqlCommitted, Refused, Accepted

\* What an accepted commit makes of the tables, the keys that were free and
\* what its WHERE clauses found.
LEMMA SqlCommittedRows ==
    ASSUME NEW e \in Database, NEW c \in ActionStepCommit, SqlCommitted(e, c).result = "ok"
    PROVE  /\ SqlCommitted(e, c).db
                = Tables(e.devices, RunsUpdated(e.runs, c), ActionsUpdated(e.actions, c),
                         e.outcomes \cup {c.outcome}, e.checkpoints \cup {c.checkpoint},
                         e.audits \cup {c.audit})
           /\ UpdateActionOk(e, c)
           /\ \E x \in e.runs : RunIsAtExpectedStep(x, c)
           /\ \A x \in e.outcomes : x.id # c.outcome.id /\ x.action # c.outcome.action
           /\ \A x \in e.checkpoints : /\ x.id # c.checkpoint.id
                                       /\ x.run = c.checkpoint.run => x.step # c.checkpoint.step
           /\ \A x \in e.audits : x.id # c.audit.id
<1> DEFINE a == Tables(e.devices, e.runs, ActionsUpdated(e.actions, c), e.outcomes,
                       e.checkpoints, e.audits)
           o == Tables(e.devices, e.runs, ActionsUpdated(e.actions, c), e.outcomes \cup {c.outcome},
                       e.checkpoints, e.audits)
           r == Tables(e.devices, RunsUpdated(e.runs, c), ActionsUpdated(e.actions, c),
                       e.outcomes \cup {c.outcome}, e.checkpoints, e.audits)
           k == Tables(e.devices, RunsUpdated(e.runs, c), ActionsUpdated(e.actions, c),
                       e.outcomes \cup {c.outcome}, e.checkpoints \cup {c.checkpoint}, e.audits)
           w == Tables(e.devices, RunsUpdated(e.runs, c), ActionsUpdated(e.actions, c),
                       e.outcomes \cup {c.outcome}, e.checkpoints \cup {c.checkpoint},
                       e.audits \cup {c.audit})
<1>1. UpdateAction(e, c) = a
  BY DatabaseIsTables, UpdateActionTables
<1>2. InsertOutcome(a, c.outcome) = o
  BY InsertOutcomeTables
<1>3. UpdateRun(o, c) = r
  BY UpdateRunTables
<1>4. InsertCheckpoint(r, c.checkpoint) = k
  BY InsertCheckpointTables
<1>5. InsertAudit(k, c.audit) = w
  BY InsertAuditTables
<1>6. /\ o.runs = e.runs /\ a.outcomes = e.outcomes /\ r.checkpoints = e.checkpoints
      /\ k.audits = e.audits
  BY DEF Tables
<1>7. /\ UpdateActionOk(e, c) /\ InsertOutcomeOk(a, c.outcome) /\ UpdateRunOk(o, c)
      /\ InsertCheckpointOk(r, c.checkpoint) /\ InsertAuditOk(k, c.audit)
      /\ SqlCommitted(e, c).db = w
  <2>. HIDE DEF a, o, r, k, w
  <2>. QED BY <1>1, <1>2, <1>3, <1>4, <1>5 DEF SqlCommitted, Accepted, Refused
<1>. HIDE DEF a, o, r, k
<1>8. \E x \in e.runs : RunIsAtExpectedStep(x, c)
  BY <1>6, <1>7 DEF UpdateRunOk
<1>9. \A x \in e.outcomes : x.id # c.outcome.id /\ x.action # c.outcome.action
  BY <1>6, <1>7 DEF InsertOutcomeOk
<1>10. \A x \in e.checkpoints : /\ x.id # c.checkpoint.id
                                /\ x.run = c.checkpoint.run => x.step # c.checkpoint.step
  BY <1>6, <1>7 DEF InsertCheckpointOk
<1>11. \A x \in e.audits : x.id # c.audit.id
  BY <1>6, <1>7 DEF InsertAuditOk
<1>. QED BY <1>7, <1>8, <1>9, <1>10, <1>11

\* The guarded UPDATEs and the keys refuse everything the fake refuses.
LEMMA AcceptedMayCommit ==
    ASSUME NEW e \in Database, NEW c \in ActionStepCommit, ValidCommit(c),
           SqlCommitted(e, c).result = "ok"
    PROVE  MayCommit(e, c)
<1>1. \E r \in e.runs : r.id = c.run_id /\ r.step = c.expected
  BY SqlCommittedRows DEF RunIsAtExpectedStep
<1>2. \E a \in e.actions : a.id = c.action_id /\ a.run = c.run_id /\ a.status \in OpenStatus
  BY SqlCommittedRows DEF UpdateActionOk, ActionIsOpen
<1>3. \A o \in e.outcomes : o.action # c.action_id
  BY SqlCommittedRows DEF ValidCommit, OutcomeMatches
<1>4. \A k \in e.checkpoints : ~(k.run = c.run_id /\ k.step = c.next)
  BY SqlCommittedRows DEF ValidCommit, CheckpointMatches
<1>. QED BY <1>1, <1>2, <1>3, <1>4 DEF MayCommit

LEMMA AlikeMayCommit ==
    ASSUME NEW d, NEW e, Alike(d, e), NEW c
    PROVE  MayCommit(d, c) <=> MayCommit(e, c)
  BY DEF Alike, MayCommit

\* The copy after each assignment of commit_action_step.
CopyAt(here, d, c) ==
    CASE here = "update_action"     -> d
      [] here = "insert_outcome"    ->
            Tables(d.devices, d.runs, ActionsUpdated(d.actions, c), d.outcomes, d.checkpoints,
                   d.audits)
      [] here = "update_run"        ->
            Tables(d.devices, d.runs, ActionsUpdated(d.actions, c), Put(d.outcomes, c.outcome),
                   d.checkpoints, d.audits)
      [] here = "insert_checkpoint" ->
            Tables(d.devices, RunsUpdated(d.runs, c), ActionsUpdated(d.actions, c),
                   Put(d.outcomes, c.outcome), d.checkpoints, d.audits)
      [] here = "insert_audit"      ->
            Tables(d.devices, RunsUpdated(d.runs, c), ActionsUpdated(d.actions, c),
                   Put(d.outcomes, c.outcome), Put(d.checkpoints, c.checkpoint), d.audits)
      [] here = "swap"              ->
            Tables(d.devices, RunsUpdated(d.runs, c), ActionsUpdated(d.actions, c),
                   Put(d.outcomes, c.outcome), Put(d.checkpoints, c.checkpoint),
                   Put(d.audits, c.audit))

LEMMA CopyMoves ==
    ASSUME NEW d \in Database, NEW c
    PROVE  /\ UpdateAction(CopyAt("update_action", d, c), c) = CopyAt("insert_outcome", d, c)
           /\ [CopyAt("insert_outcome", d, c) EXCEPT !.outcomes = Put(@, c.outcome)]
                = CopyAt("update_run", d, c)
           /\ UpdateRun(CopyAt("update_run", d, c), c) = CopyAt("insert_checkpoint", d, c)
           /\ [CopyAt("insert_checkpoint", d, c) EXCEPT !.checkpoints = Put(@, c.checkpoint)]
                = CopyAt("insert_audit", d, c)
           /\ [CopyAt("insert_audit", d, c) EXCEPT !.audits = Put(@, c.audit)]
                = CopyAt("swap", d, c)
<1>1. UpdateAction(CopyAt("update_action", d, c), c) = CopyAt("insert_outcome", d, c)
  <2>1. CopyAt("update_action", d, c) = d
    BY DEF CopyAt
  <2>2. CopyAt("insert_outcome", d, c)
          = Tables(d.devices, d.runs, ActionsUpdated(d.actions, c), d.outcomes, d.checkpoints,
                   d.audits)
    BY DEF CopyAt
  <2>. QED BY <2>1, <2>2, DatabaseIsTables, UpdateActionTables
<1>2. [CopyAt("insert_outcome", d, c) EXCEPT !.outcomes = Put(@, c.outcome)]
        = CopyAt("update_run", d, c)
  BY DEF CopyAt, Tables
<1>3. UpdateRun(CopyAt("update_run", d, c), c) = CopyAt("insert_checkpoint", d, c)
  <2>1. CopyAt("update_run", d, c)
          = Tables(d.devices, d.runs, ActionsUpdated(d.actions, c), Put(d.outcomes, c.outcome),
                   d.checkpoints, d.audits)
    BY DEF CopyAt
  <2>2. CopyAt("insert_checkpoint", d, c)
          = Tables(d.devices, RunsUpdated(d.runs, c), ActionsUpdated(d.actions, c),
                   Put(d.outcomes, c.outcome), d.checkpoints, d.audits)
    BY DEF CopyAt
  <2>. QED BY <2>1, <2>2, UpdateRunTables
<1>4. [CopyAt("insert_checkpoint", d, c) EXCEPT !.checkpoints = Put(@, c.checkpoint)]
        = CopyAt("insert_audit", d, c)
  BY DEF CopyAt, Tables
<1>5. [CopyAt("insert_audit", d, c) EXCEPT !.audits = Put(@, c.audit)] = CopyAt("swap", d, c)
  BY DEF CopyAt, Tables
<1>. QED BY <1>1, <1>2, <1>3, <1>4, <1>5

LEMMA CommittedAlike ==
    ASSUME NEW d \in Database, NEW e \in Database, Alike(d, e), NEW c \in ActionStepCommit,
           SqlCommitted(e, c).result = "ok"
    PROVE  Alike(CopyAt("swap", d, c), SqlCommitted(e, c).db)
<1>1. /\ Put(e.outcomes, c.outcome) = e.outcomes \cup {c.outcome}
      /\ Put(e.checkpoints, c.checkpoint) = e.checkpoints \cup {c.checkpoint}
      /\ Put(e.audits, c.audit) = e.audits \cup {c.audit}
  <2>1. /\ \A x \in e.outcomes : x.id # c.outcome.id
        /\ \A x \in e.checkpoints : x.id # c.checkpoint.id
        /\ \A x \in e.audits : x.id # c.audit.id
    BY SqlCommittedRows
  <2>. QED BY <2>1, PutIsInsert
<1>2. CopyAt("swap", d, c)
        = Tables(d.devices, RunsUpdated(e.runs, c), ActionsUpdated(e.actions, c),
                 e.outcomes \cup {c.outcome}, e.checkpoints \cup {c.checkpoint},
                 e.audits \cup {c.audit})
  BY <1>1 DEF CopyAt, Alike
<1>3. SqlCommitted(e, c).db
        = Tables(e.devices, RunsUpdated(e.runs, c), ActionsUpdated(e.actions, c),
                 e.outcomes \cup {c.outcome}, e.checkpoints \cup {c.checkpoint},
                 e.audits \cup {c.audit})
  BY SqlCommittedRows
<1>. QED BY <1>2, <1>3 DEF Alike, Tables

LEMMA SwapType ==
    ASSUME NEW d \in Database, NEW c \in ActionStepCommit
    PROVE  CopyAt("swap", d, c) \in Database
<1>1. ActionsUpdated(d.actions, c) \in SUBSET ActionRow
  BY DEF ActionsUpdated, Database, ActionRow, ActionStepCommit
<1>2. RunsUpdated(d.runs, c) \in SUBSET RunRow
  <2>1. \A x \in d.runs : [x EXCEPT !.status = c.run_status, !.step = c.next] \in RunRow
    BY DEF Database, RunRow, ActionStepCommit
  <2>2. d.runs \in SUBSET RunRow
    BY DEF Database
  <2>. QED BY <2>1, <2>2 DEF RunsUpdated
<1>3. /\ Put(d.outcomes, c.outcome) \in SUBSET OutcomeRow
      /\ Put(d.checkpoints, c.checkpoint) \in SUBSET CheckpointRow
      /\ Put(d.audits, c.audit) \in SUBSET AuditRow
      /\ d.devices \in SUBSET DeviceRow
  BY DEF Put, Database, ActionStepCommit
<1>. QED BY <1>1, <1>2, <1>3 DEF CopyAt, Tables, Database

---------------------------------------------------------------------------
(* The invariant.  That the rows are alike is not inductive alone: the     *)
(* swap may be compared with a whole commit only if the copy is what the   *)
(* assignments so far made of a state that passed the checks, and a        *)
(* restore tells one story only of rows that agree.                        *)

\* Between two calls.
Beside ==
    /\ state \in Database
    /\ sql \in Database
    /\ Alike(state, sql)
    /\ RowsInv(sql)
    /\ CheckpointKeys(sql)

\* In the middle of a commit.
Midway ==
    point # "idle" =>
        /\ call \in CommitCalls
        /\ ValidCommit(call)
        /\ MayCommit(state, call)
        /\ copy = CopyAt(point, state, call)

AtAConstraint == [fake |-> "ok", sql |-> "constraint"]

FollowInv ==
    /\ parted = None => Beside /\ Midway
    /\ parted # None => point = "idle" /\ parted = AtAConstraint

LEMMA InitFollowInv == Init => FollowInv
<1>. SUFFICES ASSUME Init PROVE FollowInv
  OBVIOUS
<1>1. sql \in Database /\ RowsInv(sql) /\ state = sql
  BY SeededRows DEF Init
<1>2. CheckpointKeys(sql)
  BY DEF Init, EmptyDatabase, CheckpointKeys
<1>. QED BY <1>1, <1>2 DEF FollowInv, Beside, Midway, Alike, Init

\* How the end of a call is compared.
LEMMA EndsAreCompared ==
    ASSUME parted = None, NEW how, NEW inSql, EndCall(how, inSql),
           how \in {"ok", "conflict", "injected"},
           inSql.result \in {"ok", "conflict", "constraint", "injected"}
    PROVE  /\ sql' = inSql.db
           /\ ((how = "ok") <=> (inSql.result = "ok")) => parted' = None
           /\ (how = "ok" /\ inSql.result = "constraint") => parted' = AtAConstraint /\ parted' # None
<1>1. [fake |-> how, sql |-> inSql.result] # None
  BY NotPartedAssumption
<1>. QED BY <1>1 DEF EndCall, AtAConstraint

LEMMA FreshCheckpointIsKey ==
    ASSUME NEW d, NEW e, NEW k, CheckpointKeys(d), e.checkpoints = d.checkpoints \cup {k},
           \A x \in d.checkpoints : x.run = k.run => x.step # k.step
    PROVE  CheckpointKeys(e)
  BY DEF CheckpointKeys

\* What a refused call leaves in SQL.
LEMMA RefusedRows ==
    ASSUME NEW d, NEW c
    PROVE  /\ \/ SqlStaged(d, c).result = "ok"
              \/ SqlStaged(d, c).result = "constraint" /\ SqlStaged(d, c).db = d
           /\ \/ SqlCommitted(d, c).result = "ok"
              \/ SqlCommitted(d, c).result \in {"conflict", "constraint"} /\ SqlCommitted(d, c).db = d
<1>1. \/ SqlStaged(d, c).result = "ok"
      \/ SqlStaged(d, c).result = "constraint" /\ SqlStaged(d, c).db = d
  BY DEF SqlStaged, Accepted, Refused
<1>2. \/ SqlCommitted(d, c).result = "ok"
      \/ SqlCommitted(d, c).result \in {"conflict", "constraint"} /\ SqlCommitted(d, c).db = d
  BY DEF SqlCommitted, Accepted, Refused
<1>. QED BY <1>1, <1>2

\* Both staged, or both refused, or SQL refused at a constraint.
LEMMA StageActionFollows == FollowInv /\ StageAction => FollowInv'
<1>. SUFFICES ASSUME FollowInv, StageAction PROVE FollowInv'
  OBVIOUS
<1>1. parted = None /\ point = "idle" /\ point' = "idle" /\ Beside
  BY DEF StageAction, Comparing, FollowInv
<1>2. PICK c \in StageCalls :
         IF ValidStaged(c)
         THEN state' = Staged(state, c) /\ EndCall("ok", SqlStaged(sql, c))
         ELSE EndCall("conflict", Refused(sql, "conflict")) /\ UNCHANGED state
  BY DEF StageAction
<1>3. CASE ~ValidStaged(c)
  <2>1. parted' = None /\ sql' = sql /\ state' = state
    <3>1. PICK s : s = Refused(sql, "conflict")
      OBVIOUS
    <3>2. s.result = "conflict" /\ s.db = sql
      BY <3>1 DEF Refused
    <3>. QED BY <1>1, <1>2, <1>3, <3>1, <3>2, EndsAreCompared
  <2>. QED BY <1>1, <2>1 DEF FollowInv, Beside, Midway
<1>4. CASE ValidStaged(c)
  <2>1. PICK s : s = SqlStaged(sql, c)
    OBVIOUS
  <2>2. state' = Staged(state, c) /\ EndCall("ok", s)
    BY <1>2, <1>4, <2>1
  <2>3. CASE s.result = "constraint"
    <3>1. parted' = AtAConstraint /\ parted' # None
      BY <1>1, <2>2, <2>3, EndsAreCompared
    <3>. QED BY <1>1, <3>1 DEF FollowInv
  <2>4. CASE s.result = "ok"
    <3>1. parted' = None /\ sql' = s.db
      BY <1>1, <2>2, <2>4, EndsAreCompared
    <3>2. c \in StagedAction
      BY CallsAssumption
    <3>3. sql' \in Database /\ RowsInv(sql')
      BY <1>1, <1>4, <2>1, <2>4, <3>1, StagedRowsAgree DEF Beside
    <3>4. Alike(state', sql') /\ state' \in Database
      BY <1>1, <2>1, <2>2, <2>4, <3>1, <3>2, StagedAlike, StagedType DEF Beside
    <3>5. CheckpointKeys(sql')
      <4>1. /\ s.db.checkpoints = sql.checkpoints \cup {c.checkpoint}
            /\ \A x \in sql.checkpoints :
                  x.run = c.checkpoint.run => x.step # c.checkpoint.step
        BY <1>1, <2>1, <2>4, <3>2, SqlStagedRows DEF Beside
      <4>. QED BY <1>1, <3>1, <4>1, FreshCheckpointIsKey DEF Beside
    <3>. QED BY <1>1, <3>1, <3>3, <3>4, <3>5 DEF FollowInv, Beside, Midway
  <2>. QED BY <2>1, <2>3, <2>4, RefusedRows
<1>. QED BY <1>3, <1>4

\* A commit the fake refuses is one that SQL refuses.
LEMMA BeginCommitFollows == FollowInv /\ BeginCommit => FollowInv'
<1>. SUFFICES ASSUME FollowInv, BeginCommit PROVE FollowInv'
  OBVIOUS
<1>1. parted = None /\ point = "idle" /\ Beside /\ state' = state
  BY DEF BeginCommit, Comparing, FollowInv
<1>2. PICK c \in CommitCalls :
         IF ValidCommit(c) /\ MayCommit(state, c)
         THEN /\ point' = "update_action"
              /\ call' = c
              /\ copy' = state
              /\ UNCHANGED <<sql, outcome, parted>>
         ELSE /\ EndCall("conflict",
                         IF ValidCommit(c) THEN SqlCommitted(sql, c) ELSE Refused(sql, "conflict"))
              /\ UNCHANGED <<point, call, copy>>
  BY DEF BeginCommit
<1>3. CASE ValidCommit(c) /\ MayCommit(state, c)
  <2>1. point' = "update_action" /\ call' = c /\ copy' = state /\ sql' = sql /\ parted' = None
    BY <1>1, <1>2, <1>3
  <2>2. copy' = CopyAt(point', state', call')
    BY <1>1, <2>1 DEF CopyAt
  <2>. QED BY <1>1, <1>3, <2>1, <2>2 DEF FollowInv, Beside, Midway
<1>4. CASE ~(ValidCommit(c) /\ MayCommit(state, c))
  <2>1. PICK s : s = IF ValidCommit(c) THEN SqlCommitted(sql, c) ELSE Refused(sql, "conflict")
    OBVIOUS
  <2>2. EndCall("conflict", s) /\ point' = "idle"
    BY <1>1, <1>2, <1>4, <2>1
  <2>3. s.result \in {"conflict", "constraint"} /\ s.db = sql
    <3>1. CASE ~ValidCommit(c)
      BY <2>1, <3>1 DEF Refused
    <3>2. CASE ValidCommit(c)
      <4>1. c \in ActionStepCommit
        BY CallsAssumption
      <4>2. ~MayCommit(sql, c)
        BY <1>1, <1>4, <3>2, AlikeMayCommit DEF Beside
      <4>3. SqlCommitted(sql, c).result # "ok"
        BY <1>1, <3>2, <4>1, <4>2, AcceptedMayCommit DEF Beside
      <4>. QED BY <2>1, <3>2, <4>3, RefusedRows
    <3>. QED BY <3>1, <3>2
  <2>4. parted' = None /\ sql' = sql
    BY <1>1, <2>2, <2>3, EndsAreCompared
  <2>. QED BY <1>1, <2>2, <2>4 DEF FollowInv, Beside, Midway
<1>. QED BY <1>3, <1>4

\* An injected failure leaves the state and the tables as they were.
LEMMA AssignFollows ==
    ASSUME FollowInv, NEW here, NEW next, NEW failure, NEW after, here # "idle",
           Assign(here, next, failure, after),
           point = here /\ copy = CopyAt(here, state, call) => after = CopyAt(next, state, call)
    PROVE  FollowInv'
<1>1. parted = None /\ point = here /\ state' = state /\ Beside /\ Midway
  BY DEF FollowInv, Assign
<1>2. CASE fail_at = failure
  <2>1. EndCall("injected", Refused(sql, "injected")) /\ point' = "idle"
    BY <1>2 DEF Assign, CallOver
  <2>2. PICK s : s = Refused(sql, "injected")
    OBVIOUS
  <2>3. s.result = "injected" /\ s.db = sql
    BY <2>2 DEF Refused
  <2>4. parted' = None /\ sql' = sql
    BY <1>1, <2>1, <2>2, <2>3, EndsAreCompared
  <2>. QED BY <1>1, <2>1, <2>4 DEF FollowInv, Beside, Midway
<1>3. CASE fail_at # failure
  <2>1. point' = next /\ copy' = after /\ call' = call /\ sql' = sql /\ parted' = parted
    BY <1>3 DEF Assign
  <2>2. after = CopyAt(next, state, call)
    BY <1>1 DEF Midway
  <2>. QED BY <1>1, <2>1, <2>2 DEF FollowInv, Beside, Midway
<1>. QED BY <1>2, <1>3

\* The swap and the transaction of the whole commit.
LEMMA SwapFollows == FollowInv /\ PutAuditAndSwap => FollowInv'
<1>. SUFFICES ASSUME FollowInv, PutAuditAndSwap PROVE FollowInv'
  OBVIOUS
<1>1. parted = None /\ point = "insert_audit" /\ point' = "idle" /\ Beside /\ Midway
  BY DEF FollowInv, PutAuditAndSwap, CallOver
<1>2. call \in CommitCalls /\ ValidCommit(call) /\ MayCommit(sql, call)
  BY <1>1, AlikeMayCommit DEF Midway, Beside
<1>3. call \in ActionStepCommit
  BY <1>2, CallsAssumption
<1>4. state' = CopyAt("swap", state, call)
  <2>1. copy = CopyAt("insert_audit", state, call)
    BY <1>1 DEF Midway
  <2>2. state' = [copy EXCEPT !.audits = Put(@, call.audit)]
    BY DEF PutAuditAndSwap
  <2>. QED BY <1>1, <2>1, <2>2, CopyMoves DEF Beside
<1>5. PICK s : s = SqlCommitted(sql, call)
  OBVIOUS
<1>6. EndCall("ok", s)
  BY <1>5 DEF PutAuditAndSwap
<1>7. s.result \in {"ok", "constraint"}
  BY <1>1, <1>2, <1>5, CommitIsConstrained DEF Beside
<1>8. CASE s.result = "constraint"
  <2>1. parted' = AtAConstraint /\ parted' # None
    BY <1>1, <1>6, <1>8, EndsAreCompared
  <2>. QED BY <1>1, <2>1 DEF FollowInv
<1>9. CASE s.result = "ok"
  <2>1. parted' = None /\ sql' = s.db
    BY <1>1, <1>6, <1>9, EndsAreCompared
  <2>2. sql' \in Database /\ RowsInv(sql')
    BY <1>1, <1>2, <1>5, <1>9, <2>1, CommittedRowsAgree DEF Beside
  <2>3. Alike(state', sql') /\ state' \in Database
    BY <1>1, <1>3, <1>4, <1>5, <1>9, <2>1, CommittedAlike, SwapType DEF Beside
  <2>4. CheckpointKeys(sql')
    <3>1. s.db = Tables(sql.devices, RunsUpdated(sql.runs, call), ActionsUpdated(sql.actions, call),
                        sql.outcomes \cup {call.outcome}, sql.checkpoints \cup {call.checkpoint},
                        sql.audits \cup {call.audit})
      BY <1>1, <1>3, <1>5, <1>9, SqlCommittedRows DEF Beside
    <3>2. s.db.checkpoints = sql.checkpoints \cup {call.checkpoint}
      BY <3>1 DEF Tables
    <3>3. \A x \in sql.checkpoints :
             x.run = call.checkpoint.run => x.step # call.checkpoint.step
      BY <1>1, <1>3, <1>5, <1>9, SqlCommittedRows DEF Beside
    <3>. QED BY <1>1, <2>1, <3>2, <3>3, FreshCheckpointIsKey DEF Beside
  <2>. QED BY <1>1, <2>1, <2>2, <2>3, <2>4 DEF FollowInv, Beside, Midway
<1>. QED BY <1>7, <1>8, <1>9

LEMMA NextFollowInv == FollowInv /\ [Next]_vars => FollowInv'
<1>. SUFFICES ASSUME FollowInv, [Next]_vars PROVE FollowInv'
  OBVIOUS
<1>moves. point # "idle" => state \in Database
  BY DEF FollowInv, Beside
<1>1. CASE UNCHANGED vars
  BY <1>1 DEF vars, FollowInv, Beside, Midway
<1>2. CASE SetFailAt
  BY <1>2 DEF SetFailAt, FollowInv, Beside, Midway
<1>3. CASE StageAction
  BY <1>3, StageActionFollows
<1>4. CASE BeginCommit
  BY <1>4, BeginCommitFollows
<1>5. CASE UpdateStoredAction
  <2>1. state \in Database
    BY <1>5, <1>moves DEF UpdateStoredAction, Assign
  <2>2. copy = CopyAt("update_action", state, call)
          => UpdateAction(copy, call) = CopyAt("insert_outcome", state, call)
    BY <2>1, CopyMoves
  <2>. QED BY <1>5, <2>2, AssignFollows DEF UpdateStoredAction
<1>6. CASE PutOutcome
  <2>1. state \in Database
    BY <1>6, <1>moves DEF PutOutcome, Assign
  <2>2. copy = CopyAt("insert_outcome", state, call)
          => [copy EXCEPT !.outcomes = Put(@, call.outcome)] = CopyAt("update_run", state, call)
    <3>1. PICK k : k = CopyAt("insert_outcome", state, call)
      OBVIOUS
    <3>2. [k EXCEPT !.outcomes = Put(@, call.outcome)] = CopyAt("update_run", state, call)
      BY <2>1, <3>1, CopyMoves
    <3>. QED BY <3>1, <3>2
  <2>. QED BY <1>6, <2>2, AssignFollows DEF PutOutcome
<1>7. CASE UpdateStoredRun
  <2>1. state \in Database
    BY <1>7, <1>moves DEF UpdateStoredRun, Assign
  <2>2. copy = CopyAt("update_run", state, call)
          => UpdateRun(copy, call) = CopyAt("insert_checkpoint", state, call)
    BY <2>1, CopyMoves
  <2>. QED BY <1>7, <2>2, AssignFollows DEF UpdateStoredRun
<1>8. CASE PutCheckpoint
  <2>1. state \in Database
    BY <1>8, <1>moves DEF PutCheckpoint, Assign
  <2>2. copy = CopyAt("insert_checkpoint", state, call)
          => [copy EXCEPT !.checkpoints = Put(@, call.checkpoint)]
               = CopyAt("insert_audit", state, call)
    BY <2>1, CopyMoves
  <2>. QED BY <1>8, <2>2, AssignFollows DEF PutCheckpoint
<1>9. CASE PutAuditAndSwap
  BY <1>9, SwapFollows
<1>. QED BY <1>1, <1>2, <1>3, <1>4, <1>5, <1>6, <1>7, <1>8, <1>9 DEF Next

LEMMA FollowInvariant == Spec => []FollowInv
  BY InitFollowInv, NextFollowInv, PTL DEF Spec

\* As long as the fake and the SQL repository accepted the same calls they hold
\* the same rows, devices' calibrations aside, at every moment of a commit and
\* whatever failures a test injected into commit_action_step, and the fake's
\* load_run_restore tells one story about every run.
THEOREM FakeFollowsSql == Spec => []FollowsSql
<1>1. FollowInv => FollowsSql
  <2>. SUFFICES ASSUME FollowInv, parted = None
                PROVE  WithoutCalibration(state) = WithoutCalibration(sql) /\ RestoreTells
    BY DEF FollowsSql
  <2>1. Beside
    BY DEF FollowInv
  <2>2. WithoutCalibration(state) = WithoutCalibration(sql)
    BY <2>1, AlikeIsSame DEF Beside
  <2>3. ASSUME NEW r \in Runs, CanRestore(state, r)
        PROVE  TellsOf(state, r)
    <3>1. CanRestore(sql, r)
      BY <2>1, <2>3 DEF Beside, Alike, CanRestore
    <3>2. LoadRunRestore(state, r) = LoadRunRestore(sql, r)
      BY <2>1 DEF Beside, Alike, LoadRunRestore, NewestCheckpoint, OutcomeCount
    <3>3. TellsOf(sql, r)
      BY <2>1, <3>1, RowsAreRestored DEF Beside
    <3>. QED BY <3>2, <3>3 DEF TellsOf
  <2>. QED BY <2>2, <2>3 DEF RestoreTells, TellsOf
<1>. QED BY <1>1, FollowInvariant, PTL

\* The first call the fake and the database take differently is one the fake
\* stores and a key, a foreign key or a CHECK refuses: never a conflict of
\* commit_action_step, and never a call the database would accept.
THEOREM FakePartsAtConstraints == Spec => []PartsOnlyAtConstraints
<1>1. FollowInv => PartsOnlyAtConstraints
  BY DEF FollowInv, PartsOnlyAtConstraints, AtAConstraint
<1>. QED BY <1>1, FollowInvariant, PTL
================================================================================
