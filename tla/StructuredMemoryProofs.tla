------------------------ MODULE StructuredMemoryProofs ------------------------
(***************************************************************************)
(* Proofs about StructuredMemory for any processes, identifiers, calls,    *)
(* seeded devices and bound on attempts.  First the types and the          *)
(* invariants of the database, by SafetyInv, which says what tables a      *)
(* transaction has reached; then what the database is worth over time:     *)
(* transactions are whole, refusals leave nothing behind, evidence only    *)
(* grows, one caller wins, a restore reads one moment, and all of it       *)
(* implements StepLedger.                                                  *)
(***************************************************************************)
EXTENDS StructuredMemory, FiniteSetTheorems, TLAPS

---------------------------------------------------------------------------
(* Every statement maps a database to a database.                          *)

LEMMA UpsertDevicesType ==
    ASSUME NEW d \in Database, NEW rows \in SUBSET DeviceRow
    PROVE  UpsertDevices(d, rows) \in Database
<1>1. ASSUME NEW row \in rows
      PROVE  UpsertedDevice(d, row) \subseteq DeviceRow
  BY <1>1 DEF UpsertedDevice, Coalesced, Database, DeviceRow
<1>2. UNION {UpsertedDevice(d, row) : row \in rows} \subseteq DeviceRow
  BY <1>1
<1>3. d.devices \subseteq DeviceRow
  BY DEF Database
<1>. QED
  BY <1>2, <1>3 DEF UpsertDevices, Database

LEMMA InsertTypes ==
    ASSUME NEW d \in Database
    PROVE  /\ \A row \in RunRow : InsertRun(d, row) \in Database
           /\ \A row \in ActionRow : InsertAction(d, row) \in Database
           /\ \A row \in OutcomeRow : InsertOutcome(d, row) \in Database
           /\ \A row \in CheckpointRow : InsertCheckpoint(d, row) \in Database
           /\ \A row \in AuditRow : InsertAudit(d, row) \in Database
  BY DEF Database, InsertRun, InsertAction, InsertOutcome, InsertCheckpoint, InsertAudit

LEMMA UpdateTypes ==
    ASSUME NEW d \in Database, NEW c \in ActionStepCommit
    PROVE  /\ UpdateAction(d, c) \in Database
           /\ UpdateRun(d, c) \in Database
<1>1. ASSUME NEW x \in ActionRow
      PROVE  [x EXCEPT !.status = c.action_status] \in ActionRow
  BY DEF ActionRow, ActionStepCommit
<1>2. {IF ActionIsOpen(x, c) THEN [x EXCEPT !.status = c.action_status] ELSE x :
          x \in d.actions} \subseteq ActionRow
  BY <1>1 DEF Database
<1>3. ASSUME NEW x \in RunRow
      PROVE  [x EXCEPT !.status = c.run_status, !.step = c.next] \in RunRow
  BY DEF RunRow, ActionStepCommit
<1>4. {IF RunIsAtExpectedStep(x, c)
       THEN [x EXCEPT !.status = c.run_status, !.step = c.next] ELSE x :
          x \in d.runs} \subseteq RunRow
  BY <1>3 DEF Database
<1>. QED
  BY <1>2, <1>4 DEF UpdateAction, UpdateRun, Database

---------------------------------------------------------------------------
(* Type correctness.  TypeOK is not inductive alone: the argument of a     *)
(* statement has the right type only because a process inside a staging    *)
(* (committing, restoring) transaction carries a staging (committing,      *)
(* restoring) call, and a process sleeps only when an attempt is left.     *)

CallMatchesPoint ==
    \A p \in Procs :
        /\ pc[p] \in StagePoints => call[p] \in StageCalls
        /\ pc[p] \in CommitPoints => call[p] \in CommitCalls
        /\ pc[p] \in RestorePoints => call[p] \in RestoreCalls
        /\ pc[p] \in {"begin", "backoff"} => call[p] \in Calls
        /\ pc[p] = "backoff" => attempt[p] + 1 < MaxAttempts

TypeInv == TypeOK /\ CallMatchesPoint

LEMMA EmptyDatabaseType == EmptyDatabase \in Database
  BY DEF EmptyDatabase, Database

LEMMA InitTypeInv == Init => TypeInv
<1>. SUFFICES ASSUME Init PROVE TypeInv
  OBVIOUS
<1>1. db \in Database
  BY SeededDevicesAssumption DEF Init, EmptyDatabase, Database
<1>2. NothingLoaded \in [run : SUBSET RunRow, checkpoint : SUBSET CheckpointRow,
                         actions : SUBSET ActionRow, outcomes : SUBSET OutcomeRow,
                         timeline : SUBSET AuditRow]
  BY DEF NothingLoaded
<1>. QED
  BY <1>1, <1>2, EmptyDatabaseType, AttemptsAssumption
  DEF Init, TypeInv, TypeOK, CallMatchesPoint, ControlPoints, Results, StagePoints,
      CommitPoints, RestorePoints

\* A call that returns leaves its process idle and nothing else changed.
LEMMA ReturnType ==
    ASSUME TypeInv, NEW p \in Procs, NEW res \in Results, Return(p, res)
    PROVE  /\ pc' \in [Procs -> ControlPoints]
           /\ call' \in [Procs -> Calls \cup {None}]
           /\ attempt' \in [Procs -> 0 .. MaxAttempts - 1]
           /\ snap' \in [Procs -> Database]
           /\ work' \in [Procs -> Database]
           /\ result' \in [Procs -> Results]
           /\ CallMatchesPoint'
<1>1. pc' = [pc EXCEPT ![p] = "idle"] /\ call' = [call EXCEPT ![p] = None]
  BY DEF Return
<1>2. pc' \in [Procs -> ControlPoints] /\ call' \in [Procs -> Calls \cup {None}]
  BY <1>1 DEF TypeInv, TypeOK, ControlPoints
<1>3. /\ attempt' \in [Procs -> 0 .. MaxAttempts - 1]
      /\ snap' \in [Procs -> Database]
      /\ work' \in [Procs -> Database]
      /\ result' \in [Procs -> Results]
  BY EmptyDatabaseType, AttemptsAssumption DEF Return, TypeInv, TypeOK
<1>4. CallMatchesPoint'
  BY <1>1 DEF Return, CallMatchesPoint, TypeInv, TypeOK, StagePoints, CommitPoints,
               RestorePoints
<1>. QED
  BY <1>2, <1>3, <1>4

\* A statement whose effect is a database, between two points of the same
\* kind of transaction, preserves the type invariant.
LEMMA StatementType ==
    ASSUME TypeInv, NEW p \in Procs, NEW here, NEW next, NEW ok, NEW after, NEW error,
           Statement(p, here, next, ok, after, error),
           after \in Database,
           error \in Results,
           \/ here \in StagePoints /\ next \in StagePoints
           \/ here \in CommitPoints /\ next \in CommitPoints
    PROVE  TypeInv'
<1>1. UNCHANGED <<db, loaded, applied, acks>> /\ pc[p] = here
  BY DEF Statement
<1>2. CASE ok
  <2>1. /\ pc' = [pc EXCEPT ![p] = next]
        /\ work' = [work EXCEPT ![p] = after]
        /\ UNCHANGED <<call, attempt, snap, result>>
    BY <1>2 DEF Statement
  <2>2. TypeOK'
    BY <1>1, <2>1 DEF TypeInv, TypeOK, ControlPoints, InTransaction
  <2>3. CallMatchesPoint'
    BY <1>1, <2>1
    DEF TypeInv, TypeOK, CallMatchesPoint, StagePoints, CommitPoints, RestorePoints
  <2>. QED
    BY <2>2, <2>3 DEF TypeInv
<1>3. CASE ~ok
  <2>1. Return(p, error)
    BY <1>3 DEF Statement
  <2>. QED
    BY <1>1, <2>1, ReturnType DEF TypeInv, TypeOK
<1>. QED
  BY <1>2, <1>3

LEMMA StageStepType ==
    ASSUME TypeInv, NEW p \in Procs, StageStep(p)
    PROVE  TypeInv'
<1>1. "constraint" \in Results
  BY DEF Results, Refusals
<1>2. pc[p] \in StagePoints
  BY DEF StageStep, StageDevices, StageRun, StageAction, StageCheckpoint, StageAudit,
         Statement, StagePoints
<1>3. call[p] \in StagedAction
  BY <1>2, CallsAssumption DEF TypeInv, CallMatchesPoint
<1>4. /\ call[p].devices \in SUBSET DeviceRow
      /\ call[p].run \in RunRow
      /\ call[p].action \in ActionRow
      /\ call[p].checkpoint \in CheckpointRow
      /\ call[p].audit \in AuditRow
  BY <1>3 DEF StagedAction
<1>5. work[p] \in Database
  BY DEF TypeInv, TypeOK
<1>6. CASE StageDevices(p)
  BY <1>1, <1>4, <1>5, <1>6, UpsertDevicesType, StatementType DEF StageDevices, StagePoints
<1>7. CASE StageRun(p)
  BY <1>1, <1>4, <1>5, <1>7, InsertTypes, StatementType DEF StageRun, StagePoints
<1>8. CASE StageAction(p)
  BY <1>1, <1>4, <1>5, <1>8, InsertTypes, StatementType DEF StageAction, StagePoints
<1>9. CASE StageCheckpoint(p)
  BY <1>1, <1>4, <1>5, <1>9, InsertTypes, StatementType DEF StageCheckpoint, StagePoints
<1>10. CASE StageAudit(p)
  BY <1>1, <1>4, <1>5, <1>10, InsertTypes, StatementType DEF StageAudit, StagePoints
<1>. QED
  BY <1>6, <1>7, <1>8, <1>9, <1>10 DEF StageStep

LEMMA CommitStepType ==
    ASSUME TypeInv, NEW p \in Procs, CommitStep(p)
    PROVE  TypeInv'
<1>1. "constraint" \in Results /\ "conflict" \in Results
  BY DEF Results, Refusals
<1>2. pc[p] \in CommitPoints
  BY DEF CommitStep, CommitUpdateAction, CommitInsertOutcome, CommitUpdateRun,
         CommitInsertCheckpoint, CommitInsertAudit, Statement, CommitPoints
<1>3. call[p] \in ActionStepCommit
  BY <1>2, CallsAssumption DEF TypeInv, CallMatchesPoint
<1>4. /\ call[p].outcome \in OutcomeRow
      /\ call[p].checkpoint \in CheckpointRow
      /\ call[p].audit \in AuditRow
  BY <1>3 DEF ActionStepCommit
<1>5. work[p] \in Database
  BY DEF TypeInv, TypeOK
<1>6. CASE CommitUpdateAction(p)
  BY <1>1, <1>3, <1>5, <1>6, UpdateTypes, StatementType DEF CommitUpdateAction, CommitPoints
<1>7. CASE CommitInsertOutcome(p)
  BY <1>1, <1>4, <1>5, <1>7, InsertTypes, StatementType DEF CommitInsertOutcome, CommitPoints
<1>8. CASE CommitUpdateRun(p)
  BY <1>1, <1>3, <1>5, <1>8, UpdateTypes, StatementType DEF CommitUpdateRun, CommitPoints
<1>9. CASE CommitInsertCheckpoint(p)
  BY <1>1, <1>4, <1>5, <1>9, InsertTypes, StatementType DEF CommitInsertCheckpoint, CommitPoints
<1>10. CASE CommitInsertAudit(p)
  BY <1>1, <1>4, <1>5, <1>10, InsertTypes, StatementType DEF CommitInsertAudit, CommitPoints
<1>. QED
  BY <1>6, <1>7, <1>8, <1>9, <1>10 DEF CommitStep

\* The two ends of a COMMIT: the work copy, a database, becomes the database.
LEMMA PublishType ==
    ASSUME TypeInv, NEW p \in Procs, CommitAcknowledged(p) \/ CommitUnacknowledged(p)
    PROVE  TypeInv'
<1>1. Publish(p) /\ loaded' = loaded
  BY DEF CommitAcknowledged, CommitUnacknowledged
<1>2. db' \in Database /\ applied' \in [Procs -> BOOLEAN]
  BY <1>1 DEF Publish, TypeInv, TypeOK
<1>3. CASE CommitAcknowledged(p)
  <2>1. call[p] \in StagedAction \/ call[p] \in ActionStepCommit
    BY <1>1, CallsAssumption
    DEF Publish, TypeInv, CallMatchesPoint, StagePoints, CommitPoints
  <2>2. AckKey(call[p]) \in AckKeys
    BY <2>1 DEF AckKey, AckKeys, StagedAction, ActionStepCommit, RunRow
  <2>3. acks' \in [AckKeys -> Nat]
    BY <1>3, <2>2 DEF CommitAcknowledged, TypeInv, TypeOK
  <2>4. Return(p, "ok") /\ "ok" \in Results
    BY <1>3 DEF CommitAcknowledged, Results
  <2>. QED
    BY <1>1, <1>2, <2>3, <2>4, ReturnType DEF TypeInv, TypeOK
<1>4. CASE CommitUnacknowledged(p)
  <2>1. Return(p, "lost") /\ "lost" \in Results /\ acks' = acks
    BY <1>4 DEF CommitUnacknowledged, Results
  <2>. QED
    BY <1>1, <1>2, <2>1, ReturnType DEF TypeInv, TypeOK
<1>. QED
  BY <1>3, <1>4

LoadedType ==
    [run : SUBSET RunRow, checkpoint : SUBSET CheckpointRow, actions : SUBSET ActionRow,
     outcomes : SUBSET OutcomeRow, timeline : SUBSET AuditRow]

LEMMA LoadType ==
    ASSUME TypeInv, NEW p \in Procs, NEW here, NEW next, NEW value \in LoadedType,
           Load(p, here, next, value),
           here \in RestorePoints, next \in RestorePoints
    PROVE  TypeInv'
<1>1. /\ pc[p] = here
      /\ pc' = [pc EXCEPT ![p] = next]
      /\ loaded' = [loaded EXCEPT ![p] = value]
      /\ UNCHANGED <<db, call, attempt, snap, work, result, applied, acks>>
  BY DEF Load
<1>2. TypeOK'
  BY <1>1 DEF TypeInv, TypeOK, LoadedType, ControlPoints, InTransaction
<1>3. CallMatchesPoint'
  BY <1>1 DEF TypeInv, TypeOK, CallMatchesPoint, StagePoints, CommitPoints, RestorePoints
<1>. QED
  BY <1>2, <1>3 DEF TypeInv

LEMMA RestoreStepType ==
    ASSUME TypeInv, NEW p \in Procs, RestoreStep(p)
    PROVE  TypeInv'
<1>1. work[p] \in Database /\ loaded[p] \in LoadedType
  BY DEF TypeInv, TypeOK, LoadedType
<1>2. \A r : /\ RunsOf(work[p], r) \in SUBSET RunRow
             /\ LatestCheckpoints(work[p], r) \in SUBSET CheckpointRow
             /\ ActionsOf(work[p], r) \in SUBSET ActionRow
             /\ OutcomesOf(work[p], r) \in SUBSET OutcomeRow
             /\ TimelineOf(work[p], r) \in SUBSET AuditRow
  BY <1>1 DEF Database, RunsOf, LatestCheckpoints, ActionsOf, OutcomesOf, TimelineOf
<1>3. NothingLoaded \in LoadedType
  BY DEF NothingLoaded, LoadedType
<1>4. CASE LoadRun(p)
  <2>1. [loaded[p] EXCEPT !.run = RunsOf(work[p], call[p].run_id)] \in LoadedType
    BY <1>1, <1>2 DEF LoadedType
  <2>. QED
    BY <1>4, <2>1, LoadType DEF LoadRun, RestorePoints
<1>5. CASE LoadCheckpoint(p)
  <2>1. [loaded[p] EXCEPT !.checkpoint = LatestCheckpoints(work[p], call[p].run_id)]
            \in LoadedType
    BY <1>1, <1>2 DEF LoadedType
  <2>. QED
    BY <1>5, <2>1, LoadType DEF LoadCheckpoint, RestorePoints
<1>6. CASE LoadMissing(p)
  <2>1. /\ Return(p, "missing") /\ "missing" \in Results
        /\ loaded' = [loaded EXCEPT ![p] = NothingLoaded]
        /\ UNCHANGED <<db, applied, acks>>
    BY <1>6 DEF LoadMissing, Results
  <2>. QED
    BY <1>3, <2>1, ReturnType DEF TypeInv, TypeOK, LoadedType
<1>7. CASE LoadCounts(p)
  <2>1. [loaded[p] EXCEPT !.actions = ActionsOf(work[p], call[p].run_id),
                          !.outcomes = OutcomesOf(work[p], call[p].run_id)] \in LoadedType
    BY <1>1, <1>2 DEF LoadedType
  <2>. QED
    BY <1>7, <2>1, LoadType DEF LoadCounts, RestorePoints
<1>8. CASE LoadTimeline(p)
  <2>1. /\ Return(p, "ok") /\ "ok" \in Results
        /\ loaded' = [loaded EXCEPT ![p].timeline = TimelineOf(work[p], call[p].run_id)]
        /\ UNCHANGED <<db, applied, acks>>
    BY <1>8 DEF LoadTimeline, Results
  <2>2. loaded' \in [Procs -> LoadedType]
    BY <1>2, <2>1 DEF TypeInv, TypeOK, LoadedType
  <2>. QED
    BY <2>1, <2>2, ReturnType DEF TypeInv, TypeOK, LoadedType
<1>. QED
  BY <1>4, <1>5, <1>6, <1>7, <1>8 DEF RestoreStep

LEMMA CallType ==
    ASSUME TypeInv, NEW p \in Procs, Call(p)
    PROVE  TypeInv'
<1>1. PICK c \in Calls :
        IF Valid(c)
        THEN /\ pc' = [pc EXCEPT ![p] = "begin"]
             /\ call' = [call EXCEPT ![p] = c]
             /\ result' = [result EXCEPT ![p] = "none"]
        ELSE /\ result' = [result EXCEPT ![p] = "conflict"]
             /\ UNCHANGED <<pc, call>>
  BY DEF Call
<1>2. /\ pc' \in [Procs -> ControlPoints]
      /\ call' \in [Procs -> Calls \cup {None}]
      /\ result' \in [Procs -> Results]
  <2>1. CASE Valid(c)
    BY <1>1, <2>1 DEF TypeInv, TypeOK, ControlPoints, Results
  <2>2. CASE ~Valid(c)
    BY <1>1, <2>2 DEF TypeInv, TypeOK, Results, Refusals
  <2>. QED
    BY <2>1, <2>2
<1>3. CallMatchesPoint'
  BY <1>1 DEF Call, TypeInv, TypeOK, CallMatchesPoint, StagePoints, CommitPoints,
               RestorePoints
<1>4. loaded' \in [Procs -> LoadedType]
  BY DEF Call, TypeInv, TypeOK, LoadedType, NothingLoaded
<1>5. applied' \in [Procs -> BOOLEAN] /\ UNCHANGED <<db, attempt, snap, work, acks>>
  BY DEF Call, TypeInv, TypeOK
<1>. QED
  BY <1>2, <1>3, <1>4, <1>5 DEF TypeInv, TypeOK, LoadedType

LEMMA BeginType ==
    ASSUME TypeInv, NEW p \in Procs, Begin(p)
    PROVE  TypeInv'
<1>1. /\ pc[p] = "begin"
      /\ pc' = [pc EXCEPT ![p] = FirstStatement(call[p])]
      /\ snap' = [snap EXCEPT ![p] = db]
      /\ work' = [work EXCEPT ![p] = db]
      /\ loaded' = [loaded EXCEPT ![p] = NothingLoaded]
      /\ UNCHANGED <<db, call, attempt, result, applied, acks>>
  BY DEF Begin
<1>2. \/ call[p] \in StageCalls /\ FirstStatement(call[p]) = "stage_devices"
      \/ call[p] \in CommitCalls /\ FirstStatement(call[p]) = "update_action"
      \/ call[p] \in RestoreCalls /\ FirstStatement(call[p]) = "load_run"
  <2>1. call[p] \in Calls
    BY <1>1 DEF TypeInv, CallMatchesPoint
  <2>2. CASE call[p] \in StageCalls
    BY <2>2, CallsAssumption DEF FirstStatement, StagedAction
  <2>3. CASE call[p] \in CommitCalls
    BY <2>3, CallsAssumption DEF FirstStatement, ActionStepCommit
  <2>4. CASE call[p] \in RestoreCalls
    BY <2>4 DEF FirstStatement, RestoreCalls
  <2>. QED
    BY <2>1, <2>2, <2>3, <2>4 DEF Calls
<1>3. NothingLoaded \in LoadedType
  BY DEF NothingLoaded, LoadedType
<1>4. TypeOK'
  BY <1>1, <1>2, <1>3
  DEF TypeInv, TypeOK, LoadedType, ControlPoints, InTransaction, StagePoints, CommitPoints,
      RestorePoints
<1>5. CallMatchesPoint'
  BY <1>1, <1>2
  DEF TypeInv, TypeOK, CallMatchesPoint, StagePoints, CommitPoints, RestorePoints
<1>. QED
  BY <1>4, <1>5 DEF TypeInv

LEMMA SerializationFailureType ==
    ASSUME TypeInv, NEW p \in Procs, SerializationFailure(p)
    PROVE  TypeInv'
<1>1. /\ pc[p] \in InTransaction
      /\ loaded' = [loaded EXCEPT ![p] = NothingLoaded]
      /\ UNCHANGED <<db, applied, acks>>
  BY DEF SerializationFailure
<1>2. loaded' \in [Procs -> LoadedType]
  BY <1>1 DEF TypeInv, TypeOK, LoadedType, NothingLoaded
<1>3. CASE attempt[p] + 1 = MaxAttempts
  <2>1. Return(p, "serialization") /\ "serialization" \in Results
    BY <1>3 DEF SerializationFailure, Results, Refusals
  <2>. QED
    BY <1>1, <1>2, <2>1, ReturnType DEF TypeInv, TypeOK, LoadedType
<1>4. CASE attempt[p] + 1 # MaxAttempts
  <2>1. /\ pc' = [pc EXCEPT ![p] = "backoff"]
        /\ snap' = [snap EXCEPT ![p] = EmptyDatabase]
        /\ work' = [work EXCEPT ![p] = EmptyDatabase]
        /\ UNCHANGED <<call, attempt, result>>
    BY <1>4 DEF SerializationFailure
  <2>2. TypeOK'
    BY <1>1, <1>2, <2>1, EmptyDatabaseType DEF TypeInv, TypeOK, LoadedType, ControlPoints
  <2>3. CallMatchesPoint'
    BY <1>1, <1>4, <2>1, AttemptsAssumption
    DEF TypeInv, TypeOK, CallMatchesPoint, InTransaction, StagePoints, CommitPoints,
        RestorePoints, Calls
  <2>. QED
    BY <2>2, <2>3 DEF TypeInv
<1>. QED
  BY <1>3, <1>4

LEMMA RetryType ==
    ASSUME TypeInv, NEW p \in Procs, Retry(p)
    PROVE  TypeInv'
<1>1. /\ pc[p] = "backoff"
      /\ pc' = [pc EXCEPT ![p] = "begin"]
      /\ attempt' = [attempt EXCEPT ![p] = @ + 1]
      /\ UNCHANGED <<db, call, snap, work, loaded, result, applied, acks>>
  BY DEF Retry
<1>2. attempt' \in [Procs -> 0 .. MaxAttempts - 1]
  BY <1>1, AttemptsAssumption DEF TypeInv, TypeOK, CallMatchesPoint
<1>3. TypeOK'
  BY <1>1, <1>2 DEF TypeInv, TypeOK, ControlPoints
<1>4. CallMatchesPoint'
  BY <1>1 DEF TypeInv, TypeOK, CallMatchesPoint, StagePoints, CommitPoints, RestorePoints
<1>. QED
  BY <1>3, <1>4 DEF TypeInv

LEMMA AbandonType ==
    ASSUME TypeInv, NEW p \in Procs, Abandon(p)
    PROVE  TypeInv'
<1>1. /\ Return(p, "lost") /\ "lost" \in Results
      /\ loaded' = [loaded EXCEPT ![p] = NothingLoaded]
      /\ UNCHANGED <<db, applied, acks>>
  BY DEF Abandon, Results
<1>2. loaded' \in [Procs -> LoadedType]
  BY <1>1 DEF TypeInv, TypeOK, LoadedType, NothingLoaded
<1>. QED
  BY <1>1, <1>2, ReturnType DEF TypeInv, TypeOK, LoadedType

LEMMA NextTypeInv == TypeInv /\ [Next]_vars => TypeInv'
<1>. SUFFICES ASSUME TypeInv, [Next]_vars PROVE TypeInv'
  OBVIOUS
<1>1. CASE UNCHANGED vars
  BY <1>1 DEF vars, TypeInv, TypeOK, CallMatchesPoint
<1>2. ASSUME NEW p \in Procs, Call(p) PROVE TypeInv'
  BY <1>2, CallType
<1>3. ASSUME NEW p \in Procs, Progress(p) PROVE TypeInv'
  BY <1>3, BeginType, StageStepType, CommitStepType, RestoreStepType, PublishType,
     SerializationFailureType, RetryType DEF Progress
<1>4. ASSUME NEW p \in Procs, Abandon(p) PROVE TypeInv'
  BY <1>4, AbandonType
<1>. QED
  BY <1>1, <1>2, <1>3, <1>4 DEF Next

\* The database, the local views of every open transaction and the results
\* keep their types in every behaviour, and the retry counter stays within
\* the bound of run_with_serialization_retry.
THEOREM TypeCorrect == Spec => []TypeOK
<1>1. Init => TypeInv
  BY InitTypeInv
<1>2. TypeInv /\ [Next]_vars => TypeInv'
  BY NextTypeInv
<1>3. TypeInv => TypeOK
  BY DEF TypeInv
<1>. QED
  BY <1>1, <1>2, <1>3, PTL DEF Spec

---------------------------------------------------------------------------
(* The database invariant.  The three properties of the rows are not       *)
(* inductive alone: an update changes one row only because identifiers are *)
(* keys, and a staged run starts from nothing only because no row of any   *)
(* table refers to a run that does not exist.                              *)

Keys(d) ==
    /\ \A x, y \in d.runs : x.id = y.id => x = y
    /\ \A a, b \in d.actions : a.id = b.id => a = b
    /\ \A a, b \in d.actions : a.run = b.run => a = b

References(d) ==
    /\ \A a \in d.actions : \E x \in d.runs : x.id = a.run
    /\ \A k \in d.checkpoints : \E x \in d.runs : x.id = k.run
    /\ \A e \in d.audits : \E x \in d.runs : x.id = e.run

DatabaseInv(d) ==
    /\ Keys(d)
    /\ References(d)
    /\ ProgressAgrees(d)
    /\ OneVerdict(d)
    /\ TimelineTells(d)

\* w holds the rows of d and those given, devices aside.
Grown(w, d, rs, as, ks, es) ==
    /\ w.runs = d.runs \cup rs
    /\ w.actions = d.actions \cup as
    /\ w.outcomes = d.outcomes
    /\ w.checkpoints = d.checkpoints \cup ks
    /\ w.audits = d.audits \cup es

\* A complete staging transaction of a validated call preserves the invariant.
LEMMA StagePreserves ==
    ASSUME NEW d \in Database, NEW w \in Database, NEW c \in StagedAction,
           DatabaseInv(d),
           ValidStaged(c),
           c.action.status \in OpenStatus,
           \A x \in d.runs : x.id # c.run.id,
           \A x \in d.actions : x.id # c.action.id,
           Grown(w, d, {c.run}, {c.action}, {c.checkpoint}, {c.audit})
    PROVE  DatabaseInv(w)
<1>. /\ w.runs = d.runs \cup {c.run}
     /\ w.actions = d.actions \cup {c.action}
     /\ w.outcomes = d.outcomes
     /\ w.checkpoints = d.checkpoints \cup {c.checkpoint}
     /\ w.audits = d.audits \cup {c.audit}
  BY DEF Grown
<1>valid. /\ c.action.run = c.run.id
          /\ c.checkpoint.run = c.run.id
          /\ c.checkpoint.step = c.run.step
          /\ c.checkpoint.pending = c.action.id
          /\ c.checkpoint.state.current_step = c.run.step
          /\ c.checkpoint.state.pending = c.action.id
          /\ c.audit.run = c.run.id
          /\ c.audit.target = c.action.id
          /\ c.audit.seq = c.action.order
  BY DEF ValidStaged, StagedActionMatches, StagedCheckpointMatches, StagedAuditMatches
<1>fresh. /\ \A a \in d.actions : a.run # c.run.id
          /\ \A k \in d.checkpoints : k.run # c.run.id
          /\ \A e \in d.audits : e.run # c.run.id
  BY DEF DatabaseInv, References
<1>1. Keys(w)
  BY <1>valid, <1>fresh DEF DatabaseInv, Keys
<1>2. References(w)
  BY <1>valid DEF DatabaseInv, References
<1>3. ProgressAgrees(w)
  <2>. SUFFICES ASSUME NEW x \in w.runs
                PROVE  \E k \in LatestCheckpoints(w, x.id) :
                          /\ k.step = x.step
                          /\ k.state.current_step = x.step
                          /\ k.state.pending = k.pending
                          /\ k.pending # None => \E a \in ActionsOf(w, x.id) : a.id = k.pending
                          /\ \A a \in ActionsOf(w, x.id) :
                                IF a.status \in OpenStatus
                                THEN k.pending = a.id
                                ELSE k.last = a.id /\ a.id \in k.state.completed
    BY DEF ProgressAgrees
  <2>1. CASE x = c.run
    <3>1. c.checkpoint.step \in Nat
      BY DEF StagedAction, CheckpointRow
    <3>2. c.checkpoint \in LatestCheckpoints(w, x.id)
      BY <1>valid, <1>fresh, <2>1, <3>1 DEF LatestCheckpoints
    <3>3. ActionsOf(w, x.id) = {c.action}
      BY <1>valid, <1>fresh, <2>1 DEF ActionsOf
    <3>. QED
      BY <1>valid, <2>1, <3>2, <3>3
  <2>2. CASE x \in d.runs
    <3>1. LatestCheckpoints(w, x.id) = LatestCheckpoints(d, x.id)
      BY <1>valid, <2>2 DEF LatestCheckpoints
    <3>2. ActionsOf(w, x.id) = ActionsOf(d, x.id)
      BY <1>valid, <2>2 DEF ActionsOf
    <3>. QED
      BY <2>2, <3>1, <3>2 DEF DatabaseInv, ProgressAgrees
  <2>. QED
    BY <2>1, <2>2
<1>4. OneVerdict(w)
  <2>1. c.action.status \notin TerminalStatus
    BY DEF OpenStatus, TerminalStatus
  <2>. QED
    BY <2>1 DEF DatabaseInv, OneVerdict
<1>5. TimelineTells(w)
  <2>1. ASSUME NEW e \in w.audits
        PROVE  \/ \E a \in ActionsOf(w, e.run) : a.id = e.target /\ a.order = e.seq
               \/ \E o \in OutcomesOf(w, e.run) : o.id = e.target /\ o.order = e.seq
    <3>1. CASE e = c.audit
      BY <1>valid, <3>1 DEF ActionsOf
    <3>2. CASE e \in d.audits
      BY <3>2 DEF DatabaseInv, TimelineTells, ActionsOf, OutcomesOf
    <3>. QED
      BY <3>1, <3>2
  <2>2. \A a \in w.actions : \E e \in TimelineOf(w, a.run) : e.target = a.id
    BY <1>valid DEF DatabaseInv, TimelineTells, TimelineOf
  <2>3. \A o \in w.outcomes : \E e \in w.audits : e.target = o.id
    BY DEF DatabaseInv, TimelineTells
  <2>4. \A e, f \in w.audits : (e.run = f.run /\ e.seq = f.seq) => e = f
    BY <1>valid, <1>fresh DEF DatabaseInv, TimelineTells
  <2>. QED
    BY <2>1, <2>2, <2>3, <2>4 DEF TimelineTells
<1>. QED
  BY <1>1, <1>2, <1>3, <1>4, <1>5 DEF DatabaseInv

\* w holds the rows of d after the five statements of commit_action_step.
Stepped(w, d, c) ==
    /\ w.runs = UpdateRun(d, c).runs
    /\ w.actions = UpdateAction(d, c).actions
    /\ w.outcomes = d.outcomes \cup {c.outcome}
    /\ w.checkpoints = d.checkpoints \cup {c.checkpoint}
    /\ w.audits = d.audits \cup {c.audit}

\* A complete step transaction of a validated call preserves the invariant.
LEMMA CommitPreserves ==
    ASSUME NEW d \in Database, NEW w \in Database, NEW c \in ActionStepCommit,
           DatabaseInv(d),
           ValidCommit(c),
           UpdateActionOk(d, c),
           UpdateRunOk(d, c),
           \A e \in d.audits : e.run = c.audit.run => e.seq # c.audit.seq,
           Stepped(w, d, c)
    PROVE  DatabaseInv(w)
<1>valid. /\ c.next > c.expected
          /\ c.outcome.action = c.action_id
          /\ c.outcome.order = c.next
          /\ c.action_status = IF c.outcome.success THEN "succeeded" ELSE "failed"
          /\ c.checkpoint.run = c.run_id
          /\ c.checkpoint.step = c.next
          /\ c.checkpoint.last = c.action_id
          /\ c.checkpoint.pending = None
          /\ c.checkpoint.state.current_step = c.next
          /\ c.checkpoint.state.pending = None
          /\ c.action_id \in c.checkpoint.state.completed
          /\ c.audit.run = c.run_id
          /\ c.audit.target = c.outcome.id
          /\ c.audit.seq = c.outcome.order
  BY DEF ValidCommit, StepAdvances, OutcomeMatches, StatusMatchesVerdict, CheckpointMatches,
         AgentStateMatches, AuditMatches
<1>types. /\ c.outcome \in OutcomeRow
          /\ c.checkpoint \in CheckpointRow
          /\ c.audit \in AuditRow
          /\ c.expected \in Nat /\ c.next \in Nat
          /\ d.runs \subseteq RunRow /\ d.actions \subseteq ActionRow
          /\ d.checkpoints \subseteq CheckpointRow
  BY DEF ActionStepCommit, Database
<1>keys. Keys(d)
  BY DEF DatabaseInv
<1>a. PICK a0 \in d.actions : ActionIsOpen(a0, c)
  BY DEF UpdateActionOk
<1>x. PICK x0 \in d.runs : RunIsAtExpectedStep(x0, c)
  BY DEF UpdateRunOk
<1>. DEFINE a1 == [a0 EXCEPT !.status = c.action_status]
            x1 == [x0 EXCEPT !.status = c.run_status, !.step = c.next]
<1>open. /\ a0.id = c.action_id /\ a0.run = c.run_id /\ a0.status \in OpenStatus
         /\ x0.id = c.run_id /\ x0.step = c.expected
  BY <1>a, <1>x DEF ActionIsOpen, RunIsAtExpectedStep
<1>a1. /\ a1.id = c.action_id /\ a1.run = c.run_id /\ a1.order = a0.order
       /\ a1.status = c.action_status
       /\ x1.id = c.run_id /\ x1.step = c.next
  BY <1>types, <1>open DEF ActionRow, RunRow
<1>actions. w.actions = (d.actions \ {a0}) \cup {a1}
  <2>1. \A a \in d.actions : ActionIsOpen(a, c) <=> a = a0
    BY <1>a, <1>keys DEF Keys, ActionIsOpen
  <2>. QED
    BY <2>1 DEF Stepped, UpdateAction, Database
<1>runs. w.runs = (d.runs \ {x0}) \cup {x1}
  <2>1. \A x \in d.runs : RunIsAtExpectedStep(x, c) <=> x = x0
    BY <1>x, <1>keys DEF Keys, RunIsAtExpectedStep
  <2>2. w.runs = {IF RunIsAtExpectedStep(x, c)
                  THEN [x EXCEPT !.status = c.run_status, !.step = c.next] ELSE x :
                     x \in d.runs}
    BY DEF Stepped, UpdateRun, Database
  <2>3. w.runs = {IF x = x0 THEN x1 ELSE x : x \in d.runs}
    BY <2>1, <2>2
  <2>. QED
    BY <2>3
<1>rows. /\ w.outcomes = d.outcomes \cup {c.outcome}
         /\ w.checkpoints = d.checkpoints \cup {c.checkpoint}
         /\ w.audits = d.audits \cup {c.audit}
  BY DEF Stepped
<1>terminal. a1.status \in TerminalStatus /\ a1.status \notin OpenStatus
  BY <1>valid, <1>a1 DEF TerminalStatus, OpenStatus
<1>only. \A a \in d.actions : a.run = c.run_id => a = a0
  BY <1>keys, <1>open DEF Keys
<1>. HIDE DEF a1, x1
<1>1. Keys(w)
  BY <1>keys, <1>open, <1>a1, <1>actions, <1>runs DEF Keys
<1>2. References(w)
  <2>1. \A r : (\E x \in d.runs : x.id = r) => \E x \in w.runs : x.id = r
    BY <1>open, <1>a1, <1>runs
  <2>. QED
    BY <2>1, <1>valid, <1>open, <1>a1, <1>actions, <1>rows DEF DatabaseInv, References
<1>3. ProgressAgrees(w)
  <2>. SUFFICES ASSUME NEW x \in w.runs
                PROVE  \E k \in LatestCheckpoints(w, x.id) :
                          /\ k.step = x.step
                          /\ k.state.current_step = x.step
                          /\ k.state.pending = k.pending
                          /\ k.pending # None => \E a \in ActionsOf(w, x.id) : a.id = k.pending
                          /\ \A a \in ActionsOf(w, x.id) :
                                IF a.status \in OpenStatus
                                THEN k.pending = a.id
                                ELSE k.last = a.id /\ a.id \in k.state.completed
    BY DEF ProgressAgrees
  <2>1. CASE x = x1
    <3>1. PICK k0 \in LatestCheckpoints(d, c.run_id) : k0.step = c.expected
      BY <1>open DEF DatabaseInv, ProgressAgrees
    <3>2. \A j \in d.checkpoints : j.run = c.run_id => j.step \in Nat /\ j.step <= c.expected
      BY <3>1, <1>types DEF LatestCheckpoints, CheckpointRow
    <3>3. \A j \in w.checkpoints : j.run = c.run_id => j.step <= c.next
      BY <3>2, <1>valid, <1>types, <1>rows
    <3>4. c.checkpoint \in LatestCheckpoints(w, x.id)
      BY <3>3, <2>1, <1>valid, <1>a1, <1>rows DEF LatestCheckpoints
    <3>5. ActionsOf(w, x.id) = {a1}
      BY <2>1, <1>only, <1>a1, <1>actions DEF ActionsOf
    <3>. QED
      BY <2>1, <3>4, <3>5, <1>valid, <1>a1, <1>terminal
  <2>2. CASE x \in d.runs \ {x0}
    <3>1. x.id # c.run_id
      BY <2>2, <1>keys, <1>open DEF Keys
    <3>2. LatestCheckpoints(w, x.id) = LatestCheckpoints(d, x.id)
      BY <3>1, <1>valid, <1>rows DEF LatestCheckpoints
    <3>3. ActionsOf(w, x.id) = ActionsOf(d, x.id)
      BY <3>1, <1>open, <1>a1, <1>actions DEF ActionsOf
    <3>. QED
      BY <2>2, <3>2, <3>3 DEF DatabaseInv, ProgressAgrees
  <2>. QED
    BY <2>1, <2>2, <1>runs
<1>4. OneVerdict(w)
  <2>1. \A o \in d.outcomes : o.action # c.action_id
    <3>1. ASSUME NEW o \in d.outcomes, o.action = c.action_id
          PROVE  FALSE
      <4>1. PICK a \in d.actions : a.id = o.action /\ a.status \in TerminalStatus
        BY DEF DatabaseInv, OneVerdict, TerminalStatus
      <4>2. a = a0
        BY <4>1, <3>1, <1>keys, <1>open DEF Keys
      <4>. QED
        BY <4>1, <4>2, <1>open DEF OpenStatus, TerminalStatus
    <3>. QED
      BY <3>1
  <2>2. \A a \in w.actions :
          a.status \in TerminalStatus => \E o \in w.outcomes : o.action = a.id
    BY <1>valid, <1>a1, <1>actions, <1>rows DEF DatabaseInv, OneVerdict
  <2>3. ASSUME NEW o \in w.outcomes
        PROVE  \E a \in w.actions :
                  /\ a.id = o.action
                  /\ a.status = IF o.success THEN "succeeded" ELSE "failed"
    <3>1. CASE o = c.outcome
      BY <3>1, <1>valid, <1>a1, <1>actions
    <3>2. CASE o \in d.outcomes
      BY <3>2, <2>1, <1>open, <1>actions DEF DatabaseInv, OneVerdict
    <3>. QED
      BY <3>1, <3>2, <1>rows
  <2>4. \A o, q \in w.outcomes : o.action = q.action => o = q
    BY <2>1, <1>valid, <1>rows DEF DatabaseInv, OneVerdict
  <2>. QED
    BY <2>2, <2>3, <2>4 DEF OneVerdict
<1>5. TimelineTells(w)
  <2>1. \A a \in d.actions : \E b \in w.actions :
          b.id = a.id /\ b.run = a.run /\ b.order = a.order
    BY <1>open, <1>a1, <1>actions
  <2>2. \A b \in w.actions : \E a \in d.actions : b.id = a.id /\ b.run = a.run
    BY <1>open, <1>a1, <1>actions
  <2>3. ASSUME NEW e \in w.audits
        PROVE  \/ \E a \in ActionsOf(w, e.run) : a.id = e.target /\ a.order = e.seq
               \/ \E o \in OutcomesOf(w, e.run) : o.id = e.target /\ o.order = e.seq
    <3>1. CASE e = c.audit
      <4>1. a1 \in ActionsOf(w, c.run_id)
        BY <1>a1, <1>actions DEF ActionsOf
      <4>2. c.outcome \in OutcomesOf(w, c.run_id)
        BY <4>1, <1>valid, <1>a1, <1>rows DEF OutcomesOf
      <4>. QED
        BY <3>1, <4>2, <1>valid
    <3>2. CASE e \in d.audits
      <4>1. CASE \E a \in ActionsOf(d, e.run) : a.id = e.target /\ a.order = e.seq
        BY <4>1, <2>1 DEF ActionsOf
      <4>2. CASE \E o \in OutcomesOf(d, e.run) : o.id = e.target /\ o.order = e.seq
        <5>1. PICK o \in OutcomesOf(d, e.run) : o.id = e.target /\ o.order = e.seq
          BY <4>2
        <5>2. o \in OutcomesOf(w, e.run)
          BY <5>1, <2>1, <1>rows DEF OutcomesOf, ActionsOf
        <5>. QED
          BY <5>1, <5>2
      <4>. QED
        BY <3>2, <4>1, <4>2 DEF DatabaseInv, TimelineTells
    <3>. QED
      BY <3>1, <3>2, <1>rows
  <2>4. \A a \in w.actions : \E e \in TimelineOf(w, a.run) : e.target = a.id
    <3>1. \A a \in d.actions : \E e \in TimelineOf(d, a.run) : e.target = a.id
      BY DEF DatabaseInv, TimelineTells
    <3>. QED
      BY <3>1, <2>2, <1>rows DEF TimelineOf
  <2>5. \A o \in w.outcomes : \E e \in w.audits : e.target = o.id
    BY <1>valid, <1>rows DEF DatabaseInv, TimelineTells
  <2>6. \A e, f \in w.audits : (e.run = f.run /\ e.seq = f.seq) => e = f
    BY <1>rows DEF DatabaseInv, TimelineTells
  <2>. QED
    BY <2>3, <2>4, <2>5, <2>6 DEF TimelineTells
<1>. QED
  BY <1>1, <1>2, <1>3, <1>4, <1>5 DEF DatabaseInv

---------------------------------------------------------------------------
(* The invariant of a transaction in progress: what its work copy has      *)
(* become since the snapshot, and which guards it has passed.              *)

FreshRun(d, c)    == \A x \in d.runs : x.id # c.run.id
FreshAction(d, c) == \A x \in d.actions : x.id # c.action.id

StageProgress(p) ==
    /\ pc[p] \in {"stage_devices", "stage_run"} => Grown(work[p], snap[p], {}, {}, {}, {})
    /\ pc[p] = "stage_action" =>
          /\ FreshRun(snap[p], call[p])
          /\ Grown(work[p], snap[p], {call[p].run}, {}, {}, {})
    /\ pc[p] = "stage_checkpoint" =>
          /\ FreshRun(snap[p], call[p]) /\ FreshAction(snap[p], call[p])
          /\ Grown(work[p], snap[p], {call[p].run}, {call[p].action}, {}, {})
    /\ pc[p] = "stage_audit" =>
          /\ FreshRun(snap[p], call[p]) /\ FreshAction(snap[p], call[p])
          /\ Grown(work[p], snap[p], {call[p].run}, {call[p].action}, {call[p].checkpoint}, {})
    /\ pc[p] = "stage_commit" =>
          /\ FreshRun(snap[p], call[p]) /\ FreshAction(snap[p], call[p])
          /\ Grown(work[p], snap[p], {call[p].run}, {call[p].action}, {call[p].checkpoint},
                   {call[p].audit})

\* The tables of w beside those of d, with some rows added or updated.
Tables(w, runs, actions, outcomes, checkpoints, audits) ==
    /\ w.runs = runs
    /\ w.actions = actions
    /\ w.outcomes = outcomes
    /\ w.checkpoints = checkpoints
    /\ w.audits = audits

CommitProgress(p) ==
    LET c == call[p]
        d == snap[p]
        w == work[p]
        os == d.outcomes \cup {c.outcome}
        ks == d.checkpoints \cup {c.checkpoint}
    IN  /\ pc[p] = "update_action" =>
              Tables(w, d.runs, d.actions, d.outcomes, d.checkpoints, d.audits)
        /\ pc[p] = "insert_outcome" =>
              /\ UpdateActionOk(d, c)
              /\ Tables(w, d.runs, UpdateAction(d, c).actions, d.outcomes, d.checkpoints,
                        d.audits)
        /\ pc[p] = "update_run" =>
              /\ UpdateActionOk(d, c)
              /\ Tables(w, d.runs, UpdateAction(d, c).actions, os, d.checkpoints, d.audits)
        /\ pc[p] = "insert_checkpoint" =>
              /\ UpdateActionOk(d, c) /\ UpdateRunOk(d, c)
              /\ Tables(w, UpdateRun(d, c).runs, UpdateAction(d, c).actions, os,
                        d.checkpoints, d.audits)
        /\ pc[p] = "insert_audit" =>
              /\ UpdateActionOk(d, c) /\ UpdateRunOk(d, c)
              /\ Tables(w, UpdateRun(d, c).runs, UpdateAction(d, c).actions, os, ks, d.audits)
        /\ pc[p] = "step_commit" =>
              /\ UpdateActionOk(d, c) /\ UpdateRunOk(d, c)
              /\ \A e \in d.audits : e.run = c.audit.run => e.seq # c.audit.seq
              /\ Stepped(w, d, c)

Validated(p) == pc[p] # "idle" => Valid(call[p])

ProcessInv(p) == Validated(p) /\ StageProgress(p) /\ CommitProgress(p)

SafetyInv ==
    /\ TypeInv
    /\ DatabaseInv(db)
    /\ \A p \in Procs : ProcessInv(p)

LEMMA InitSafetyInv == Init => SafetyInv
<1>. SUFFICES ASSUME Init PROVE SafetyInv
  OBVIOUS
<1>1. DatabaseInv(db)
  BY DEF Init, EmptyDatabase, DatabaseInv, Keys, References, ProgressAgrees, OneVerdict,
         TimelineTells
<1>2. \A p \in Procs : ProcessInv(p)
  BY DEF Init, ProcessInv, Validated, StageProgress, CommitProgress
<1>. QED
  BY <1>1, <1>2, InitTypeInv DEF SafetyInv

\* A step of p leaves the local variables of every other process alone.
LEMMA Frame ==
    ASSUME TypeInv, NEW p \in Procs, Call(p) \/ Progress(p) \/ Abandon(p),
           NEW q \in Procs, q # p
    PROVE  pc'[q] = pc[q] /\ call'[q] = call[q] /\ snap'[q] = snap[q] /\ work'[q] = work[q]
<1>. USE DEF TypeInv, TypeOK
<1>1. ASSUME NEW res, Return(p, res)
      PROVE  pc'[q] = pc[q] /\ call'[q] = call[q] /\ snap'[q] = snap[q] /\ work'[q] = work[q]
  BY <1>1 DEF Return
<1>2. ASSUME NEW here, NEW next, NEW ok, NEW after, NEW error,
             Statement(p, here, next, ok, after, error)
      PROVE  pc'[q] = pc[q] /\ call'[q] = call[q] /\ snap'[q] = snap[q] /\ work'[q] = work[q]
  BY <1>1, <1>2 DEF Statement
<1>3. ASSUME NEW here, NEW next, NEW value, Load(p, here, next, value)
      PROVE  pc'[q] = pc[q] /\ call'[q] = call[q] /\ snap'[q] = snap[q] /\ work'[q] = work[q]
  BY <1>3 DEF Load
<1>4. CASE Call(p)
  BY <1>4 DEF Call
<1>5. CASE Begin(p)
  BY <1>5 DEF Begin
<1>6. CASE StageStep(p)
  BY <1>2, <1>6 DEF StageStep, StageDevices, StageRun, StageAction, StageCheckpoint, StageAudit
<1>7. CASE CommitStep(p)
  BY <1>2, <1>7 DEF CommitStep, CommitUpdateAction, CommitInsertOutcome, CommitUpdateRun,
                    CommitInsertCheckpoint, CommitInsertAudit
<1>8. CASE RestoreStep(p)
  BY <1>1, <1>3, <1>8 DEF RestoreStep, LoadRun, LoadCheckpoint, LoadMissing, LoadCounts,
                          LoadTimeline
<1>9. CASE CommitAcknowledged(p) \/ CommitUnacknowledged(p)
  BY <1>1, <1>9 DEF CommitAcknowledged, CommitUnacknowledged
<1>10. CASE SerializationFailure(p)
  BY <1>1, <1>10 DEF SerializationFailure
<1>11. CASE Retry(p)
  BY <1>11 DEF Retry
<1>12. CASE Abandon(p)
  BY <1>1, <1>12 DEF Abandon
<1>. QED
  BY <1>4, <1>5, <1>6, <1>7, <1>8, <1>9, <1>10, <1>11, <1>12 DEF Progress

\* A process that is idle, about to begin or asleep has no transaction.
LEMMA OutsideInv ==
    ASSUME TypeInv, NEW p \in Procs, pc'[p] \in {"idle", "begin", "backoff"} \cup RestorePoints,
           pc'[p] # "idle" => Valid(call'[p])
    PROVE  ProcessInv(p)'
  BY DEF ProcessInv, Validated, StageProgress, CommitProgress, RestorePoints

LEMMA ReturnInv ==
    ASSUME TypeInv, NEW p \in Procs, NEW res, Return(p, res)
    PROVE  ProcessInv(p)'
<1>1. pc'[p] = "idle"
  BY DEF Return, TypeInv, TypeOK
<1>. QED
  BY <1>1, OutsideInv

LEMMA StatementSteps ==
    ASSUME TypeInv, NEW p \in Procs, NEW here, NEW next, NEW ok, NEW after, NEW error,
           Statement(p, here, next, ok, after, error)
    PROVE  /\ pc[p] = here
           /\ \/ ProcessInv(p)'
              \/ /\ ok
                 /\ pc'[p] = next /\ work'[p] = after
                 /\ call'[p] = call[p] /\ snap'[p] = snap[p]
<1>1. CASE ok
  BY <1>1 DEF Statement, TypeInv, TypeOK
<1>2. CASE ~ok
  BY <1>2, ReturnInv DEF Statement
<1>. QED
  BY <1>1, <1>2

LEMMA StageStepInv ==
    ASSUME SafetyInv, NEW p \in Procs, StageStep(p)
    PROVE  ProcessInv(p)'
<1>type. TypeInv /\ work[p] \in Database /\ snap[p] \in Database
  BY DEF SafetyInv, TypeInv, TypeOK
<1>old. Validated(p) /\ StageProgress(p)
  BY DEF SafetyInv, ProcessInv
<1>. SUFFICES ASSUME ~ProcessInv(p)' PROVE FALSE
  OBVIOUS
<1>1. CASE StageDevices(p)
  <2>1. /\ pc[p] = "stage_devices" /\ pc'[p] = "stage_run"
        /\ work'[p] = UpsertDevices(work[p], call[p].devices)
        /\ call'[p] = call[p] /\ snap'[p] = snap[p]
    BY <1>1, <1>type, StatementSteps DEF StageDevices
  <2>2. Grown(work'[p], snap'[p], {}, {}, {}, {})
    BY <2>1, <1>type, <1>old DEF StageProgress, Grown, UpsertDevices, Database
  <2>. QED
    BY <2>1, <2>2, <1>old DEF ProcessInv, Validated, StageProgress, CommitProgress
<1>2. CASE StageRun(p)
  <2>1. /\ pc[p] = "stage_run" /\ pc'[p] = "stage_action"
        /\ InsertRunOk(work[p], call[p].run)
        /\ work'[p] = InsertRun(work[p], call[p].run)
        /\ call'[p] = call[p] /\ snap'[p] = snap[p]
    BY <1>2, <1>type, StatementSteps DEF StageRun
  <2>2. FreshRun(snap'[p], call'[p])
    BY <2>1, <1>old DEF StageProgress, Grown, InsertRunOk, FreshRun
  <2>3. Grown(work'[p], snap'[p], {call'[p].run}, {}, {}, {})
    BY <2>1, <1>type, <1>old DEF StageProgress, Grown, InsertRun, Database
  <2>. QED
    BY <2>1, <2>2, <2>3, <1>old DEF ProcessInv, Validated, StageProgress, CommitProgress
<1>3. CASE StageAction(p)
  <2>1. /\ pc[p] = "stage_action" /\ pc'[p] = "stage_checkpoint"
        /\ InsertActionOk(work[p], call[p].action)
        /\ work'[p] = InsertAction(work[p], call[p].action)
        /\ call'[p] = call[p] /\ snap'[p] = snap[p]
    BY <1>3, <1>type, StatementSteps DEF StageAction
  <2>2. FreshRun(snap'[p], call'[p]) /\ FreshAction(snap'[p], call'[p])
    BY <2>1, <1>old DEF StageProgress, Grown, InsertActionOk, FreshAction
  <2>3. Grown(work'[p], snap'[p], {call'[p].run}, {call'[p].action}, {}, {})
    BY <2>1, <1>type, <1>old DEF StageProgress, Grown, InsertAction, Database
  <2>. QED
    BY <2>1, <2>2, <2>3, <1>old DEF ProcessInv, Validated, StageProgress, CommitProgress
<1>4. CASE StageCheckpoint(p)
  <2>1. /\ pc[p] = "stage_checkpoint" /\ pc'[p] = "stage_audit"
        /\ work'[p] = InsertCheckpoint(work[p], call[p].checkpoint)
        /\ call'[p] = call[p] /\ snap'[p] = snap[p]
    BY <1>4, <1>type, StatementSteps DEF StageCheckpoint
  <2>2. Grown(work'[p], snap'[p], {call'[p].run}, {call'[p].action},
              {call'[p].checkpoint}, {})
    BY <2>1, <1>type, <1>old DEF StageProgress, Grown, InsertCheckpoint, Database
  <2>. QED
    BY <2>1, <2>2, <1>old DEF ProcessInv, Validated, StageProgress, CommitProgress
<1>5. CASE StageAudit(p)
  <2>1. /\ pc[p] = "stage_audit" /\ pc'[p] = "stage_commit"
        /\ work'[p] = InsertAudit(work[p], call[p].audit)
        /\ call'[p] = call[p] /\ snap'[p] = snap[p]
    BY <1>5, <1>type, StatementSteps DEF StageAudit
  <2>2. Grown(work'[p], snap'[p], {call'[p].run}, {call'[p].action},
              {call'[p].checkpoint}, {call'[p].audit})
    BY <2>1, <1>type, <1>old DEF StageProgress, Grown, InsertAudit, Database
  <2>. QED
    BY <2>1, <2>2, <1>old DEF ProcessInv, Validated, StageProgress, CommitProgress
<1>. QED
  BY <1>1, <1>2, <1>3, <1>4, <1>5 DEF StageStep

\* An update depends only on the table it updates.
LEMMA UpdatesAreLocal ==
    ASSUME NEW d \in Database, NEW w \in Database, NEW c
    PROVE  /\ w.actions = d.actions =>
                /\ UpdateAction(w, c).actions = UpdateAction(d, c).actions
                /\ UpdateActionOk(w, c) => UpdateActionOk(d, c)
           /\ w.runs = d.runs =>
                /\ UpdateRun(w, c).runs = UpdateRun(d, c).runs
                /\ UpdateRunOk(w, c) => UpdateRunOk(d, c)
  BY DEF UpdateAction, UpdateActionOk, UpdateRun, UpdateRunOk, Database

LEMMA CommitStepInv ==
    ASSUME SafetyInv, NEW p \in Procs, CommitStep(p)
    PROVE  ProcessInv(p)'
<1>type. TypeInv /\ work[p] \in Database /\ snap[p] \in Database
  BY DEF SafetyInv, TypeInv, TypeOK
<1>old. Validated(p) /\ CommitProgress(p)
  BY DEF SafetyInv, ProcessInv
<1>. SUFFICES ASSUME ~ProcessInv(p)' PROVE FALSE
  OBVIOUS
<1>. DEFINE c == call[p]
            d == snap[p]
            os == d.outcomes \cup {c.outcome}
            ks == d.checkpoints \cup {c.checkpoint}
<1>1. CASE CommitUpdateAction(p)
  <2>1. /\ pc[p] = "update_action" /\ pc'[p] = "insert_outcome"
        /\ UpdateActionOk(work[p], c)
        /\ work'[p] = UpdateAction(work[p], c)
        /\ call'[p] = c /\ snap'[p] = d
    BY <1>1, <1>type, StatementSteps DEF CommitUpdateAction
  <2>2. UpdateActionOk(d, c)
    BY <2>1, <1>type, <1>old, UpdatesAreLocal DEF CommitProgress, Tables
  <2>3. Tables(work'[p], d.runs, UpdateAction(d, c).actions, d.outcomes, d.checkpoints,
               d.audits)
    <3>1. UpdateAction(work[p], c).actions = UpdateAction(d, c).actions
      BY <2>1, <1>type, <1>old, UpdatesAreLocal DEF CommitProgress, Tables
    <3>. QED
      BY <3>1, <2>1, <1>type, <1>old DEF CommitProgress, Tables, UpdateAction, Database
  <2>. QED
    BY <2>1, <2>2, <2>3, <1>old DEF ProcessInv, Validated, StageProgress, CommitProgress
<1>2. CASE CommitInsertOutcome(p)
  <2>1. /\ pc[p] = "insert_outcome" /\ pc'[p] = "update_run"
        /\ work'[p] = InsertOutcome(work[p], c.outcome)
        /\ call'[p] = c /\ snap'[p] = d
    BY <1>2, <1>type, StatementSteps DEF CommitInsertOutcome
  <2>2. Tables(work'[p], d.runs, UpdateAction(d, c).actions, os, d.checkpoints, d.audits)
    BY <2>1, <1>type, <1>old DEF CommitProgress, Tables, InsertOutcome, Database
  <2>. QED
    BY <2>1, <2>2, <1>old DEF ProcessInv, Validated, StageProgress, CommitProgress
<1>3. CASE CommitUpdateRun(p)
  <2>1. /\ pc[p] = "update_run" /\ pc'[p] = "insert_checkpoint"
        /\ UpdateRunOk(work[p], c)
        /\ work'[p] = UpdateRun(work[p], c)
        /\ call'[p] = c /\ snap'[p] = d
    BY <1>3, <1>type, StatementSteps DEF CommitUpdateRun
  <2>2. UpdateRunOk(d, c)
    BY <2>1, <1>type, <1>old, UpdatesAreLocal DEF CommitProgress, Tables
  <2>3. Tables(work'[p], UpdateRun(d, c).runs, UpdateAction(d, c).actions, os,
               d.checkpoints, d.audits)
    <3>1. UpdateRun(work[p], c).runs = UpdateRun(d, c).runs
      BY <2>1, <1>type, <1>old, UpdatesAreLocal DEF CommitProgress, Tables
    <3>. QED
      BY <3>1, <2>1, <1>type, <1>old DEF CommitProgress, Tables, UpdateRun, Database
  <2>. QED
    BY <2>1, <2>2, <2>3, <1>old DEF ProcessInv, Validated, StageProgress, CommitProgress
<1>4. CASE CommitInsertCheckpoint(p)
  <2>1. /\ pc[p] = "insert_checkpoint" /\ pc'[p] = "insert_audit"
        /\ work'[p] = InsertCheckpoint(work[p], c.checkpoint)
        /\ call'[p] = c /\ snap'[p] = d
    BY <1>4, <1>type, StatementSteps DEF CommitInsertCheckpoint
  <2>2. Tables(work'[p], UpdateRun(d, c).runs, UpdateAction(d, c).actions, os, ks, d.audits)
    BY <2>1, <1>type, <1>old DEF CommitProgress, Tables, InsertCheckpoint, Database
  <2>. QED
    BY <2>1, <2>2, <1>old DEF ProcessInv, Validated, StageProgress, CommitProgress
<1>5. CASE CommitInsertAudit(p)
  <2>1. /\ pc[p] = "insert_audit" /\ pc'[p] = "step_commit"
        /\ InsertAuditOk(work[p], c.audit)
        /\ work'[p] = InsertAudit(work[p], c.audit)
        /\ call'[p] = c /\ snap'[p] = d
    BY <1>5, <1>type, StatementSteps DEF CommitInsertAudit
  <2>2. \A e \in d.audits : e.run = c.audit.run => e.seq # c.audit.seq
    BY <2>1, <1>old DEF CommitProgress, Tables, InsertAuditOk
  <2>3. Stepped(work'[p], d, c)
    BY <2>1, <1>type, <1>old DEF CommitProgress, Tables, InsertAudit, Stepped, Database
  <2>. QED
    BY <2>1, <2>2, <2>3, <1>old DEF ProcessInv, Validated, StageProgress, CommitProgress
<1>. QED
  BY <1>1, <1>2, <1>3, <1>4, <1>5 DEF CommitStep

LEMMA RestoreStepInv ==
    ASSUME SafetyInv, NEW p \in Procs, RestoreStep(p)
    PROVE  ProcessInv(p)'
<1>type. TypeInv /\ Validated(p)
  BY DEF SafetyInv, ProcessInv
<1>1. ASSUME NEW here \in RestorePoints, NEW next \in RestorePoints, NEW value,
             Load(p, here, next, value)
      PROVE  ProcessInv(p)'
  <2>1. pc[p] = here /\ pc'[p] = next /\ call'[p] = call[p]
    BY <1>1, <1>type DEF Load, TypeInv, TypeOK
  <2>2. Valid(call'[p])
    BY <2>1, <1>type DEF Validated, RestorePoints
  <2>. QED
    BY <2>1, <2>2, <1>type, OutsideInv
<1>2. CASE LoadRun(p)
  BY <1>1, <1>2 DEF LoadRun, RestorePoints
<1>3. CASE LoadCheckpoint(p)
  BY <1>1, <1>3 DEF LoadCheckpoint, RestorePoints
<1>4. CASE LoadMissing(p)
  BY <1>4, <1>type, ReturnInv DEF LoadMissing
<1>5. CASE LoadCounts(p)
  BY <1>1, <1>5 DEF LoadCounts, RestorePoints
<1>6. CASE LoadTimeline(p)
  BY <1>6, <1>type, ReturnInv DEF LoadTimeline
<1>. QED
  BY <1>2, <1>3, <1>4, <1>5, <1>6 DEF RestoreStep

LEMMA BeginInv ==
    ASSUME SafetyInv, NEW p \in Procs, Begin(p)
    PROVE  ProcessInv(p)'
<1>1. TypeInv /\ Validated(p)
  BY DEF SafetyInv, ProcessInv
<1>2. /\ pc[p] = "begin"
      /\ pc'[p] = FirstStatement(call[p])
      /\ snap'[p] = db /\ work'[p] = db /\ call'[p] = call[p]
  BY <1>1 DEF Begin, TypeInv, TypeOK
<1>3. call[p] \in Calls /\ Valid(call[p])
  BY <1>1, <1>2 DEF TypeInv, CallMatchesPoint, Validated
<1>4. pc'[p] \in {"stage_devices", "update_action", "load_run"}
  <2>1. call[p].kind \in {"stage", "commit", "restore"}
    BY <1>3, CallsAssumption DEF Calls, StagedAction, ActionStepCommit, RestoreCalls
  <2>. QED
    BY <2>1, <1>2 DEF FirstStatement
<1>. QED
  BY <1>2, <1>3, <1>4
  DEF ProcessInv, Validated, StageProgress, CommitProgress, Grown, Tables

LEMMA CallInv ==
    ASSUME SafetyInv, NEW p \in Procs, Call(p)
    PROVE  ProcessInv(p)'
<1>1. TypeInv /\ pc[p] = "idle"
  BY DEF SafetyInv, Call
<1>2. PICK c \in Calls :
        IF Valid(c)
        THEN pc' = [pc EXCEPT ![p] = "begin"] /\ call' = [call EXCEPT ![p] = c]
        ELSE UNCHANGED <<pc, call>>
  BY DEF Call
<1>3. \/ pc'[p] = "begin" /\ Valid(call'[p])
      \/ pc'[p] = "idle"
  BY <1>1, <1>2 DEF TypeInv, TypeOK
<1>. QED
  BY <1>1, <1>3, OutsideInv

LEMMA SerializationFailureInv ==
    ASSUME SafetyInv, NEW p \in Procs, SerializationFailure(p)
    PROVE  ProcessInv(p)'
<1>1. TypeInv /\ Validated(p) /\ pc[p] \in InTransaction
  BY DEF SafetyInv, ProcessInv, SerializationFailure
<1>2. CASE attempt[p] + 1 = MaxAttempts
  BY <1>1, <1>2, ReturnInv DEF SerializationFailure
<1>3. CASE attempt[p] + 1 # MaxAttempts
  <2>1. pc'[p] = "backoff" /\ call'[p] = call[p]
    BY <1>1, <1>3 DEF SerializationFailure, TypeInv, TypeOK
  <2>2. Valid(call'[p])
    BY <2>1, <1>1
    DEF Validated, InTransaction, StagePoints, CommitPoints, RestorePoints
  <2>. QED
    BY <2>1, <2>2, <1>1, OutsideInv
<1>. QED
  BY <1>2, <1>3

LEMMA RetryInv ==
    ASSUME SafetyInv, NEW p \in Procs, Retry(p)
    PROVE  ProcessInv(p)'
<1>1. TypeInv /\ Validated(p)
  BY DEF SafetyInv, ProcessInv
<1>2. pc[p] = "backoff" /\ pc'[p] = "begin" /\ call'[p] = call[p]
  BY <1>1 DEF Retry, TypeInv, TypeOK
<1>. QED
  BY <1>1, <1>2, OutsideInv DEF Validated

\* The database changes only when a COMMIT takes effect, and then a complete
\* and validated transaction is added to the database it began from.
LEMMA PublishPreserves ==
    ASSUME SafetyInv, NEW p \in Procs, Publish(p)
    PROVE  DatabaseInv(db')
<1>1. /\ TypeInv /\ DatabaseInv(db) /\ Validated(p) /\ StageProgress(p) /\ CommitProgress(p)
      /\ db \in Database /\ work[p] \in Database
  BY DEF SafetyInv, ProcessInv, TypeInv, TypeOK
<1>2. db = snap[p] /\ db' = work[p] /\ pc[p] \in {"stage_commit", "step_commit"}
  BY DEF Publish
<1>3. Valid(call[p])
  BY <1>1, <1>2 DEF Validated
<1>4. CASE pc[p] = "stage_commit"
  <2>1. call[p] \in StageCalls
    BY <1>1, <1>4 DEF TypeInv, CallMatchesPoint, StagePoints
  <2>2. call[p] \in StagedAction /\ call[p].action.status \in OpenStatus
    BY <2>1, CallsAssumption, StagedOpenAssumption
  <2>3. ValidStaged(call[p])
    BY <2>2, <1>3 DEF Valid, StagedAction
  <2>4. /\ FreshRun(db, call[p]) /\ FreshAction(db, call[p])
        /\ Grown(work[p], db, {call[p].run}, {call[p].action}, {call[p].checkpoint},
                 {call[p].audit})
    BY <1>1, <1>2, <1>4 DEF StageProgress
  <2>. QED
    BY <2>2, <2>3, <2>4, <1>1, <1>2, StagePreserves DEF FreshRun, FreshAction
<1>5. CASE pc[p] = "step_commit"
  <2>1. call[p] \in ActionStepCommit
    BY <1>1, <1>5, CallsAssumption DEF TypeInv, CallMatchesPoint, CommitPoints
  <2>2. ValidCommit(call[p])
    BY <2>1, <1>3 DEF Valid, ActionStepCommit
  <2>3. /\ UpdateActionOk(db, call[p]) /\ UpdateRunOk(db, call[p])
        /\ \A e \in db.audits : e.run = call[p].audit.run => e.seq # call[p].audit.seq
        /\ Stepped(work[p], db, call[p])
    BY <1>1, <1>2, <1>5 DEF CommitProgress
  <2>. QED
    BY <2>1, <2>2, <2>3, <1>1, <1>2, CommitPreserves
<1>. QED
  BY <1>2, <1>4, <1>5

LEMMA DatabaseKept ==
    ASSUME NEW p \in Procs, Call(p) \/ Progress(p) \/ Abandon(p)
    PROVE  Publish(p) \/ db' = db
  BY DEF Progress, Call, Abandon, Begin, StageStep, StageDevices, StageRun, StageAction,
         StageCheckpoint, StageAudit, CommitStep, CommitUpdateAction, CommitInsertOutcome,
         CommitUpdateRun, CommitInsertCheckpoint, CommitInsertAudit, Statement, RestoreStep,
         LoadRun, LoadCheckpoint, LoadMissing, LoadCounts, LoadTimeline, Load,
         CommitAcknowledged, CommitUnacknowledged, SerializationFailure, Retry

LEMMA NextSafetyInv == SafetyInv /\ [Next]_vars => SafetyInv'
<1>. SUFFICES ASSUME SafetyInv, [Next]_vars PROVE SafetyInv'
  OBVIOUS
<1>1. TypeInv /\ TypeInv'
  BY NextTypeInv DEF SafetyInv
<1>2. CASE UNCHANGED vars
  <2>1. /\ db' = db
        /\ \A q \in Procs : /\ pc'[q] = pc[q] /\ call'[q] = call[q]
                             /\ snap'[q] = snap[q] /\ work'[q] = work[q]
    BY <1>2 DEF vars
  <2>2. ASSUME NEW q \in Procs
        PROVE  ProcessInv(q)'
    <3>1. ProcessInv(q)
      BY DEF SafetyInv
    <3>2. pc'[q] = pc[q] /\ call'[q] = call[q] /\ snap'[q] = snap[q] /\ work'[q] = work[q]
      BY <2>1
    <3>. QED
      BY <3>1, <3>2 DEF ProcessInv, Validated, StageProgress, CommitProgress
  <2>. QED
    BY <1>1, <2>1, <2>2 DEF SafetyInv
<1>3. ASSUME NEW p \in Procs, Call(p) \/ Progress(p) \/ Abandon(p)
      PROVE  SafetyInv'
  <2>1. DatabaseInv(db')
    BY <1>3, DatabaseKept, PublishPreserves DEF SafetyInv
  <2>2. ProcessInv(p)'
    <3>1. CASE CommitAcknowledged(p) \/ CommitUnacknowledged(p)
      BY <1>1, <3>1, ReturnInv DEF CommitAcknowledged, CommitUnacknowledged
    <3>2. CASE Abandon(p)
      BY <1>1, <3>2, ReturnInv DEF Abandon
    <3>. QED
      BY <1>3, <3>1, <3>2, CallInv, BeginInv, StageStepInv, CommitStepInv, RestoreStepInv,
         SerializationFailureInv, RetryInv DEF Progress
  <2>3. ASSUME NEW q \in Procs, q # p
        PROVE  ProcessInv(q)'
    <3>1. pc'[q] = pc[q] /\ call'[q] = call[q] /\ snap'[q] = snap[q] /\ work'[q] = work[q]
      BY <1>1, <1>3, <2>3, Frame
    <3>2. ProcessInv(q)
      BY DEF SafetyInv
    <3>. QED
      BY <3>1, <3>2 DEF ProcessInv, Validated, StageProgress, CommitProgress
  <2>. QED
    BY <1>1, <2>1, <2>2, <2>3 DEF SafetyInv
<1>. QED
  BY <1>2, <1>3 DEF Next

LEMMA SafetyInvariant == Spec => []SafetyInv
<1>1. Init => SafetyInv
  BY InitSafetyInv
<1>2. SafetyInv /\ [Next]_vars => SafetyInv'
  BY NextSafetyInv
<1>. QED
  BY <1>1, <1>2, PTL DEF Spec

\* Whatever the callers pass and whoever crashes or retries, a run and its
\* latest checkpoint agree on the step and on what is pending, so a restarted
\* agent that restores the run continues from where it stood.
THEOREM RestorePointsAreConsistent == Spec => []RestorePointConsistent
<1>1. SafetyInv => RestorePointConsistent
  BY DEF SafetyInv, DatabaseInv, RestorePointConsistent
<1>. QED
  BY <1>1, SafetyInvariant, PTL

\* However many callers race to commit an action, it is terminal exactly when
\* it has an outcome, it has only one, and the two agree on the verdict.
THEOREM VerdictsAreUnique == Spec => []OutcomeExactlyOnce
<1>1. SafetyInv => OutcomeExactlyOnce
  BY DEF SafetyInv, DatabaseInv, OutcomeExactlyOnce
<1>. QED
  BY <1>1, SafetyInvariant, PTL

\* The timeline of a run names stored actions and outcomes of that run, each
\* of them once and none twice at one sequence number.
THEOREM TimelinesAreFaithful == Spec => []TimelineFaithful
<1>1. SafetyInv => TimelineFaithful
  BY DEF SafetyInv, DatabaseInv, TimelineFaithful
<1>. QED
  BY <1>1, SafetyInvariant, PTL

---------------------------------------------------------------------------
(* Where a step takes its process.                                         *)

OutsidePoints == {"idle", "begin", "backoff"}

\* A statement ends the call, or moves the work copy of its process on.
LEMMA StatementMoves ==
    ASSUME TypeInv, NEW p \in Procs, NEW here, NEW next, NEW ok, NEW after, NEW error,
           Statement(p, here, next, ok, after, error)
    PROVE  /\ pc[p] = here
           /\ db' = db
           /\ \/ pc'[p] = "idle"
              \/ /\ ok
                 /\ pc'[p] = next /\ work'[p] = after
                 /\ call'[p] = call[p] /\ snap'[p] = snap[p]
<1>1. CASE ok
  BY <1>1 DEF Statement, TypeInv, TypeOK
<1>2. CASE ~ok
  BY <1>2 DEF Statement, Return, TypeInv, TypeOK
<1>. QED
  BY <1>1, <1>2

\* Every other step but Begin leaves its process outside a writing transaction.
LEMMA OtherMoves ==
    ASSUME TypeInv, NEW p \in Procs,
           Call(p) \/ Progress(p) \/ Abandon(p),
           ~Begin(p), ~StageStep(p), ~CommitStep(p)
    PROVE  pc'[p] \in OutsidePoints \cup RestorePoints
<1>. USE DEF TypeInv, TypeOK, OutsidePoints, RestorePoints
<1>1. ASSUME NEW res, Return(p, res) PROVE pc'[p] = "idle"
  BY <1>1 DEF Return
<1>2. ASSUME NEW here, NEW next, NEW value, Load(p, here, next, value)
      PROVE  pc'[p] = next
  BY <1>2 DEF Load
<1>3. CASE Call(p)
  BY <1>3 DEF Call
<1>4. CASE RestoreStep(p)
  BY <1>1, <1>2, <1>4 DEF RestoreStep, LoadRun, LoadCheckpoint, LoadMissing, LoadCounts,
                          LoadTimeline
<1>5. CASE CommitAcknowledged(p) \/ CommitUnacknowledged(p)
  BY <1>1, <1>5 DEF CommitAcknowledged, CommitUnacknowledged
<1>6. CASE SerializationFailure(p)
  BY <1>1, <1>6 DEF SerializationFailure
<1>7. CASE Retry(p)
  BY <1>7 DEF Retry
<1>8. CASE Abandon(p)
  BY <1>1, <1>8 DEF Abandon
<1>. QED
  BY <1>3, <1>4, <1>5, <1>6, <1>7, <1>8 DEF Progress

LEMMA BeginMoves ==
    ASSUME TypeInv, NEW p \in Procs, Begin(p)
    PROVE  /\ pc'[p] \in {"stage_devices", "update_action", "load_run"}
           /\ snap'[p] = db /\ work'[p] = db /\ call'[p] = call[p] /\ db' = db
           /\ loaded'[p] = NothingLoaded
<1>1. /\ pc'[p] = FirstStatement(call[p])
      /\ snap'[p] = db /\ work'[p] = db /\ call'[p] = call[p] /\ db' = db
      /\ loaded'[p] = NothingLoaded
  BY DEF Begin, TypeInv, TypeOK
<1>2. call[p].kind \in {"stage", "commit", "restore"}
  BY CallsAssumption
  DEF Begin, TypeInv, CallMatchesPoint, Calls, StagedAction, ActionStepCommit, RestoreCalls
<1>. QED
  BY <1>1, <1>2 DEF FirstStatement

---------------------------------------------------------------------------
(* A transaction is at every point the whole call up to there, applied to  *)
(* its snapshot: every statement before it was accepted, and the work copy *)
(* is what they made of the snapshot.                                      *)

DevicesStaged(d, c)    == UpsertDevices(d, c.devices)
RunStaged(d, c)        == InsertRun(DevicesStaged(d, c), c.run)
ActionStaged(d, c)     == InsertAction(RunStaged(d, c), c.action)
CheckpointStaged(d, c) == InsertCheckpoint(ActionStaged(d, c), c.checkpoint)

StageSoFar(pt, d, c, w) ==
    /\ pt = "stage_devices" => w = d
    /\ pt = "stage_run" => w = DevicesStaged(d, c)
    /\ pt \in {"stage_action", "stage_checkpoint", "stage_audit", "stage_commit"} =>
          InsertRunOk(DevicesStaged(d, c), c.run)
    /\ pt = "stage_action" => w = RunStaged(d, c)
    /\ pt \in {"stage_checkpoint", "stage_audit", "stage_commit"} =>
          InsertActionOk(RunStaged(d, c), c.action)
    /\ pt = "stage_checkpoint" => w = ActionStaged(d, c)
    /\ pt \in {"stage_audit", "stage_commit"} =>
          InsertCheckpointOk(ActionStaged(d, c), c.checkpoint)
    /\ pt = "stage_audit" => w = CheckpointStaged(d, c)
    /\ pt = "stage_commit" => /\ InsertAuditOk(CheckpointStaged(d, c), c.audit)
                              /\ w = InsertAudit(CheckpointStaged(d, c), c.audit)

ActionUpdated(d, c)       == UpdateAction(d, c)
OutcomeCommitted(d, c)    == InsertOutcome(ActionUpdated(d, c), c.outcome)
RunUpdated(d, c)          == UpdateRun(OutcomeCommitted(d, c), c)
CheckpointCommitted(d, c) == InsertCheckpoint(RunUpdated(d, c), c.checkpoint)

CommitSoFar(pt, d, c, w) ==
    /\ pt = "update_action" => w = d
    /\ pt \in CommitPoints \ {"update_action"} => UpdateActionOk(d, c)
    /\ pt = "insert_outcome" => w = ActionUpdated(d, c)
    /\ pt \in CommitPoints \ {"update_action", "insert_outcome"} =>
          InsertOutcomeOk(ActionUpdated(d, c), c.outcome)
    /\ pt = "update_run" => w = OutcomeCommitted(d, c)
    /\ pt \in {"insert_checkpoint", "insert_audit", "step_commit"} =>
          UpdateRunOk(OutcomeCommitted(d, c), c)
    /\ pt = "insert_checkpoint" => w = RunUpdated(d, c)
    /\ pt \in {"insert_audit", "step_commit"} =>
          InsertCheckpointOk(RunUpdated(d, c), c.checkpoint)
    /\ pt = "insert_audit" => w = CheckpointCommitted(d, c)
    /\ pt = "step_commit" => /\ InsertAuditOk(CheckpointCommitted(d, c), c.audit)
                             /\ w = InsertAudit(CheckpointCommitted(d, c), c.audit)

WholeSoFar(p) ==
    /\ StageSoFar(pc[p], snap[p], call[p], work[p])
    /\ CommitSoFar(pc[p], snap[p], call[p], work[p])

WholeInv == TypeInv /\ \A p \in Procs : WholeSoFar(p)

LEMMA OutsideWhole ==
    ASSUME NEW p \in Procs, pc'[p] \in OutsidePoints \cup RestorePoints
    PROVE  WholeSoFar(p)'
  BY DEF WholeSoFar, StageSoFar, CommitSoFar, OutsidePoints, RestorePoints, CommitPoints

LEMMA StageStepWhole ==
    ASSUME WholeInv, NEW p \in Procs, StageStep(p)
    PROVE  WholeSoFar(p)'
<1>old. TypeInv /\ StageSoFar(pc[p], snap[p], call[p], work[p])
  BY DEF WholeInv, WholeSoFar
<1>. SUFFICES ASSUME pc'[p] # "idle" PROVE WholeSoFar(p)'
  BY OutsideWhole DEF OutsidePoints
<1>1. CASE StageDevices(p)
  <2>1. /\ pc[p] = "stage_devices" /\ pc'[p] = "stage_run"
        /\ work'[p] = UpsertDevices(work[p], call[p].devices)
        /\ call'[p] = call[p] /\ snap'[p] = snap[p]
    BY <1>1, <1>old, StatementMoves DEF StageDevices
  <2>. QED
    BY <2>1, <1>old DEF WholeSoFar, StageSoFar, CommitSoFar, CommitPoints, DevicesStaged
<1>2. CASE StageRun(p)
  <2>1. /\ pc[p] = "stage_run" /\ pc'[p] = "stage_action"
        /\ InsertRunOk(work[p], call[p].run)
        /\ work'[p] = InsertRun(work[p], call[p].run)
        /\ call'[p] = call[p] /\ snap'[p] = snap[p]
    BY <1>2, <1>old, StatementMoves DEF StageRun
  <2>. QED
    BY <2>1, <1>old DEF WholeSoFar, StageSoFar, CommitSoFar, CommitPoints, RunStaged
<1>3. CASE StageAction(p)
  <2>1. /\ pc[p] = "stage_action" /\ pc'[p] = "stage_checkpoint"
        /\ InsertActionOk(work[p], call[p].action)
        /\ work'[p] = InsertAction(work[p], call[p].action)
        /\ call'[p] = call[p] /\ snap'[p] = snap[p]
    BY <1>3, <1>old, StatementMoves DEF StageAction
  <2>. QED
    BY <2>1, <1>old DEF WholeSoFar, StageSoFar, CommitSoFar, CommitPoints, ActionStaged
<1>4. CASE StageCheckpoint(p)
  <2>1. /\ pc[p] = "stage_checkpoint" /\ pc'[p] = "stage_audit"
        /\ InsertCheckpointOk(work[p], call[p].checkpoint)
        /\ work'[p] = InsertCheckpoint(work[p], call[p].checkpoint)
        /\ call'[p] = call[p] /\ snap'[p] = snap[p]
    BY <1>4, <1>old, StatementMoves DEF StageCheckpoint
  <2>. QED
    BY <2>1, <1>old DEF WholeSoFar, StageSoFar, CommitSoFar, CommitPoints, CheckpointStaged
<1>5. CASE StageAudit(p)
  <2>1. /\ pc[p] = "stage_audit" /\ pc'[p] = "stage_commit"
        /\ InsertAuditOk(work[p], call[p].audit)
        /\ work'[p] = InsertAudit(work[p], call[p].audit)
        /\ call'[p] = call[p] /\ snap'[p] = snap[p]
    BY <1>5, <1>old, StatementMoves DEF StageAudit
  <2>. QED
    BY <2>1, <1>old DEF WholeSoFar, StageSoFar, CommitSoFar, CommitPoints
<1>. QED
  BY <1>1, <1>2, <1>3, <1>4, <1>5 DEF StageStep

LEMMA CommitStepWhole ==
    ASSUME WholeInv, NEW p \in Procs, CommitStep(p)
    PROVE  WholeSoFar(p)'
<1>old. TypeInv /\ CommitSoFar(pc[p], snap[p], call[p], work[p])
  BY DEF WholeInv, WholeSoFar
<1>. SUFFICES ASSUME pc'[p] # "idle" PROVE WholeSoFar(p)'
  BY OutsideWhole DEF OutsidePoints
<1>1. CASE CommitUpdateAction(p)
  <2>1. /\ pc[p] = "update_action" /\ pc'[p] = "insert_outcome"
        /\ UpdateActionOk(work[p], call[p])
        /\ work'[p] = UpdateAction(work[p], call[p])
        /\ call'[p] = call[p] /\ snap'[p] = snap[p]
    BY <1>1, <1>old, StatementMoves DEF CommitUpdateAction
  <2>. QED
    BY <2>1, <1>old DEF WholeSoFar, StageSoFar, CommitSoFar, CommitPoints, ActionUpdated
<1>2. CASE CommitInsertOutcome(p)
  <2>1. /\ pc[p] = "insert_outcome" /\ pc'[p] = "update_run"
        /\ InsertOutcomeOk(work[p], call[p].outcome)
        /\ work'[p] = InsertOutcome(work[p], call[p].outcome)
        /\ call'[p] = call[p] /\ snap'[p] = snap[p]
    BY <1>2, <1>old, StatementMoves DEF CommitInsertOutcome
  <2>. QED
    BY <2>1, <1>old DEF WholeSoFar, StageSoFar, CommitSoFar, CommitPoints, OutcomeCommitted
<1>3. CASE CommitUpdateRun(p)
  <2>1. /\ pc[p] = "update_run" /\ pc'[p] = "insert_checkpoint"
        /\ UpdateRunOk(work[p], call[p])
        /\ work'[p] = UpdateRun(work[p], call[p])
        /\ call'[p] = call[p] /\ snap'[p] = snap[p]
    BY <1>3, <1>old, StatementMoves DEF CommitUpdateRun
  <2>. QED
    BY <2>1, <1>old DEF WholeSoFar, StageSoFar, CommitSoFar, CommitPoints, RunUpdated
<1>4. CASE CommitInsertCheckpoint(p)
  <2>1. /\ pc[p] = "insert_checkpoint" /\ pc'[p] = "insert_audit"
        /\ InsertCheckpointOk(work[p], call[p].checkpoint)
        /\ work'[p] = InsertCheckpoint(work[p], call[p].checkpoint)
        /\ call'[p] = call[p] /\ snap'[p] = snap[p]
    BY <1>4, <1>old, StatementMoves DEF CommitInsertCheckpoint
  <2>. QED
    BY <2>1, <1>old DEF WholeSoFar, StageSoFar, CommitSoFar, CommitPoints, CheckpointCommitted
<1>5. CASE CommitInsertAudit(p)
  <2>1. /\ pc[p] = "insert_audit" /\ pc'[p] = "step_commit"
        /\ InsertAuditOk(work[p], call[p].audit)
        /\ work'[p] = InsertAudit(work[p], call[p].audit)
        /\ call'[p] = call[p] /\ snap'[p] = snap[p]
    BY <1>5, <1>old, StatementMoves DEF CommitInsertAudit
  <2>. QED
    BY <2>1, <1>old DEF WholeSoFar, StageSoFar, CommitSoFar, CommitPoints
<1>. QED
  BY <1>1, <1>2, <1>3, <1>4, <1>5 DEF CommitStep

LEMMA NextWholeInv == WholeInv /\ [Next]_vars => WholeInv'
<1>. SUFFICES ASSUME WholeInv, [Next]_vars PROVE WholeInv'
  OBVIOUS
<1>type. TypeInv /\ TypeInv'
  BY NextTypeInv DEF WholeInv
<1>1. CASE UNCHANGED vars
  BY <1>1, <1>type DEF vars, WholeInv, WholeSoFar
<1>2. ASSUME NEW p \in Procs, Call(p) \/ Progress(p) \/ Abandon(p)
      PROVE  WholeInv'
  <2>1. WholeSoFar(p)'
    <3>1. CASE Begin(p)
      BY <3>1, <1>type, BeginMoves DEF WholeSoFar, StageSoFar, CommitSoFar, CommitPoints
    <3>. QED
      BY <1>2, <1>type, <3>1, StageStepWhole, CommitStepWhole, OtherMoves, OutsideWhole
  <2>2. ASSUME NEW q \in Procs, q # p PROVE WholeSoFar(q)'
    BY <1>2, <1>type, <2>2, Frame DEF WholeInv, WholeSoFar
  <2>. QED
    BY <1>type, <2>1, <2>2 DEF WholeInv
<1>. QED
  BY <1>1, <1>2 DEF Next

LEMMA WholeInvariant == Spec => []WholeInv
<1>1. Init => WholeInv
  BY InitTypeInv DEF Init, WholeInv, WholeSoFar, StageSoFar, CommitSoFar, CommitPoints
<1>. QED
  BY <1>1, NextWholeInv, PTL DEF Spec

\* When a transaction is ready for COMMIT, its statements, run one by one and
\* each free to refuse, have made of the snapshot exactly what the call does
\* as a whole; and at a staging call's end every constraint held.
THEOREM TransactionsEndWhole == Spec => []TransactionsAreWhole
<1>1. WholeInv => TransactionsAreWhole
  <2>. SUFFICES ASSUME WholeInv, NEW p \in Procs
                PROVE  /\ pc[p] = "stage_commit" =>
                            SqlStaged(snap[p], call[p]) = Accepted(work[p])
                       /\ pc[p] = "step_commit" =>
                            SqlCommitted(snap[p], call[p]) = Accepted(work[p])
    BY DEF TransactionsAreWhole
  <2>1. ASSUME pc[p] = "stage_commit"
        PROVE  SqlStaged(snap[p], call[p]) = Accepted(work[p])
    BY <2>1 DEF WholeInv, WholeSoFar, StageSoFar, SqlStaged, DevicesStaged, RunStaged,
                ActionStaged, CheckpointStaged
  <2>2. ASSUME pc[p] = "step_commit"
        PROVE  SqlCommitted(snap[p], call[p]) = Accepted(work[p])
    BY <2>2 DEF WholeInv, WholeSoFar, CommitSoFar, CommitPoints, SqlCommitted, ActionUpdated,
                OutcomeCommitted, RunUpdated, CheckpointCommitted
  <2>. QED
    BY <2>1, <2>2
<1>. QED
  BY <1>1, WholeInvariant, PTL

---------------------------------------------------------------------------
(* What a COMMIT does to the database.                                     *)

AllInv == SafetyInv /\ WholeInv

LEMMA NextAllInv == AllInv /\ [Next]_vars => AllInv'
  BY NextSafetyInv, NextWholeInv DEF AllInv

LEMMA AllInvariant == Spec => []AllInv
<1>1. AllInv <=> SafetyInv /\ WholeInv
  BY DEF AllInv
<1>. QED
  BY <1>1, SafetyInvariant, WholeInvariant, PTL

\* d has become w by the staging, or the step, of the validated call c.
Staged(d, c, w) ==
    /\ c \in StageCalls /\ ValidStaged(c)
    /\ StageSoFar("stage_commit", d, c, w)

Committed(d, c, w) ==
    /\ c \in CommitCalls /\ ValidCommit(c)
    /\ CommitSoFar("step_commit", d, c, w)

LEMMA PublishCases ==
    ASSUME AllInv, NEW p \in Procs, Publish(p)
    PROVE  \/ pc[p] = "stage_commit" /\ Staged(db, call[p], db')
           \/ pc[p] = "step_commit" /\ Committed(db, call[p], db')
<1>1. /\ TypeInv /\ Validated(p)
      /\ StageSoFar(pc[p], snap[p], call[p], work[p])
      /\ CommitSoFar(pc[p], snap[p], call[p], work[p])
  BY DEF AllInv, SafetyInv, ProcessInv, WholeInv, WholeSoFar
<1>2. db = snap[p] /\ db' = work[p] /\ Valid(call[p])
  BY <1>1 DEF Publish, Validated
<1>3. CASE pc[p] = "stage_commit"
  <2>1. call[p] \in StageCalls /\ call[p].kind = "stage"
    BY <1>1, <1>3, CallsAssumption DEF TypeInv, CallMatchesPoint, StagePoints, StagedAction
  <2>. QED
    BY <1>1, <1>2, <1>3, <2>1 DEF Staged, Valid
<1>4. CASE pc[p] = "step_commit"
  <2>1. call[p] \in CommitCalls /\ call[p].kind = "commit"
    BY <1>1, <1>4, CallsAssumption DEF TypeInv, CallMatchesPoint, CommitPoints, ActionStepCommit
  <2>. QED
    BY <1>1, <1>2, <1>4, <2>1 DEF Committed, Valid
<1>. QED
  BY <1>3, <1>4 DEF Publish

\* The rows of a staged database, and the identifiers that were free.
LEMMA StagedRows ==
    ASSUME NEW d \in Database, NEW c, NEW w, Staged(d, c, w)
    PROVE  /\ c \in StagedAction
           /\ FreshRun(d, c) /\ FreshAction(d, c)
           /\ w.devices = UpsertDevices(d, c.devices).devices
           /\ Grown(w, d, {c.run}, {c.action}, {c.checkpoint}, {c.audit})
<1>1. c \in StagedAction
  BY CallsAssumption DEF Staged
<1>2. UpsertDevices(d, c.devices) \in Database
  BY <1>1, UpsertDevicesType DEF StagedAction
<1>. DEFINE u == UpsertDevices(d, c.devices)
<1>3. /\ u.runs = d.runs /\ u.actions = d.actions /\ u.outcomes = d.outcomes
      /\ u.checkpoints = d.checkpoints /\ u.audits = d.audits
  BY DEF UpsertDevices, Database
<1>. HIDE DEF u
<1>4. /\ InsertRunOk(u, c.run) /\ InsertActionOk(InsertRun(u, c.run), c.action)
      /\ w = InsertAudit(InsertCheckpoint(InsertAction(InsertRun(u, c.run), c.action),
                                          c.checkpoint), c.audit)
  BY DEF Staged, StageSoFar, CheckpointStaged, ActionStaged, RunStaged, DevicesStaged, u
<1>5. FreshRun(d, c) /\ FreshAction(d, c)
  BY <1>2, <1>3, <1>4 DEF InsertRunOk, InsertActionOk, InsertRun, FreshRun, FreshAction,
                          Database, u
<1>6. /\ w.devices = u.devices
      /\ w.runs = d.runs \cup {c.run}
      /\ w.actions = d.actions \cup {c.action}
      /\ w.outcomes = d.outcomes
      /\ w.checkpoints = d.checkpoints \cup {c.checkpoint}
      /\ w.audits = d.audits \cup {c.audit}
  BY <1>2, <1>3, <1>4 DEF InsertAudit, InsertCheckpoint, InsertAction, InsertRun, Database, u
<1>. QED
  BY <1>1, <1>5, <1>6 DEF Grown, u

LEMMA CommittedRows ==
    ASSUME NEW d \in Database, NEW c, NEW w, Committed(d, c, w)
    PROVE  /\ c \in ActionStepCommit
           /\ UpdateActionOk(d, c) /\ UpdateRunOk(d, c)
           /\ \A o \in d.outcomes : o.id # c.outcome.id /\ o.action # c.outcome.action
           /\ w.devices = d.devices
           /\ Stepped(w, d, c)
<1>1. c \in ActionStepCommit
  BY CallsAssumption DEF Committed
<1>. DEFINE u == UpdateAction(d, c)
            v == InsertOutcome(u, c.outcome)
            x == UpdateRun(v, c)
<1>2. /\ UpdateActionOk(d, c) /\ InsertOutcomeOk(u, c.outcome) /\ UpdateRunOk(v, c)
      /\ w = InsertAudit(InsertCheckpoint(x, c.checkpoint), c.audit)
  BY DEF Committed, CommitSoFar, CommitPoints, CheckpointCommitted, RunUpdated,
         OutcomeCommitted, ActionUpdated
<1>3. u \in Database /\ v \in Database /\ x \in Database
  BY <1>1, UpdateTypes, InsertTypes DEF ActionStepCommit
<1>4. /\ u.devices = d.devices /\ u.runs = d.runs /\ u.outcomes = d.outcomes
      /\ u.checkpoints = d.checkpoints /\ u.audits = d.audits
  BY DEF UpdateAction, Database
<1>. HIDE DEF u
<1>5. /\ v.devices = d.devices /\ v.runs = d.runs /\ v.actions = u.actions
      /\ v.outcomes = d.outcomes \cup {c.outcome}
      /\ v.checkpoints = d.checkpoints /\ v.audits = d.audits
  BY <1>3, <1>4 DEF InsertOutcome, Database
<1>. HIDE DEF v
<1>6. /\ x.devices = d.devices /\ x.actions = u.actions /\ x.outcomes = v.outcomes
      /\ x.checkpoints = d.checkpoints /\ x.audits = d.audits
  BY <1>3, <1>5 DEF UpdateRun, Database
<1>7. x.runs = UpdateRun(d, c).runs /\ UpdateRunOk(d, c)
  BY <1>2, <1>3, <1>5, UpdatesAreLocal
<1>. HIDE DEF x
<1>8. /\ w.devices = d.devices /\ w.runs = x.runs /\ w.actions = u.actions
      /\ w.outcomes = x.outcomes
      /\ w.checkpoints = d.checkpoints \cup {c.checkpoint}
      /\ w.audits = d.audits \cup {c.audit}
  BY <1>2, <1>3, <1>6 DEF InsertAudit, InsertCheckpoint, Database
<1>9. \A o \in d.outcomes : o.id # c.outcome.id /\ o.action # c.outcome.action
  BY <1>2, <1>4 DEF InsertOutcomeOk
<1>10. Stepped(w, d, c)
  BY <1>5, <1>6, <1>7, <1>8 DEF Stepped, u
<1>. QED
  BY <1>1, <1>2, <1>7, <1>8, <1>9, <1>10

---------------------------------------------------------------------------
(* Evidence.                                                               *)

\* Nothing d holds as evidence is missing or altered in w.
Kept(d, w) ==
    /\ d.outcomes \subseteq w.outcomes
    /\ d.checkpoints \subseteq w.checkpoints
    /\ d.audits \subseteq w.audits
    /\ \A x \in d.runs : \E y \in w.runs : y.id = x.id /\ y.step >= x.step
    /\ \A a \in d.actions : \E b \in w.actions :
          b = IF a.status \in TerminalStatus THEN a ELSE [a EXCEPT !.status = b.status]
    /\ \A x \in d.devices : \E y \in w.devices :
          y.id = x.id /\ (x.calibration # None => y.calibration # None)

LEMMA UnchangedKeeps ==
    ASSUME NEW d \in Database
    PROVE  Kept(d, d)
<1>1. \A a \in d.actions : a = [a EXCEPT !.status = a.status]
  BY DEF Database, ActionRow
<1>2. \A x \in d.runs : x.step >= x.step
  BY DEF Database, RunRow
<1>. QED
  BY <1>1, <1>2 DEF Kept

\* ON CONFLICT DO UPDATE with COALESCE neither drops a device nor forgets that
\* it has a calibration.
LEMMA UpsertKeepsCalibrations ==
    ASSUME NEW d \in Database, NEW rows \in SUBSET DeviceRow, NEW x \in d.devices
    PROVE  \E y \in UpsertDevices(d, rows).devices :
              y.id = x.id /\ (x.calibration # None => y.calibration # None)
<1>1. UpsertDevices(d, rows).devices =
          {y \in d.devices : \A row \in rows : row.id # y.id}
          \cup UNION {UpsertedDevice(d, row) : row \in rows}
  BY DEF UpsertDevices, Database
<1>2. CASE \A row \in rows : row.id # x.id
  BY <1>1, <1>2
<1>3. ASSUME NEW row \in rows, row.id = x.id
      PROVE  \E y \in UpsertedDevice(d, row) :
                y.id = x.id /\ (x.calibration # None => y.calibration # None)
  <2>1. UpsertedDevice(d, row) = Coalesced(d, row)
    BY <1>3 DEF UpsertedDevice
  <2>2. CASE row.calibration = None
    <3>1. [row EXCEPT !.calibration = x.calibration] \in Coalesced(d, row)
      BY <1>3, <2>2 DEF Coalesced
    <3>2. /\ [row EXCEPT !.calibration = x.calibration].id = x.id
          /\ [row EXCEPT !.calibration = x.calibration].calibration = x.calibration
      BY <1>3 DEF DeviceRow
    <3>. QED
      BY <2>1, <3>1, <3>2
  <2>3. CASE row.calibration # None
    BY <1>3, <2>1, <2>3 DEF Coalesced
  <2>. QED
    BY <2>2, <2>3
<1>. QED
  BY <1>1, <1>2, <1>3

LEMMA StagedKeeps ==
    ASSUME NEW d \in Database, NEW c, NEW w, Staged(d, c, w)
    PROVE  Kept(d, w)
<1>1. /\ c \in StagedAction
      /\ w.devices = UpsertDevices(d, c.devices).devices
      /\ Grown(w, d, {c.run}, {c.action}, {c.checkpoint}, {c.audit})
  BY StagedRows
<1>2. Kept(d, d)
  BY UnchangedKeeps
<1>3. \A x \in d.devices : \E y \in w.devices :
          y.id = x.id /\ (x.calibration # None => y.calibration # None)
  BY <1>1, UpsertKeepsCalibrations DEF StagedAction
<1>. QED
  BY <1>1, <1>2, <1>3 DEF Kept, Grown

LEMMA CommittedKeeps ==
    ASSUME NEW d \in Database, NEW c, NEW w, Committed(d, c, w)
    PROVE  Kept(d, w)
<1>1. /\ c \in ActionStepCommit
      /\ w.devices = d.devices
      /\ Stepped(w, d, c)
  BY CommittedRows
<1>2. Kept(d, d)
  BY UnchangedKeeps
<1>3. ASSUME NEW x \in d.runs
      PROVE  \E y \in w.runs : y.id = x.id /\ y.step >= x.step
  <2>. DEFINE y == IF RunIsAtExpectedStep(x, c)
                   THEN [x EXCEPT !.status = c.run_status, !.step = c.next] ELSE x
  <2>1. y \in w.runs
    BY <1>1 DEF Stepped, UpdateRun, Database
  <2>2. y.id = x.id /\ y.step >= x.step
    BY <1>1 DEF Database, RunRow, RunIsAtExpectedStep, Committed, ValidCommit, StepAdvances,
                ActionStepCommit
  <2>. QED
    BY <2>1, <2>2
<1>4. ASSUME NEW a \in d.actions
      PROVE  \E b \in w.actions :
                b = IF a.status \in TerminalStatus THEN a ELSE [a EXCEPT !.status = b.status]
  <2>. DEFINE b == IF ActionIsOpen(a, c) THEN [a EXCEPT !.status = c.action_status] ELSE a
  <2>1. b \in w.actions
    BY <1>1 DEF Stepped, UpdateAction, Database
  <2>2. a = [a EXCEPT !.status = a.status]
    BY DEF Database, ActionRow
  <2>3. ActionIsOpen(a, c) => a.status \notin TerminalStatus
    BY DEF ActionIsOpen, OpenStatus, TerminalStatus
  <2>4. b = IF a.status \in TerminalStatus THEN a ELSE [a EXCEPT !.status = b.status]
    BY <2>2, <2>3 DEF Database, ActionRow
  <2>. QED
    BY <2>1, <2>4
<1>. QED
  BY <1>1, <1>2, <1>3, <1>4 DEF Kept, Stepped

LEMMA StepKeeps ==
    ASSUME AllInv, [Next]_vars
    PROVE  Kept(db, db')
<1>1. db \in Database
  BY DEF AllInv, WholeInv, TypeInv, TypeOK
<1>2. CASE db' = db
  BY <1>1, <1>2, UnchangedKeeps
<1>3. ASSUME NEW p \in Procs, Publish(p) PROVE Kept(db, db')
  BY <1>1, <1>3, PublishCases, StagedKeeps, CommittedKeeps
<1>. QED
  BY <1>2, <1>3, DatabaseKept DEF Next, vars

\* No step of any process, whatever it is given and wherever it is cut off,
\* takes back an outcome, a checkpoint, an audit event, a run, an action or a
\* verdict, lowers the step of a run, or makes a device forget its calibration.
THEOREM EvidenceOnlyGrows == Spec => EvidenceIsAppendOnly
<1>1. AllInv /\ [Next]_vars => Kept(db, db')
  BY StepKeeps
<1>2. Kept(db, db') =>
        /\ db.outcomes \subseteq db'.outcomes
        /\ db.checkpoints \subseteq db'.checkpoints
        /\ db.audits \subseteq db'.audits
        /\ \A x \in db.runs : \E y \in db'.runs : y.id = x.id /\ y.step >= x.step
        /\ \A a \in db.actions : \E b \in db'.actions :
              b = IF a.status \in TerminalStatus THEN a ELSE [a EXCEPT !.status = b.status]
        /\ \A x \in db.devices : \E y \in db'.devices :
              y.id = x.id /\ (x.calibration # None => y.calibration # None)
  BY DEF Kept
<1>. QED
  BY <1>1, <1>2, AllInvariant, PTL DEF Spec, EvidenceIsAppendOnly

---------------------------------------------------------------------------
(* Refusals and winners.                                                   *)

\* A step of p leaves the history of every other process alone.
LEMMA HistoryFrame ==
    ASSUME TypeInv, NEW p \in Procs, Call(p) \/ Progress(p) \/ Abandon(p),
           NEW q \in Procs, q # p
    PROVE  loaded'[q] = loaded[q] /\ result'[q] = result[q] /\ applied'[q] = applied[q]
<1>. USE DEF TypeInv, TypeOK
<1>1. ASSUME NEW res, Return(p, res)
      PROVE  result'[q] = result[q]
  BY <1>1 DEF Return
<1>2. ASSUME NEW here, NEW next, NEW ok, NEW after, NEW error,
             Statement(p, here, next, ok, after, error)
      PROVE  loaded'[q] = loaded[q] /\ result'[q] = result[q] /\ applied'[q] = applied[q]
  BY <1>1, <1>2 DEF Statement
<1>3. ASSUME NEW here, NEW next, NEW value, Load(p, here, next, value)
      PROVE  loaded'[q] = loaded[q] /\ result'[q] = result[q] /\ applied'[q] = applied[q]
  BY <1>3 DEF Load
<1>4. CASE Call(p)
  BY <1>4 DEF Call
<1>5. CASE Begin(p)
  BY <1>5 DEF Begin
<1>6. CASE StageStep(p)
  BY <1>2, <1>6 DEF StageStep, StageDevices, StageRun, StageAction, StageCheckpoint, StageAudit
<1>7. CASE CommitStep(p)
  BY <1>2, <1>7 DEF CommitStep, CommitUpdateAction, CommitInsertOutcome, CommitUpdateRun,
                    CommitInsertCheckpoint, CommitInsertAudit
<1>8. CASE RestoreStep(p)
  BY <1>1, <1>3, <1>8 DEF RestoreStep, LoadRun, LoadCheckpoint, LoadMissing, LoadCounts,
                          LoadTimeline
<1>9. CASE CommitAcknowledged(p) \/ CommitUnacknowledged(p)
  BY <1>1, <1>9 DEF CommitAcknowledged, CommitUnacknowledged, Publish
<1>10. CASE SerializationFailure(p)
  BY <1>1, <1>10 DEF SerializationFailure
<1>11. CASE Retry(p)
  BY <1>11 DEF Retry
<1>12. CASE Abandon(p)
  BY <1>1, <1>12 DEF Abandon
<1>. QED
  BY <1>4, <1>5, <1>6, <1>7, <1>8, <1>9, <1>10, <1>11, <1>12 DEF Progress

\* NoEffectOnRefusal is not inductive alone: that a refusal finds nothing
\* applied is because a call is over as soon as it has changed the database.
EffectEndsCall(p) == applied[p] => pc[p] = "idle" /\ result[p] \notin Refusals

EffectInv == TypeInv /\ \A p \in Procs : EffectEndsCall(p)

\* A step that does not publish leaves the call without effect.
LEMMA StepWithoutEffect ==
    ASSUME EffectInv, NEW p \in Procs, Call(p) \/ Progress(p) \/ Abandon(p),
           ~CommitAcknowledged(p), ~CommitUnacknowledged(p)
    PROVE  ~applied'[p]
<1>. USE DEF EffectInv, TypeInv, TypeOK
<1>1. CASE Call(p)
  BY <1>1 DEF Call
<1>2. CASE ~Call(p)
  <2>1. pc[p] # "idle"
    BY <1>2 DEF Progress, Abandon, Begin, StageStep, StageDevices, StageRun, StageAction,
         StageCheckpoint, StageAudit, CommitStep, CommitUpdateAction, CommitInsertOutcome,
         CommitUpdateRun, CommitInsertCheckpoint, CommitInsertAudit, Statement, RestoreStep,
         LoadRun, LoadCheckpoint, LoadMissing, LoadCounts, LoadTimeline, Load,
         SerializationFailure, Retry, InTransaction, StagePoints, CommitPoints, RestorePoints
  <2>2. applied' = applied
    BY <1>2 DEF Progress, Abandon, Begin, StageStep, StageDevices, StageRun, StageAction,
         StageCheckpoint, StageAudit, CommitStep, CommitUpdateAction, CommitInsertOutcome,
         CommitUpdateRun, CommitInsertCheckpoint, CommitInsertAudit, Statement, RestoreStep,
         LoadRun, LoadCheckpoint, LoadMissing, LoadCounts, LoadTimeline, Load,
         SerializationFailure, Retry
  <2>. QED
    BY <2>1, <2>2 DEF EffectEndsCall
<1>. QED
  BY <1>1, <1>2

LEMMA NextEffectInv == EffectInv /\ [Next]_vars => EffectInv'
<1>. SUFFICES ASSUME EffectInv, [Next]_vars PROVE EffectInv'
  OBVIOUS
<1>type. TypeInv /\ TypeInv'
  BY NextTypeInv DEF EffectInv
<1>1. CASE UNCHANGED vars
  BY <1>1, <1>type DEF vars, EffectInv, EffectEndsCall
<1>2. ASSUME NEW p \in Procs, Call(p) \/ Progress(p) \/ Abandon(p)
      PROVE  EffectInv'
  <2>1. EffectEndsCall(p)'
    <3>1. CASE CommitAcknowledged(p) \/ CommitUnacknowledged(p)
      BY <3>1, <1>type
      DEF CommitAcknowledged, CommitUnacknowledged, Return, EffectEndsCall, Refusals, TypeInv,
          TypeOK
    <3>2. CASE ~CommitAcknowledged(p) /\ ~CommitUnacknowledged(p)
      BY <1>2, <3>2, StepWithoutEffect DEF EffectEndsCall
    <3>. QED
      BY <3>1, <3>2
  <2>2. ASSUME NEW q \in Procs, q # p PROVE EffectEndsCall(q)'
    BY <1>2, <1>type, <2>2, Frame, HistoryFrame DEF EffectInv, EffectEndsCall
  <2>. QED
    BY <1>type, <2>1, <2>2 DEF EffectInv
<1>. QED
  BY <1>1, <1>2 DEF Next

\* A call that reports a conflict, a constraint or 40001 on its last attempt
\* has changed nothing, although earlier attempts of it may have run every
\* statement: COMMIT is the only step with an effect, and it ends the call.
THEOREM RefusalsLeaveNothing == Spec => []NoEffectOnRefusal
<1>1. Init => EffectInv
  BY InitTypeInv DEF Init, EffectInv, EffectEndsCall
<1>2. EffectInv => NoEffectOnRefusal
  BY DEF EffectInv, EffectEndsCall, NoEffectOnRefusal
<1>. QED
  BY <1>1, <1>2, NextEffectInv, PTL DEF Spec

\* The two halves of AtMostOneWinner that the tables have to answer for.
RunExists(d, r)      == \E x \in d.runs : x.id = r
ActionHasEnded(d, a) == \E x \in d.actions : x.id = a /\ x.status \in TerminalStatus

LEMMA KeptWinners ==
    ASSUME NEW d, NEW w, Kept(d, w)
    PROVE  /\ \A r : RunExists(d, r) => RunExists(w, r)
           /\ \A a : ActionHasEnded(d, a) => ActionHasEnded(w, a)
  BY DEF Kept, RunExists, ActionHasEnded

\* A staging call that succeeds found no such run, a commit that succeeds found
\* its action open; both find what they left afterwards.
LEMMA StagedWinner ==
    ASSUME NEW d \in Database, NEW c, NEW w, Staged(d, c, w)
    PROVE  c.run.id \in Runs /\ ~RunExists(d, c.run.id) /\ RunExists(w, c.run.id)
  BY StagedRows DEF FreshRun, Grown, RunExists, StagedAction, RunRow

LEMMA CommittedWinner ==
    ASSUME NEW d \in Database, DatabaseInv(d), NEW c, NEW w, Committed(d, c, w)
    PROVE  /\ c.action_id \in Actions
           /\ ~ActionHasEnded(d, c.action_id)
           /\ ActionHasEnded(w, c.action_id)
<1>1. c \in ActionStepCommit /\ UpdateActionOk(d, c) /\ Stepped(w, d, c)
  BY CommittedRows
<1>2. PICK a \in d.actions : ActionIsOpen(a, c)
  BY <1>1 DEF UpdateActionOk
<1>3. a.id = c.action_id /\ a.status \notin TerminalStatus
  BY <1>2 DEF ActionIsOpen, OpenStatus, TerminalStatus
<1>4. ~ActionHasEnded(d, c.action_id)
  BY <1>3 DEF ActionHasEnded, DatabaseInv, Keys
<1>5. [a EXCEPT !.status = c.action_status] \in w.actions
  BY <1>1, <1>2 DEF Stepped, UpdateAction, Database
<1>6. /\ [a EXCEPT !.status = c.action_status].id = c.action_id
      /\ [a EXCEPT !.status = c.action_status].status = c.action_status
  BY <1>3 DEF Database, ActionRow
<1>7. c.action_status \in TerminalStatus
  BY DEF Committed, ValidCommit, StatusMatchesVerdict, TerminalStatus
<1>. QED
  BY <1>1, <1>4, <1>5, <1>6, <1>7 DEF ActionHasEnded, ActionStepCommit

LEMMA AcksStep ==
    ASSUME NEW p \in Procs, Call(p) \/ Progress(p) \/ Abandon(p)
    PROVE  CommitAcknowledged(p) \/ acks' = acks
  BY DEF Progress, Call, Abandon, Begin, StageStep, StageDevices, StageRun, StageAction,
         StageCheckpoint, StageAudit, CommitStep, CommitUpdateAction, CommitInsertOutcome,
         CommitUpdateRun, CommitInsertCheckpoint, CommitInsertAudit, Statement, RestoreStep,
         LoadRun, LoadCheckpoint, LoadMissing, LoadCounts, LoadTimeline, Load,
         CommitUnacknowledged, SerializationFailure, Retry

LEMMA NextWinner == AllInv /\ AtMostOneWinner /\ [Next]_vars => AtMostOneWinner'
<1>. SUFFICES ASSUME AllInv, AtMostOneWinner, [Next]_vars PROVE AtMostOneWinner'
  OBVIOUS
<1>type. /\ db \in Database /\ DatabaseInv(db)
         /\ acks \in [AckKeys -> Nat]
  BY DEF AllInv, SafetyInv, TypeInv, TypeOK
<1>old. /\ \A k \in AckKeys : acks[k] <= 1
        /\ \A r \in Runs : acks[<<"stage", r>>] = 1 => RunExists(db, r)
        /\ \A a \in Actions : acks[<<"commit", a>>] = 1 => ActionHasEnded(db, a)
  BY DEF AtMostOneWinner, RunExists, ActionHasEnded
<1>kept. /\ \A r : RunExists(db, r) => RunExists(db', r)
         /\ \A a : ActionHasEnded(db, a) => ActionHasEnded(db', a)
  BY StepKeeps, KeptWinners
<1>. SUFFICES /\ \A k \in AckKeys : acks'[k] <= 1
              /\ \A r \in Runs : acks'[<<"stage", r>>] = 1 => RunExists(db', r)
              /\ \A a \in Actions : acks'[<<"commit", a>>] = 1 => ActionHasEnded(db', a)
  BY DEF AtMostOneWinner, RunExists, ActionHasEnded
<1>1. CASE acks' = acks
  BY <1>1, <1>old, <1>kept
<1>2. ASSUME NEW p \in Procs, CommitAcknowledged(p)
      PROVE  /\ \A k \in AckKeys : acks'[k] <= 1
             /\ \A r \in Runs : acks'[<<"stage", r>>] = 1 => RunExists(db', r)
             /\ \A a \in Actions : acks'[<<"commit", a>>] = 1 => ActionHasEnded(db', a)
  <2>1. Publish(p) /\ acks' = [acks EXCEPT ![AckKey(call[p])] = @ + 1]
    BY <1>2 DEF CommitAcknowledged
  <2>2. CASE Staged(db, call[p], db')
    <3>. DEFINE r0 == call[p].run.id
    <3>1. r0 \in Runs /\ ~RunExists(db, r0) /\ RunExists(db', r0)
      BY <2>2, <1>type, StagedWinner
    <3>2. AckKey(call[p]) = <<"stage", r0>>
      BY <2>2, <1>type, StagedRows DEF AckKey, StagedAction
    <3>3. <<"stage", r0>> \in AckKeys /\ acks[<<"stage", r0>>] = 0
      BY <3>1, <1>old, <1>type DEF AckKeys
    <3>4. /\ acks'[<<"stage", r0>>] = 1
          /\ \A k \in AckKeys : k # <<"stage", r0>> => acks'[k] = acks[k]
      BY <2>1, <3>2, <3>3, <1>type
    <3>. HIDE DEF r0
    <3>5. /\ \A r \in Runs : <<"stage", r>> \in AckKeys /\ (<<"stage", r>> = <<"stage", r0>> => r = r0)
          /\ \A a \in Actions : <<"commit", a>> \in AckKeys /\ <<"commit", a>> # <<"stage", r0>>
      BY DEF AckKeys
    <3>. QED
      BY <3>1, <3>4, <3>5, <1>old, <1>kept
  <2>3. CASE Committed(db, call[p], db')
    <3>. DEFINE a0 == call[p].action_id
    <3>1. a0 \in Actions /\ ~ActionHasEnded(db, a0) /\ ActionHasEnded(db', a0)
      BY <2>3, <1>type, CommittedWinner
    <3>2. AckKey(call[p]) = <<"commit", a0>>
      BY <2>3, <1>type, CommittedRows DEF AckKey, ActionStepCommit
    <3>3. <<"commit", a0>> \in AckKeys /\ acks[<<"commit", a0>>] = 0
      BY <3>1, <1>old, <1>type DEF AckKeys
    <3>4. /\ acks'[<<"commit", a0>>] = 1
          /\ \A k \in AckKeys : k # <<"commit", a0>> => acks'[k] = acks[k]
      BY <2>1, <3>2, <3>3, <1>type
    <3>. HIDE DEF a0
    <3>5. /\ \A a \in Actions : <<"commit", a>> \in AckKeys /\ (<<"commit", a>> = <<"commit", a0>> => a = a0)
          /\ \A r \in Runs : <<"stage", r>> \in AckKeys /\ <<"stage", r>> # <<"commit", a0>>
      BY DEF AckKeys
    <3>. QED
      BY <3>1, <3>4, <3>5, <1>old, <1>kept
  <2>. QED
    BY <2>1, <2>2, <2>3, PublishCases
<1>. QED
  BY <1>1, <1>2, AcksStep DEF Next, vars

\* Of all the callers that ever tried, retried or raced, at most one is told
\* that it staged a run and at most one that it committed an action, and the
\* tables show it for good.
THEOREM WinnersAreUnique == Spec => []AtMostOneWinner
<1>1. Init => AtMostOneWinner
  BY DEF Init, AtMostOneWinner, AckKeys
<1>. QED
  BY <1>1, NextWinner, AllInvariant, PTL DEF Spec

\* Nothing a caller passes, whatever it gets wrong, makes the rows disagree.
THEOREM LedgerStaysSound == Spec => []LedgerIsSound
<1>1. RestorePointConsistent /\ OutcomeExactlyOnce /\ TimelineFaithful => LedgerIsSound
  BY DEF LedgerIsSound
<1>. QED
  BY <1>1, RestorePointsAreConsistent, VerdictsAreUnique, TimelinesAreFaithful, PTL

---------------------------------------------------------------------------
(* Three more facts about the rows, which the ledger and a restore need:   *)
(* a run is never without its action, outcome identifiers are keys, and a  *)
(* latest checkpoint that names an action as pending names an open one.    *)

RunsHaveActions(d) == \A x \in d.runs : \E a \in d.actions : a.run = x.id

OutcomeKeys(d) == \A o, q \in d.outcomes : o.id = q.id => o = q

PendingIsOpen(d) ==
    \A r \in Runs : \A k \in LatestCheckpoints(d, r), a \in ActionsOf(d, r) :
        k.pending = a.id => a.status \in OpenStatus

RowsInv(d) == DatabaseInv(d) /\ RunsHaveActions(d) /\ OutcomeKeys(d) /\ PendingIsOpen(d)

LEMMA StagedDatabaseInv ==
    ASSUME NEW d \in Database, DatabaseInv(d), NEW c, NEW w \in Database, Staged(d, c, w)
    PROVE  DatabaseInv(w)
<1>1. /\ c \in StagedAction
      /\ FreshRun(d, c) /\ FreshAction(d, c)
      /\ Grown(w, d, {c.run}, {c.action}, {c.checkpoint}, {c.audit})
  BY StagedRows
<1>2. ValidStaged(c) /\ c.action.status \in OpenStatus
  BY StagedOpenAssumption DEF Staged
<1>. QED
  BY <1>1, <1>2, StagePreserves DEF FreshRun, FreshAction

LEMMA CommittedDatabaseInv ==
    ASSUME NEW d \in Database, DatabaseInv(d), NEW c, NEW w \in Database, Committed(d, c, w)
    PROVE  DatabaseInv(w)
<1>1. /\ c \in ActionStepCommit
      /\ UpdateActionOk(d, c) /\ UpdateRunOk(d, c)
      /\ Stepped(w, d, c)
  BY CommittedRows
<1>2. InsertAuditOk(CheckpointCommitted(d, c), c.audit)
  BY DEF Committed, CommitSoFar
<1>3. CheckpointCommitted(d, c).audits = d.audits
  <2>1. /\ UpdateAction(d, c) \in Database
        /\ InsertOutcome(UpdateAction(d, c), c.outcome) \in Database
        /\ UpdateRun(InsertOutcome(UpdateAction(d, c), c.outcome), c) \in Database
    BY <1>1, UpdateTypes, InsertTypes DEF ActionStepCommit
  <2>2. UpdateAction(d, c).audits = d.audits
    BY DEF UpdateAction, Database
  <2>3. \A u \in Database : /\ InsertOutcome(u, c.outcome).audits = u.audits
                            /\ UpdateRun(u, c).audits = u.audits
                            /\ InsertCheckpoint(u, c.checkpoint).audits = u.audits
    BY DEF InsertOutcome, UpdateRun, InsertCheckpoint, Database
  <2>. QED
    BY <2>1, <2>2, <2>3 DEF CheckpointCommitted, RunUpdated, OutcomeCommitted, ActionUpdated
<1>4. \A e \in d.audits : e.run = c.audit.run => e.seq # c.audit.seq
  BY <1>2, <1>3 DEF InsertAuditOk
<1>. QED
  BY <1>1, <1>4, CommitPreserves DEF Committed

LEMMA StagedRowsInv ==
    ASSUME NEW d \in Database, RowsInv(d), NEW c, NEW w \in Database, Staged(d, c, w)
    PROVE  RowsInv(w)
<1>1. /\ c \in StagedAction
      /\ FreshRun(d, c) /\ FreshAction(d, c)
      /\ Grown(w, d, {c.run}, {c.action}, {c.checkpoint}, {c.audit})
  BY StagedRows
<1>2. DatabaseInv(w)
  BY StagedDatabaseInv DEF RowsInv
<1>3. c.action.run = c.run.id /\ c.checkpoint.run = c.run.id
  BY DEF Staged, ValidStaged, StagedActionMatches, StagedCheckpointMatches
<1>4. /\ \A a \in d.actions : a.run # c.run.id
      /\ \A k \in d.checkpoints : k.run # c.run.id
  BY <1>1 DEF RowsInv, DatabaseInv, References, FreshRun
<1>5. RunsHaveActions(w)
  BY <1>1, <1>3 DEF RowsInv, RunsHaveActions, Grown
<1>6. OutcomeKeys(w)
  BY <1>1 DEF RowsInv, OutcomeKeys, Grown
<1>7. PendingIsOpen(w)
  <2>. SUFFICES ASSUME NEW r \in Runs, NEW k \in LatestCheckpoints(w, r),
                       NEW a \in ActionsOf(w, r), k.pending = a.id
                PROVE  a.status \in OpenStatus
    BY DEF PendingIsOpen
  <2>1. CASE r = c.run.id
    <3>1. a = c.action
      BY <1>1, <1>4, <2>1 DEF ActionsOf, Grown
    <3>. QED
      BY <3>1, StagedOpenAssumption DEF Staged
  <2>2. CASE r # c.run.id
    <3>1. LatestCheckpoints(w, r) = LatestCheckpoints(d, r)
      BY <1>1, <1>3, <2>2 DEF LatestCheckpoints, Grown
    <3>2. ActionsOf(w, r) = ActionsOf(d, r)
      BY <1>1, <1>3, <2>2 DEF ActionsOf, Grown
    <3>. QED
      BY <3>1, <3>2 DEF RowsInv, PendingIsOpen
  <2>. QED
    BY <2>1, <2>2
<1>. QED
  BY <1>2, <1>5, <1>6, <1>7 DEF RowsInv

\* The one action a and the one run x that commit_action_step updates.
Updates(d, c, w, a, x) ==
    /\ a.id = c.action_id /\ a.run = c.run_id /\ a.status \in OpenStatus
    /\ x.id = c.run_id /\ x.step = c.expected
    /\ w.actions = (d.actions \ {a}) \cup {[a EXCEPT !.status = c.action_status]}
    /\ w.runs = (d.runs \ {x}) \cup {[x EXCEPT !.status = c.run_status, !.step = c.next]}

LEMMA CommittedUpdates ==
    ASSUME NEW d \in Database, DatabaseInv(d), NEW c, NEW w, Committed(d, c, w)
    PROVE  \E a \in d.actions, x \in d.runs : Updates(d, c, w, a, x)
<1>1. /\ UpdateActionOk(d, c) /\ UpdateRunOk(d, c) /\ Stepped(w, d, c)
  BY CommittedRows
<1>2. PICK a \in d.actions : ActionIsOpen(a, c)
  BY <1>1 DEF UpdateActionOk
<1>3. PICK x \in d.runs : RunIsAtExpectedStep(x, c)
  BY <1>1 DEF UpdateRunOk
<1>4. \A b \in d.actions : ActionIsOpen(b, c) <=> b = a
  BY <1>2 DEF DatabaseInv, Keys, ActionIsOpen
<1>5. \A y \in d.runs : RunIsAtExpectedStep(y, c) <=> y = x
  BY <1>3 DEF DatabaseInv, Keys, RunIsAtExpectedStep
<1>6. w.actions = {IF b = a THEN [a EXCEPT !.status = c.action_status] ELSE b : b \in d.actions}
  BY <1>1, <1>4 DEF Stepped, UpdateAction, Database
<1>7. w.runs = {IF y = x THEN [x EXCEPT !.status = c.run_status, !.step = c.next] ELSE y :
                   y \in d.runs}
  <2>1. w.runs = {IF RunIsAtExpectedStep(y, c)
                  THEN [y EXCEPT !.status = c.run_status, !.step = c.next] ELSE y :
                     y \in d.runs}
    BY <1>1 DEF Stepped, UpdateRun, Database
  <2>. QED
    BY <2>1, <1>5
<1>8. w.actions = (d.actions \ {a}) \cup {[a EXCEPT !.status = c.action_status]}
  BY <1>6
<1>9. w.runs = (d.runs \ {x}) \cup {[x EXCEPT !.status = c.run_status, !.step = c.next]}
  BY <1>7
<1>. QED
  BY <1>2, <1>3, <1>8, <1>9 DEF ActionIsOpen, RunIsAtExpectedStep, Updates

LEMMA CommittedRowsInv ==
    ASSUME NEW d \in Database, RowsInv(d), NEW c, NEW w \in Database, Committed(d, c, w)
    PROVE  RowsInv(w)
<1>1. DatabaseInv(d) /\ DatabaseInv(w)
  BY CommittedDatabaseInv DEF RowsInv
<1>2. /\ c \in ActionStepCommit
      /\ \A o \in d.outcomes : o.id # c.outcome.id
      /\ w.outcomes = d.outcomes \cup {c.outcome}
      /\ w.checkpoints = d.checkpoints \cup {c.checkpoint}
  BY CommittedRows DEF Stepped
<1>3. /\ c.next > c.expected /\ c.expected \in Nat /\ c.next \in Nat
      /\ c.checkpoint.run = c.run_id /\ c.checkpoint.step = c.next
      /\ c.checkpoint.pending = None
  BY <1>2 DEF Committed, ValidCommit, StepAdvances, CheckpointMatches, ActionStepCommit
<1>4. PICK a0 \in d.actions, x0 \in d.runs : Updates(d, c, w, a0, x0)
  BY <1>1, CommittedUpdates
<1>. DEFINE a1 == [a0 EXCEPT !.status = c.action_status]
            x1 == [x0 EXCEPT !.status = c.run_status, !.step = c.next]
<1>5. a1.id = a0.id /\ a1.run = a0.run /\ x1.id = x0.id
  BY DEF Database, ActionRow, RunRow
<1>6. w.actions = (d.actions \ {a0}) \cup {a1} /\ w.runs = (d.runs \ {x0}) \cup {x1}
  BY <1>4 DEF Updates
<1>open. a0.run = c.run_id /\ x0.id = c.run_id /\ x0.step = c.expected
  BY <1>4 DEF Updates
<1>. HIDE DEF a1, x1
<1>7. RunsHaveActions(w)
  BY <1>5, <1>6 DEF RowsInv, RunsHaveActions
<1>8. OutcomeKeys(w)
  BY <1>2 DEF RowsInv, OutcomeKeys
<1>9. PendingIsOpen(w)
  <2>. SUFFICES ASSUME NEW r \in Runs, NEW k \in LatestCheckpoints(w, r),
                       NEW a \in ActionsOf(w, r), k.pending = a.id
                PROVE  a.status \in OpenStatus
    BY DEF PendingIsOpen
  <2>1. CASE r = c.run_id
    <3>1. PICK j \in LatestCheckpoints(d, c.run_id) : j.step = c.expected
      BY <1>1, <1>open DEF DatabaseInv, ProgressAgrees
    <3>2. \A i \in d.checkpoints : i.run = c.run_id => i.step \in Nat /\ i.step <= c.expected
      BY <3>1 DEF LatestCheckpoints, Database, CheckpointRow
    <3>3. k = c.checkpoint
      BY <3>2, <2>1, <1>2, <1>3 DEF LatestCheckpoints
    <3>4. a.id \in Actions
      BY DEF ActionsOf, Database, ActionRow
    <3>. QED
      BY <3>3, <3>4, <1>3, NoneAssumption
  <2>2. CASE r # c.run_id
    <3>1. LatestCheckpoints(w, r) = LatestCheckpoints(d, r)
      BY <1>2, <1>3, <2>2 DEF LatestCheckpoints
    <3>2. ActionsOf(w, r) = ActionsOf(d, r)
      BY <1>open, <1>5, <1>6, <2>2 DEF ActionsOf
    <3>. QED
      BY <3>1, <3>2 DEF RowsInv, PendingIsOpen
  <2>. QED
    BY <2>1, <2>2
<1>. QED
  BY <1>1, <1>7, <1>8, <1>9 DEF RowsInv

FullInv == AllInv /\ RowsInv(db)

LEMMA NextFullInv == FullInv /\ [Next]_vars => FullInv'
<1>. SUFFICES ASSUME FullInv, [Next]_vars PROVE FullInv'
  OBVIOUS
<1>1. AllInv /\ AllInv' /\ db \in Database /\ db' \in Database
  BY NextAllInv DEF FullInv, AllInv, WholeInv, TypeInv, TypeOK
<1>2. ASSUME NEW p \in Procs, Publish(p) PROVE RowsInv(db')
  BY <1>1, <1>2, PublishCases, StagedRowsInv, CommittedRowsInv DEF FullInv
<1>. QED
  BY <1>1, <1>2, DatabaseKept DEF Next, vars, FullInv

LEMMA FullInvariant == Spec => []FullInv
<1>1. Init => FullInv
  <2>. SUFFICES ASSUME Init PROVE RowsInv(db) /\ AllInv
    BY DEF FullInv
  <2>1. AllInv
    BY InitSafetyInv, InitTypeInv
    DEF Init, AllInv, WholeInv, WholeSoFar, StageSoFar, CommitSoFar, CommitPoints
  <2>2. RowsInv(db)
    BY <2>1 DEF Init, EmptyDatabase, RowsInv, RunsHaveActions, OutcomeKeys, PendingIsOpen,
               LatestCheckpoints, AllInv, SafetyInv
  <2>. QED
    BY <2>1, <2>2
<1>. QED
  BY <1>1, NextFullInv, PTL DEF Spec

---------------------------------------------------------------------------
(* The refinement of StepLedger.                                           *)

LEMMA EntryAbsent ==
    ASSUME NEW d, NEW r, ~RunExists(d, r)
    PROVE  EntryOf(d, r) = Ledger!Absent
  BY DEF RunExists, EntryOf, Ledger!Absent

LEMMA EntryPresent ==
    ASSUME NEW d, RowsInv(d), NEW r, NEW x \in RunsOf(d, r), NEW a \in ActionsOf(d, r)
    PROVE  EntryOf(d, r) = [phase |-> IF a.status \in OpenStatus THEN "pending" ELSE "completed",
                            step |-> x.step, action |-> a.id,
                            success |-> a.status = "succeeded"]
<1>1. x = (CHOOSE y \in d.runs : y.id = r)
  BY DEF RunsOf, RowsInv, DatabaseInv, Keys
<1>2. a = (CHOOSE b \in d.actions : b.run = r)
  BY DEF ActionsOf, RowsInv, DatabaseInv, Keys
<1>3. ~ \A y \in d.runs : y.id # r
  BY DEF RunsOf
<1>. QED
  BY <1>1, <1>2, <1>3 DEF EntryOf

\* A run that exists has its row and its action; what both tables say of a run
\* is all its entry depends on.
LEMMA EntryDepends ==
    ASSUME NEW d, RowsInv(d), NEW w, RowsInv(w), NEW r,
           RunsOf(w, r) = RunsOf(d, r), ActionsOf(w, r) = ActionsOf(d, r)
    PROVE  EntryOf(w, r) = EntryOf(d, r)
<1>1. CASE RunsOf(d, r) = {}
  <2>1. ~RunExists(d, r) /\ ~RunExists(w, r)
    BY <1>1 DEF RunsOf, RunExists
  <2>. QED
    BY <2>1, EntryAbsent
<1>2. CASE RunsOf(d, r) # {}
  <2>1. PICK x \in RunsOf(d, r) : TRUE
    BY <1>2
  <2>2. PICK a \in ActionsOf(d, r) : TRUE
    BY <2>1 DEF RowsInv, RunsHaveActions, RunsOf, ActionsOf
  <2>. QED
    BY <2>1, <2>2, EntryPresent
<1>. QED
  BY <1>1, <1>2

\* No entry of the ledger has an action that is not stored.
LEMMA EntryAction ==
    ASSUME NEW d, RowsInv(d), NEW r
    PROVE  EntryOf(d, r).action = None \/ \E a \in d.actions : a.id = EntryOf(d, r).action
<1>1. CASE RunsOf(d, r) = {}
  BY <1>1, EntryAbsent DEF RunsOf, RunExists, Ledger!Absent
<1>2. CASE RunsOf(d, r) # {}
  <2>1. PICK x \in RunsOf(d, r) : TRUE
    BY <1>2
  <2>2. PICK a \in ActionsOf(d, r) : TRUE
    BY <2>1 DEF RowsInv, RunsHaveActions, RunsOf, ActionsOf
  <2>3. EntryOf(d, r).action = a.id
    BY <2>1, <2>2, EntryPresent
  <2>. QED
    BY <2>2, <2>3 DEF ActionsOf
<1>. QED
  BY <1>1, <1>2

LEMMA StagedEntries ==
    ASSUME NEW d \in Database, RowsInv(d), NEW c, NEW w \in Database, Staged(d, c, w)
    PROVE  /\ c.run.id \in Runs /\ c.action.id \in Actions /\ c.run.step \in Steps
           /\ EntryOf(d, c.run.id) = Ledger!Absent
           /\ EntryOf(w, c.run.id) = Ledger!Pending(c.action.id, c.run.step)
           /\ \A r : r # c.run.id => EntryOf(w, r) = EntryOf(d, r)
           /\ \A q : EntryOf(d, q).action # c.action.id
<1>1. /\ c \in StagedAction
      /\ FreshRun(d, c) /\ FreshAction(d, c)
      /\ Grown(w, d, {c.run}, {c.action}, {c.checkpoint}, {c.audit})
  BY StagedRows
<1>2. RowsInv(w)
  BY StagedRowsInv
<1>3. c.action.run = c.run.id /\ c.action.status \in OpenStatus
  BY StagedOpenAssumption DEF Staged, ValidStaged, StagedActionMatches
<1>4. c.run.id \in Runs /\ c.action.id \in Actions /\ c.run.step \in Steps
  BY <1>1 DEF StagedAction, RunRow, ActionRow, Steps, Staged
<1>5. EntryOf(d, c.run.id) = Ledger!Absent
  BY <1>1, EntryAbsent DEF FreshRun, RunExists
<1>6. EntryOf(w, c.run.id) = Ledger!Pending(c.action.id, c.run.step)
  <2>1. c.run \in RunsOf(w, c.run.id) /\ c.action \in ActionsOf(w, c.run.id)
    BY <1>1, <1>3 DEF RunsOf, ActionsOf, Grown
  <2>2. (c.action.status = "succeeded") = FALSE
    BY <1>3 DEF OpenStatus
  <2>3. EntryOf(w, c.run.id) =
          [phase |-> IF c.action.status \in OpenStatus THEN "pending" ELSE "completed",
           step |-> c.run.step, action |-> c.action.id,
           success |-> c.action.status = "succeeded"]
    BY <1>2, <2>1, EntryPresent
  <2>. QED
    BY <1>3, <2>2, <2>3 DEF Ledger!Pending
<1>7. ASSUME NEW r, r # c.run.id
      PROVE  EntryOf(w, r) = EntryOf(d, r)
  <2>1. RunsOf(w, r) = RunsOf(d, r) /\ ActionsOf(w, r) = ActionsOf(d, r)
    BY <1>1, <1>3, <1>7 DEF RunsOf, ActionsOf, Grown
  <2>. QED
    BY <1>2, <2>1, EntryDepends
<1>8. \A q : EntryOf(d, q).action # c.action.id
  BY <1>1, <1>4, EntryAction, NoneAssumption DEF FreshAction
<1>. QED
  BY <1>4, <1>5, <1>6, <1>7, <1>8

LEMMA CommittedEntries ==
    ASSUME NEW d \in Database, RowsInv(d), NEW c, NEW w \in Database, Committed(d, c, w)
    PROVE  LET old == EntryOf(d, c.run_id)
           IN  /\ c.run_id \in Runs /\ c.next \in Steps
               /\ old.phase = "pending" /\ c.next > old.step
               /\ \E ok \in BOOLEAN :
                    EntryOf(w, c.run_id) = Ledger!Completed(old.action, c.next, ok)
               /\ \A r : r # c.run_id => EntryOf(w, r) = EntryOf(d, r)
<1>1. DatabaseInv(d) /\ RowsInv(w)
  BY CommittedRowsInv DEF RowsInv
<1>2. c \in ActionStepCommit
  BY CommittedRows
<1>3. PICK a0 \in d.actions, x0 \in d.runs : Updates(d, c, w, a0, x0)
  BY <1>1, CommittedUpdates
<1>. DEFINE a1 == [a0 EXCEPT !.status = c.action_status]
            x1 == [x0 EXCEPT !.status = c.run_status, !.step = c.next]
<1>4. /\ a0.id = c.action_id /\ a0.run = c.run_id /\ a0.status \in OpenStatus
      /\ x0.id = c.run_id /\ x0.step = c.expected
      /\ w.actions = (d.actions \ {a0}) \cup {a1} /\ w.runs = (d.runs \ {x0}) \cup {x1}
  BY <1>3 DEF Updates
<1>5. /\ a1.id = a0.id /\ a1.run = c.run_id /\ a1.status = c.action_status
      /\ x1.id = c.run_id /\ x1.step = c.next
  BY <1>4 DEF Database, ActionRow, RunRow
<1>. HIDE DEF a1, x1
<1>6. c.next > c.expected /\ c.next \in Steps /\ c.run_id \in Runs
  BY <1>2 DEF Committed, ValidCommit, StepAdvances, Steps, ActionStepCommit
<1>7. EntryOf(d, c.run_id) = Ledger!Pending(a0.id, c.expected)
  <2>1. x0 \in RunsOf(d, c.run_id) /\ a0 \in ActionsOf(d, c.run_id)
    BY <1>4 DEF RunsOf, ActionsOf
  <2>2. (a0.status = "succeeded") = FALSE
    BY <1>4 DEF OpenStatus
  <2>3. EntryOf(d, c.run_id) =
          [phase |-> IF a0.status \in OpenStatus THEN "pending" ELSE "completed",
           step |-> x0.step, action |-> a0.id, success |-> a0.status = "succeeded"]
    BY <2>1, EntryPresent
  <2>. QED
    BY <1>4, <2>2, <2>3 DEF Ledger!Pending
<1>8. EntryOf(w, c.run_id) = Ledger!Completed(a0.id, c.next, c.action_status = "succeeded")
  <2>1. x1 \in RunsOf(w, c.run_id) /\ a1 \in ActionsOf(w, c.run_id)
    BY <1>4, <1>5 DEF RunsOf, ActionsOf
  <2>2. c.action_status \notin OpenStatus
    BY DEF Committed, ValidCommit, StatusMatchesVerdict, OpenStatus
  <2>. QED
    BY <1>1, <1>5, <2>1, <2>2, EntryPresent DEF Ledger!Completed
<1>9. ASSUME NEW r, r # c.run_id
      PROVE  EntryOf(w, r) = EntryOf(d, r)
  <2>1. RunsOf(w, r) = RunsOf(d, r)
    BY <1>4, <1>5, <1>9 DEF RunsOf
  <2>2. ActionsOf(w, r) = ActionsOf(d, r)
    BY <1>4, <1>5, <1>9 DEF ActionsOf
  <2>. QED
    BY <1>1, <2>1, <2>2, EntryDepends
<1>10. /\ Ledger!Pending(a0.id, c.expected).phase = "pending"
       /\ Ledger!Pending(a0.id, c.expected).step = c.expected
       /\ Ledger!Pending(a0.id, c.expected).action = a0.id
  BY DEF Ledger!Pending
<1>. QED
  BY <1>6, <1>7, <1>8, <1>9, <1>10

Entries == [r \in Runs |-> EntryOf(db, r)]

LEMMA LedgerStep ==
    ASSUME FullInv, [Next]_vars
    PROVE  [Ledger!Next]_Entries
<1>type. db \in Database /\ db' \in Database /\ RowsInv(db) /\ AllInv
  BY NextAllInv DEF FullInv, AllInv, WholeInv, TypeInv, TypeOK
<1>1. CASE db' = db
  BY <1>1 DEF Entries
<1>2. ASSUME NEW p \in Procs, Publish(p)
      PROVE  Ledger!Next
  <2>1. CASE Staged(db, call[p], db')
    <3>. DEFINE r0 == call[p].run.id
                a0 == call[p].action.id
                s0 == call[p].run.step
    <3>1. /\ r0 \in Runs /\ a0 \in Actions /\ s0 \in Steps
          /\ EntryOf(db, r0) = Ledger!Absent
          /\ EntryOf(db', r0) = Ledger!Pending(a0, s0)
          /\ \A r : r # r0 => EntryOf(db', r) = EntryOf(db, r)
          /\ \A q : EntryOf(db, q).action # a0
      BY <1>type, <2>1, StagedEntries
    <3>. HIDE DEF r0, a0, s0
    <3>2. Entries[r0].phase = "absent" /\ \A q \in Runs : Entries[q].action # a0
      BY <3>1 DEF Entries, Ledger!Absent
    <3>3. Entries' = [Entries EXCEPT ![r0] = Ledger!Pending(a0, s0)]
      BY <3>1 DEF Entries
    <3>4. Ledger!Stage(r0)
      BY <3>1, <3>2, <3>3 DEF Ledger!Stage, Entries
    <3>. QED
      BY <3>1, <3>4 DEF Ledger!Next
  <2>2. CASE Committed(db, call[p], db')
    <3>. DEFINE r0 == call[p].run_id
                s0 == call[p].next
                old == EntryOf(db, r0)
    <3>1. /\ r0 \in Runs /\ s0 \in Steps
          /\ old.phase = "pending" /\ s0 > old.step
          /\ \E ok \in BOOLEAN : EntryOf(db', r0) = Ledger!Completed(old.action, s0, ok)
          /\ \A r : r # r0 => EntryOf(db', r) = EntryOf(db, r)
      BY <1>type, <2>2, CommittedEntries
    <3>2. PICK ok \in BOOLEAN : EntryOf(db', r0) = Ledger!Completed(old.action, s0, ok)
      BY <3>1
    <3>3. old = Entries[r0]
      BY <3>1 DEF Entries
    <3>. HIDE DEF r0, s0, old
    <3>4. Entries' = [Entries EXCEPT ![r0] = Ledger!Completed(Entries[r0].action, s0, ok)]
      BY <3>1, <3>2, <3>3 DEF Entries
    <3>5. Ledger!Complete(r0)
      BY <3>1, <3>3, <3>4 DEF Ledger!Complete, Entries
    <3>. QED
      BY <3>1, <3>5 DEF Ledger!Next
  <2>. QED
    BY <1>2, <1>type, <2>1, <2>2, PublishCases
<1>. QED
  BY <1>1, <1>2, DatabaseKept DEF Next, vars

\* Snapshots, retries, races, crashes and lost acknowledgements together are
\* the ledger of StepLedger: a run appears once, with one pending action, and
\* is completed at most once, at a later step and with one verdict.
THEOREM LedgerIsImplemented == Spec => ImplementsLedger
<1>1. Init => Ledger!Init
  <2>. SUFFICES ASSUME Init, NEW r \in Runs PROVE EntryOf(db, r) = Ledger!Absent
    BY DEF Ledger!Init
  <2>. QED
    BY EntryAbsent DEF Init, EmptyDatabase, RunExists
<1>2. FullInv /\ [Next]_vars => [Ledger!Next]_Entries
  BY LedgerStep
<1>. QED
  BY <1>1, <1>2, FullInvariant, PTL DEF Spec, ImplementsLedger, Ledger!Spec, Entries

---------------------------------------------------------------------------
(* Restores.                                                               *)

\* What the SELECTs of load_run_restore say of one run in one database.
Reading(d, r) ==
    [run |-> RunsOf(d, r), checkpoint |-> LatestCheckpoints(d, r),
     actions |-> ActionsOf(d, r), outcomes |-> OutcomesOf(d, r),
     timeline |-> TimelineOf(d, r)]

\* Row, checkpoint, counts and timeline tell the same story.
OneStory(l) ==
    \E x \in l.run, k \in l.checkpoint :
        /\ x.step = k.step
        /\ Cardinality(l.actions) =
              Cardinality(l.outcomes) + (IF k.pending = None THEN 0 ELSE 1)
        /\ Cardinality(l.timeline) = Cardinality(l.actions) + Cardinality(l.outcomes)

\* The audit event of a run that stands for target t.
LEMMA TimelineEvent ==
    ASSUME NEW d \in Database, RowsInv(d), NEW r, NEW e \in TimelineOf(d, r)
    PROVE  \/ \E a \in ActionsOf(d, r) : a.id = e.target /\ a.order = e.seq
           \/ \E o \in OutcomesOf(d, r) : o.id = e.target /\ o.order = e.seq
  BY DEF RowsInv, DatabaseInv, TimelineTells, TimelineOf

\* A run that is pending: one action, no outcome, one event.
LEMMA PendingStory ==
    ASSUME NEW d \in Database, RowsInv(d), NEW r, NEW a \in ActionsOf(d, r),
           a.status \in OpenStatus
    PROVE  /\ ActionsOf(d, r) = {a} /\ OutcomesOf(d, r) = {}
           /\ \E e : TimelineOf(d, r) = {e}
<1>. USE DEF RowsInv, DatabaseInv
<1>1. ActionsOf(d, r) = {a} /\ a \in d.actions /\ a.run = r
  BY DEF Keys, ActionsOf
<1>2. OutcomesOf(d, r) = {}
  <2>. SUFFICES ASSUME NEW o \in OutcomesOf(d, r) PROVE FALSE
    OBVIOUS
  <2>1. o \in d.outcomes /\ o.action = a.id
    BY <1>1 DEF OutcomesOf
  <2>2. PICK b \in d.actions : b.id = o.action /\ b.status = IF o.success THEN "succeeded" ELSE "failed"
    BY <2>1 DEF OneVerdict
  <2>3. b = a
    BY <1>1, <2>1, <2>2 DEF Keys
  <2>. QED
    BY <2>2, <2>3 DEF OpenStatus
<1>3. PICK e \in TimelineOf(d, r) : e.target = a.id
  BY <1>1 DEF TimelineTells
<1>4. \A f \in TimelineOf(d, r) : f.seq = a.order
  BY <1>1, <1>2, TimelineEvent
<1>5. \A f \in TimelineOf(d, r) : f = e
  BY <1>4 DEF TimelineTells, TimelineOf
<1>. QED
  BY <1>1, <1>2, <1>3, <1>5

\* A run that has its verdict: one action, one outcome, two events.
LEMMA CompletedStory ==
    ASSUME NEW d \in Database, RowsInv(d), NEW r, NEW a \in ActionsOf(d, r),
           a.status \notin OpenStatus
    PROVE  /\ ActionsOf(d, r) = {a}
           /\ \E o : OutcomesOf(d, r) = {o}
           /\ \E e, f : e # f /\ TimelineOf(d, r) = {e, f}
<1>. USE DEF RowsInv, DatabaseInv
<1>1. ActionsOf(d, r) = {a} /\ a \in d.actions /\ a.run = r
  BY DEF Keys, ActionsOf
<1>2. a.status \in TerminalStatus /\ a.id \in Actions
  BY <1>1 DEF Database, ActionRow
<1>3. PICK o \in d.outcomes : o.action = a.id
  BY <1>1, <1>2 DEF OneVerdict
<1>4. OutcomesOf(d, r) = {o}
  BY <1>1, <1>3 DEF OneVerdict, OutcomesOf
<1>5. o.id \in Outcomes /\ o.id # a.id
  BY <1>2, DistinctTargetsAssumption DEF Database, OutcomeRow
<1>6. PICK e \in TimelineOf(d, r) : e.target = a.id
  BY <1>1 DEF TimelineTells
<1>7. PICK f \in d.audits : f.target = o.id
  BY DEF TimelineTells
<1>8. f \in TimelineOf(d, r)
  <2>1. f \in TimelineOf(d, f.run)
    BY DEF TimelineOf
  <2>2. ~ \E b \in ActionsOf(d, f.run) : b.id = f.target
    BY <1>5, <1>7, DistinctTargetsAssumption DEF ActionsOf, Database, ActionRow
  <2>3. PICK q \in OutcomesOf(d, f.run) : q.id = o.id
    BY <1>7, <2>1, <2>2, TimelineEvent
  <2>4. q = o
    BY <2>3 DEF OutcomeKeys, OutcomesOf
  <2>5. PICK b \in ActionsOf(d, f.run) : b.id = a.id
    BY <1>3, <2>3, <2>4 DEF OutcomesOf
  <2>6. b = a
    BY <1>1, <2>5 DEF Keys, ActionsOf
  <2>. QED
    BY <1>1, <2>5, <2>6 DEF ActionsOf, TimelineOf
<1>9. \A g \in TimelineOf(d, r) : \/ g.target = a.id /\ g.seq = a.order
                                  \/ g.target = o.id /\ g.seq = o.order
  BY <1>1, <1>4, TimelineEvent
<1>10. \A g \in TimelineOf(d, r) : g = e \/ g = f
  BY <1>5, <1>6, <1>7, <1>8, <1>9 DEF TimelineTells, TimelineOf
<1>. QED
  BY <1>1, <1>4, <1>5, <1>6, <1>7, <1>8, <1>10

LEMMA ReadingTellsOneStory ==
    ASSUME NEW d \in Database, RowsInv(d), NEW r \in Runs,
           RunsOf(d, r) # {}, LatestCheckpoints(d, r) # {}
    PROVE  OneStory(Reading(d, r))
<1>. USE DEF RowsInv, DatabaseInv
<1>1. PICK x \in RunsOf(d, r) : TRUE
  OBVIOUS
<1>2. PICK k \in LatestCheckpoints(d, r) :
        /\ k.step = x.step
        /\ k.pending # None => \E a \in ActionsOf(d, r) : a.id = k.pending
        /\ \A a \in ActionsOf(d, r) : a.status \in OpenStatus => k.pending = a.id
  BY <1>1 DEF ProgressAgrees, RunsOf
<1>3. PICK a \in ActionsOf(d, r) : TRUE
  BY <1>1 DEF RunsHaveActions, RunsOf, ActionsOf
<1>4. a.id # None
  BY NoneAssumption DEF ActionsOf, Database, ActionRow
<1>5. SUFFICES /\ Cardinality(ActionsOf(d, r)) =
                    Cardinality(OutcomesOf(d, r)) + (IF k.pending = None THEN 0 ELSE 1)
               /\ Cardinality(TimelineOf(d, r)) =
                    Cardinality(ActionsOf(d, r)) + Cardinality(OutcomesOf(d, r))
  BY <1>2 DEF OneStory, Reading
<1>6. CASE a.status \in OpenStatus
  <2>1. k.pending # None
    BY <1>2, <1>4, <1>6
  <2>2. PICK e : TimelineOf(d, r) = {e}
    BY <1>6, PendingStory
  <2>3. ActionsOf(d, r) = {a} /\ OutcomesOf(d, r) = {}
    BY <1>6, PendingStory
  <2>4. /\ Cardinality(ActionsOf(d, r)) = 1 /\ Cardinality(OutcomesOf(d, r)) = 0
        /\ Cardinality(TimelineOf(d, r)) = 1
    BY <2>2, <2>3, FS_EmptySet, FS_Singleton
  <2>. QED
    BY <2>1, <2>4
<1>7. CASE a.status \notin OpenStatus
  <2>1. ActionsOf(d, r) = {a}
    BY <1>7, CompletedStory
  <2>2. k.pending = None
    BY <1>2, <1>7, <2>1 DEF PendingIsOpen
  <2>3. PICK o : OutcomesOf(d, r) = {o}
    BY <1>7, CompletedStory
  <2>4. PICK e, f : e # f /\ TimelineOf(d, r) = {e, f}
    BY <1>7, CompletedStory
  <2>5. IsFiniteSet({e}) /\ Cardinality({e}) = 1
    BY FS_Singleton
  <2>6. Cardinality({e} \cup {f}) = 2
    <3>1. Cardinality({e} \cup {f}) = Cardinality({e}) + 1
      BY <2>4, <2>5, FS_AddElement
    <3>. QED
      BY <2>5, <3>1
  <2>7. TimelineOf(d, r) = {e} \cup {f}
    BY <2>4
  <2>8. Cardinality(ActionsOf(d, r)) = 1 /\ Cardinality(OutcomesOf(d, r)) = 1
    BY <2>1, <2>3, FS_Singleton
  <2>. QED
    BY <2>2, <2>6, <2>7, <2>8
<1>. QED
  BY <1>6, <1>7

\* RestoreIsConsistent is not inductive alone.  While a restore reads, its
\* snapshot is a database whose rows agree, and what it has loaded so far is a
\* part of the reading of that one database; a call that does not read loads
\* nothing, so that what an idle process shows is a whole reading or nothing.
ReadSoFar(pt, d, r, l) ==
    /\ pt \in RestorePoints => RowsInv(d)
    /\ pt \in {"load_checkpoint", "load_counts", "load_timeline"} => l.run = RunsOf(d, r)
    /\ pt \in {"load_counts", "load_timeline"} => l.checkpoint = LatestCheckpoints(d, r)
    /\ pt = "load_timeline" => /\ l.run # {} /\ l.checkpoint # {}
                               /\ l.actions = ActionsOf(d, r)
                               /\ l.outcomes = OutcomesOf(d, r)
    /\ pt \in {"begin", "backoff"} \cup StagePoints \cup CommitPoints => l = NothingLoaded
    /\ pt = "idle" => l = NothingLoaded \/ OneStory(l)

Restoring(p) == ReadSoFar(pc[p], work[p], call[p].run_id, loaded[p])

\* A call in progress has no result.
InCall(p) == pc[p] # "idle" => result[p] = "none"

RestoreInv == FullInv /\ \A p \in Procs : Restoring(p) /\ InCall(p)

\* A process that holds no database restores nothing.
LEMMA NothingRestored ==
    ASSUME NEW p \in Procs, pc'[p] \notin RestorePoints, loaded'[p] = NothingLoaded
    PROVE  Restoring(p)'
  BY DEF Restoring, ReadSoFar, RestorePoints

LEMMA LoadStep ==
    ASSUME RestoreInv, NEW p \in Procs, RestoreStep(p)
    PROVE  Restoring(p)'
<1>. DEFINE r == call[p].run_id
            d == work[p]
<1>type. /\ TypeInv /\ d \in Database
         /\ loaded[p] \in LoadedType
         /\ pc[p] \in RestorePoints => r \in Runs
  BY DEF RestoreInv, FullInv, AllInv, WholeInv, TypeInv, TypeOK, CallMatchesPoint,
         RestoreCalls, LoadedType
<1>so. ReadSoFar(pc[p], d, r, loaded[p])
  BY DEF RestoreInv, Restoring
<1>1. ASSUME NEW here, NEW next, NEW value, Load(p, here, next, value)
      PROVE  /\ pc[p] = here /\ pc'[p] = next /\ loaded'[p] = value
             /\ work'[p] = d /\ call'[p] = call[p]
  BY <1>1, <1>type DEF Load, TypeInv, TypeOK
<1>2. ASSUME NEW res, Return(p, res) PROVE pc'[p] = "idle"
  BY <1>2, <1>type DEF Return, TypeInv, TypeOK
<1>3. CASE LoadRun(p)
  <2>1. /\ pc[p] = "load_run" /\ pc'[p] = "load_checkpoint" /\ work'[p] = d
        /\ call'[p] = call[p]
        /\ loaded'[p] = [loaded[p] EXCEPT !.run = RunsOf(d, r)]
    BY <1>1, <1>3 DEF LoadRun
  <2>2. loaded'[p].run = RunsOf(d, r)
    BY <2>1, <1>type DEF LoadedType
  <2>3. RowsInv(d)
    BY <1>so, <2>1 DEF ReadSoFar, RestorePoints
  <2>. QED
    BY <2>1, <2>2, <2>3 DEF Restoring, ReadSoFar, StagePoints, CommitPoints
<1>4. CASE LoadCheckpoint(p)
  <2>1. /\ pc[p] = "load_checkpoint" /\ pc'[p] = "load_counts" /\ work'[p] = d
        /\ call'[p] = call[p]
        /\ loaded'[p] = [loaded[p] EXCEPT !.checkpoint = LatestCheckpoints(d, r)]
    BY <1>1, <1>4 DEF LoadCheckpoint
  <2>2. RowsInv(d) /\ loaded[p].run = RunsOf(d, r)
    BY <1>so, <2>1 DEF ReadSoFar, RestorePoints
  <2>3. /\ loaded'[p].run = RunsOf(d, r)
        /\ loaded'[p].checkpoint = LatestCheckpoints(d, r)
    BY <2>1, <2>2, <1>type DEF LoadedType
  <2>. QED
    BY <2>1, <2>2, <2>3 DEF Restoring, ReadSoFar, StagePoints, CommitPoints
<1>5. CASE LoadMissing(p)
  <2>1. pc'[p] = "idle" /\ loaded'[p] = NothingLoaded
    BY <1>2, <1>5, <1>type DEF LoadMissing, TypeInv, TypeOK
  <2>. QED
    BY <2>1, NothingRestored DEF RestorePoints
<1>6. CASE LoadCounts(p)
  <2>1. /\ pc[p] = "load_counts" /\ pc'[p] = "load_timeline" /\ work'[p] = d
        /\ call'[p] = call[p]
        /\ loaded[p].run # {} /\ loaded[p].checkpoint # {}
        /\ loaded'[p] = [loaded[p] EXCEPT !.actions = ActionsOf(d, r),
                                          !.outcomes = OutcomesOf(d, r)]
    BY <1>1, <1>6 DEF LoadCounts
  <2>2. /\ RowsInv(d) /\ loaded[p].run = RunsOf(d, r)
        /\ loaded[p].checkpoint = LatestCheckpoints(d, r)
    BY <1>so, <2>1 DEF ReadSoFar, RestorePoints
  <2>3. /\ loaded'[p].run = loaded[p].run /\ loaded'[p].checkpoint = loaded[p].checkpoint
        /\ loaded'[p].actions = ActionsOf(d, r)
        /\ loaded'[p].outcomes = OutcomesOf(d, r)
    BY <2>1, <1>type DEF LoadedType
  <2>. QED
    BY <2>1, <2>2, <2>3 DEF Restoring, ReadSoFar, StagePoints, CommitPoints
<1>7. CASE LoadTimeline(p)
  <2>1. /\ pc[p] = "load_timeline" /\ pc'[p] = "idle"
        /\ loaded'[p] = [loaded[p] EXCEPT !.timeline = TimelineOf(d, r)]
    BY <1>2, <1>7, <1>type DEF LoadTimeline, TypeInv, TypeOK, LoadedType
  <2>2. /\ RowsInv(d) /\ r \in Runs
        /\ loaded[p].run = RunsOf(d, r) /\ loaded[p].checkpoint = LatestCheckpoints(d, r)
        /\ loaded[p].run # {} /\ loaded[p].checkpoint # {}
        /\ loaded[p].actions = ActionsOf(d, r) /\ loaded[p].outcomes = OutcomesOf(d, r)
    BY <1>so, <1>type, <2>1 DEF ReadSoFar, RestorePoints
  <2>3. loaded'[p] = Reading(d, r)
    BY <2>1, <2>2, <1>type DEF LoadedType, Reading
  <2>4. OneStory(loaded'[p])
    BY <1>type, <2>2, <2>3, ReadingTellsOneStory
  <2>. QED
    BY <2>1, <2>4 DEF Restoring, ReadSoFar, RestorePoints, StagePoints, CommitPoints
<1>. QED
  BY <1>3, <1>4, <1>5, <1>6, <1>7 DEF RestoreStep

\* A step that neither begins a transaction nor reads clears what was loaded,
\* or leaves the nothing that a writing call has loaded.
LEMMA OtherStep ==
    ASSUME RestoreInv, NEW p \in Procs, Call(p) \/ Progress(p) \/ Abandon(p),
           ~Begin(p), ~RestoreStep(p)
    PROVE  pc'[p] \notin RestorePoints /\ loaded'[p] = NothingLoaded
<1>type. TypeInv
  BY DEF RestoreInv, FullInv, AllInv, WholeInv
<1>. USE DEF RestorePoints
<1>so. pc[p] \in {"begin", "backoff"} \cup StagePoints \cup CommitPoints =>
          loaded[p] = NothingLoaded
  BY DEF RestoreInv, Restoring, ReadSoFar
<1>1. ASSUME NEW res, Return(p, res) PROVE pc'[p] = "idle"
  BY <1>1, <1>type DEF Return, TypeInv, TypeOK
<1>2. ASSUME NEW here \in StagePoints \cup CommitPoints,
             NEW next \in StagePoints \cup CommitPoints, NEW ok, NEW after, NEW error,
             Statement(p, here, next, ok, after, error)
      PROVE  pc'[p] \notin RestorePoints /\ loaded'[p] = NothingLoaded
  BY <1>1, <1>2, <1>so, <1>type DEF Statement, TypeInv, TypeOK, StagePoints, CommitPoints
<1>3. CASE StageStep(p)
  BY <1>2, <1>3 DEF StageStep, StageDevices, StageRun, StageAction, StageCheckpoint,
                    StageAudit, StagePoints
<1>4. CASE CommitStep(p)
  BY <1>2, <1>4 DEF CommitStep, CommitUpdateAction, CommitInsertOutcome, CommitUpdateRun,
                    CommitInsertCheckpoint, CommitInsertAudit, CommitPoints
<1>5. CASE CommitAcknowledged(p) \/ CommitUnacknowledged(p)
  BY <1>1, <1>5, <1>so DEF CommitAcknowledged, CommitUnacknowledged, Publish, StagePoints,
                           CommitPoints
<1>6. CASE SerializationFailure(p)
  BY <1>1, <1>6, <1>type DEF SerializationFailure, TypeInv, TypeOK
<1>7. CASE Retry(p)
  BY <1>7, <1>so, <1>type DEF Retry, TypeInv, TypeOK
<1>8. CASE Call(p)
  BY <1>8, <1>type DEF Call, TypeInv, TypeOK
<1>9. CASE Abandon(p)
  BY <1>1, <1>9, <1>type DEF Abandon, TypeInv, TypeOK
<1>. QED
  BY <1>3, <1>4, <1>5, <1>6, <1>7, <1>8, <1>9 DEF Progress

LEMMA ResultStep ==
    ASSUME RestoreInv, NEW p \in Procs, Call(p) \/ Progress(p) \/ Abandon(p)
    PROVE  InCall(p)'
<1>type. TypeInv /\ InCall(p)
  BY DEF RestoreInv, FullInv, AllInv, WholeInv
<1>. USE DEF TypeInv, TypeOK, InCall
<1>1. ASSUME NEW res, Return(p, res) PROVE pc'[p] = "idle"
  BY <1>1, <1>type DEF Return
<1>2. ASSUME NEW here, NEW next, NEW ok, NEW after, NEW error, here # "idle",
             Statement(p, here, next, ok, after, error)
      PROVE  InCall(p)'
  BY <1>1, <1>2, <1>type DEF Statement
<1>3. ASSUME NEW here, NEW next, NEW value, here # "idle", Load(p, here, next, value)
      PROVE  InCall(p)'
  BY <1>3, <1>type DEF Load
<1>4. CASE Call(p)
  BY <1>4, <1>type DEF Call
<1>5. CASE Begin(p) \/ Retry(p)
  BY <1>5, <1>type DEF Begin, Retry
<1>6. CASE StageStep(p)
  BY <1>2, <1>6 DEF StageStep, StageDevices, StageRun, StageAction, StageCheckpoint, StageAudit
<1>7. CASE CommitStep(p)
  BY <1>2, <1>7 DEF CommitStep, CommitUpdateAction, CommitInsertOutcome, CommitUpdateRun,
                    CommitInsertCheckpoint, CommitInsertAudit
<1>8. CASE RestoreStep(p)
  BY <1>1, <1>3, <1>8 DEF RestoreStep, LoadRun, LoadCheckpoint, LoadMissing, LoadCounts,
                          LoadTimeline
<1>9. CASE CommitAcknowledged(p) \/ CommitUnacknowledged(p)
  BY <1>1, <1>9 DEF CommitAcknowledged, CommitUnacknowledged
<1>10. CASE SerializationFailure(p)
  BY <1>1, <1>10, <1>type DEF SerializationFailure, InTransaction, StagePoints, CommitPoints,
                              RestorePoints
<1>11. CASE Abandon(p)
  BY <1>1, <1>11 DEF Abandon
<1>. QED
  BY <1>4, <1>5, <1>6, <1>7, <1>8, <1>9, <1>10, <1>11 DEF Progress

LEMMA NextRestoreInv == RestoreInv /\ [Next]_vars => RestoreInv'
<1>. SUFFICES ASSUME RestoreInv, [Next]_vars
              PROVE  \A q \in Procs : Restoring(q)' /\ InCall(q)'
  BY NextFullInv DEF RestoreInv
<1>1. CASE UNCHANGED vars
  BY <1>1 DEF vars, RestoreInv, Restoring, InCall
<1>2. ASSUME NEW p \in Procs, Call(p) \/ Progress(p) \/ Abandon(p), NEW q \in Procs
      PROVE  Restoring(q)' /\ InCall(q)'
  <2>type. TypeInv /\ RowsInv(db)
    BY DEF RestoreInv, FullInv, AllInv, WholeInv
  <2>1. CASE q # p
    <3>1. /\ pc'[q] = pc[q] /\ work'[q] = work[q] /\ call'[q] = call[q]
          /\ loaded'[q] = loaded[q] /\ result'[q] = result[q]
      BY <1>2, <2>1, <2>type, Frame, HistoryFrame
    <3>. QED
      BY <3>1 DEF RestoreInv, Restoring, InCall
  <2>2. CASE q = p /\ Begin(p)
    <3>1. /\ pc'[p] \in {"stage_devices", "update_action", "load_run"}
          /\ work'[p] = db /\ loaded'[p] = NothingLoaded
      BY <2>2, <2>type, BeginMoves
    <3>2. Restoring(p)'
      BY <2>2, <2>type, <3>1 DEF Restoring, ReadSoFar
    <3>. QED
      BY <1>2, <2>2, <3>2, ResultStep
  <2>3. CASE q = p /\ RestoreStep(p)
    BY <1>2, <2>3, LoadStep, ResultStep
  <2>4. CASE q = p /\ ~Begin(p) /\ ~RestoreStep(p)
    BY <1>2, <2>4, OtherStep, NothingRestored, ResultStep
  <2>. QED
    BY <2>1, <2>2, <2>3, <2>4
<1>. QED
  BY <1>1, <1>2 DEF Next

\* A restore that returns rows returns one moment of the run: its row, its
\* latest checkpoint, its counts and its timeline, whatever was committed
\* between the SELECTs of load_run_restore.
THEOREM RestoresAreConsistent == Spec => []RestoreIsConsistent
<1>1. Init => \A p \in Procs : Restoring(p) /\ InCall(p)
  BY DEF Init, Restoring, ReadSoFar, RestorePoints, InCall
<1>2. RestoreInv => RestoreIsConsistent
  <2>. SUFFICES ASSUME RestoreInv, NEW p \in Procs, result[p] = "ok",
                       loaded[p] # NothingLoaded
                PROVE  OneStory(loaded[p])
    BY DEF RestoreIsConsistent, OneStory
  <2>. QED
    BY DEF RestoreInv, Restoring, ReadSoFar, InCall
<1>. QED
  BY <1>1, <1>2, NextRestoreInv, FullInvariant, PTL DEF Spec, RestoreInv

---------------------------------------------------------------------------
(* The whole calls on any database, for those who make them one at a time. *)

LEMMA SeededRowsInv ==
    ASSUME NEW rows \in SUBSET DeviceRow
    PROVE  /\ [EmptyDatabase EXCEPT !.devices = rows] \in Database
           /\ RowsInv([EmptyDatabase EXCEPT !.devices = rows])
<1>. DEFINE d == [EmptyDatabase EXCEPT !.devices = rows]
<1>1. /\ d.runs = {} /\ d.actions = {} /\ d.outcomes = {} /\ d.checkpoints = {} /\ d.audits = {}
      /\ d \in Database
  BY DEF EmptyDatabase, Database
<1>. HIDE DEF d
<1>2. DatabaseInv(d)
  BY <1>1 DEF DatabaseInv, Keys, References, ProgressAgrees, OneVerdict, TimelineTells
<1>3. RunsHaveActions(d) /\ OutcomeKeys(d) /\ PendingIsOpen(d)
  BY <1>1 DEF RunsHaveActions, OutcomeKeys, PendingIsOpen, LatestCheckpoints
<1>. QED
  BY <1>1, <1>2, <1>3 DEF RowsInv, d

LEMMA SqlStagedKeepsRows ==
    ASSUME NEW d \in Database, RowsInv(d), NEW c \in StageCalls, ValidStaged(c),
           SqlStaged(d, c).result = "ok"
    PROVE  SqlStaged(d, c).db \in Database /\ RowsInv(SqlStaged(d, c).db)
<1>. DEFINE w == InsertAudit(CheckpointStaged(d, c), c.audit)
<1>1. /\ InsertRunOk(DevicesStaged(d, c), c.run)
      /\ InsertActionOk(RunStaged(d, c), c.action)
      /\ InsertCheckpointOk(ActionStaged(d, c), c.checkpoint)
      /\ InsertAuditOk(CheckpointStaged(d, c), c.audit)
      /\ SqlStaged(d, c).db = w
  BY DEF SqlStaged, Accepted, Refused, DevicesStaged, RunStaged, ActionStaged, CheckpointStaged
<1>2. c \in StagedAction
  BY CallsAssumption
<1>3. w \in Database
  BY <1>2, UpsertDevicesType, InsertTypes
  DEF StagedAction, DevicesStaged, RunStaged, ActionStaged, CheckpointStaged
<1>4. Staged(d, c, w)
  BY <1>1 DEF Staged, StageSoFar
<1>. HIDE DEF w
<1>. QED
  BY <1>1, <1>3, <1>4, StagedRowsInv

LEMMA SqlCommittedKeepsRows ==
    ASSUME NEW d \in Database, RowsInv(d), NEW c \in CommitCalls, ValidCommit(c),
           SqlCommitted(d, c).result = "ok"
    PROVE  SqlCommitted(d, c).db \in Database /\ RowsInv(SqlCommitted(d, c).db)
<1>. DEFINE w == InsertAudit(CheckpointCommitted(d, c), c.audit)
<1>1. /\ UpdateActionOk(d, c)
      /\ InsertOutcomeOk(ActionUpdated(d, c), c.outcome)
      /\ UpdateRunOk(OutcomeCommitted(d, c), c)
      /\ InsertCheckpointOk(RunUpdated(d, c), c.checkpoint)
      /\ InsertAuditOk(CheckpointCommitted(d, c), c.audit)
      /\ SqlCommitted(d, c).db = w
  BY DEF SqlCommitted, Accepted, Refused, ActionUpdated, OutcomeCommitted, RunUpdated,
         CheckpointCommitted
<1>2. c \in ActionStepCommit
  BY CallsAssumption
<1>3. w \in Database
  BY <1>2, UpdateTypes, InsertTypes
  DEF ActionStepCommit, ActionUpdated, OutcomeCommitted, RunUpdated, CheckpointCommitted
<1>4. Committed(d, c, w)
  BY <1>1 DEF Committed, CommitSoFar, CommitPoints
<1>. HIDE DEF w
<1>. QED
  BY <1>1, <1>3, <1>4, CommittedRowsInv
====================================================================================
