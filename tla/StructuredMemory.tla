--------------------------- MODULE StructuredMemory ---------------------------
(***************************************************************************)
(* PsycopgStructuredMemoryRepository: agent processes that stage a risky   *)
(* action, commit its outcome and restore a run, each in one transaction   *)
(* of a shared serializable database, inside the bounded retry loop of     *)
(* run_with_serialization_retry.                                           *)
(*                                                                         *)
(* A transaction takes a snapshot, runs its SQL statements one by one on a *)
(* private copy, and publishes the copy at COMMIT only if the snapshot is  *)
(* still current; otherwise, and at any moment the server likes, it gets   *)
(* SQLSTATE 40001.  A connection may break or a process die at any point,  *)
(* also at COMMIT, when the caller cannot know whether it took effect.     *)
(*                                                                         *)
(* A definition named Faulty... is a slip the code could have made in the  *)
(* definition that follows it (see LedgerTables).                          *)
(***************************************************************************)
EXTENDS StepCalls

CONSTANTS
    Procs,              \* concurrent callers of the repository
    SeededDevices,      \* device rows stored before the first call
    MaxAttempts         \* max_attempts of the retry loop

\* run_with_serialization_retry refuses max_attempts < 1 with a ValueError.
ASSUME AttemptsAssumption == MaxAttempts \in Nat \ {0}

ASSUME SeededDevicesAssumption == SeededDevices \subseteq DeviceRow

VARIABLES
    db,         \* the committed database
    pc,         \* where each process is in its call
    call,       \* the argument of the call in progress
    attempt,    \* index of the current attempt of the retry loop
    snap,       \* the database when the open transaction began
    work,       \* the transaction's own view: snap plus its writes
    loaded,     \* what a restore has read so far
    result,     \* how the last call ended
    applied,    \* history: the call in progress, or the last one, changed db
    acks        \* history: acknowledged stages of a run, commits of an action

vars == <<db, pc, call, attempt, snap, work, loaded, result, applied, acks>>

StagePoints   == {"stage_devices", "stage_run", "stage_action", "stage_checkpoint",
                  "stage_audit", "stage_commit"}
CommitPoints  == {"update_action", "insert_outcome", "update_run", "insert_checkpoint",
                  "insert_audit", "step_commit"}
RestorePoints == {"load_run", "load_checkpoint", "load_counts", "load_timeline"}
InTransaction == StagePoints \cup CommitPoints \cup RestorePoints
ControlPoints == {"idle", "begin", "backoff"} \cup InTransaction

Refusals == {"conflict", "constraint", "serialization"}
Results  == {"none", "ok", "missing", "lost"} \cup Refusals

\* action_count and outcome_count are the sizes of the two sets.
NothingLoaded == [run |-> {}, checkpoint |-> {}, actions |-> {}, outcomes |-> {},
                  timeline |-> {}]

\* acks counts stages by run and commits by action.
AckKey(c) == IF c.kind = "stage" THEN <<"stage", c.run.id>> ELSE <<"commit", c.action_id>>
AckKeys == ({"stage"} \X Runs) \cup ({"commit"} \X Actions)

Init ==
    /\ db = [EmptyDatabase EXCEPT !.devices = SeededDevices]
    /\ pc = [p \in Procs |-> "idle"]
    /\ call = [p \in Procs |-> None]
    /\ attempt = [p \in Procs |-> 0]
    /\ snap = [p \in Procs |-> EmptyDatabase]
    /\ work = [p \in Procs |-> EmptyDatabase]
    /\ loaded = [p \in Procs |-> NothingLoaded]
    /\ result = [p \in Procs |-> "none"]
    /\ applied = [p \in Procs |-> FALSE]
    /\ acks = [k \in AckKeys |-> 0]
---------------------------------------------------------------------------
(* The life of a call.                                                     *)

\* The connection is closed and the call returns or raises.
Return(p, res) ==
    /\ pc' = [pc EXCEPT ![p] = "idle"]
    /\ call' = [call EXCEPT ![p] = None]
    /\ attempt' = [attempt EXCEPT ![p] = 0]
    /\ snap' = [snap EXCEPT ![p] = EmptyDatabase]
    /\ work' = [work EXCEPT ![p] = EmptyDatabase]
    /\ result' = [result EXCEPT ![p] = res]

\* A process that is not in a call makes one; validation precedes all SQL.
Call(p) ==
    /\ pc[p] = "idle"
    /\ \E c \in Calls :
        IF Valid(c)
        THEN /\ pc' = [pc EXCEPT ![p] = "begin"]
             /\ call' = [call EXCEPT ![p] = c]
             /\ result' = [result EXCEPT ![p] = "none"]
        ELSE /\ result' = [result EXCEPT ![p] = "conflict"]
             /\ UNCHANGED <<pc, call>>
    /\ applied' = [applied EXCEPT ![p] = FALSE]
    /\ loaded' = [loaded EXCEPT ![p] = NothingLoaded]
    /\ UNCHANGED <<db, attempt, snap, work, acks>>

FirstStatement(c) ==
    CASE c.kind = "stage"   -> "stage_devices"
      [] c.kind = "commit"  -> "update_action"
      [] c.kind = "restore" -> "load_run"

\* psycopg.connect and connection.transaction().
Begin(p) ==
    /\ pc[p] = "begin"
    /\ pc' = [pc EXCEPT ![p] = FirstStatement(call[p])]
    /\ snap' = [snap EXCEPT ![p] = db]
    /\ work' = [work EXCEPT ![p] = db]
    /\ loaded' = [loaded EXCEPT ![p] = NothingLoaded]
    /\ UNCHANGED <<db, call, attempt, result, applied, acks>>

\* One statement of a writing transaction: the work copy moves on, or the
\* transaction rolls back and the error, which is not a 40001, is raised.
Statement(p, here, next, ok, after, error) ==
    /\ pc[p] = here
    /\ IF ok
       THEN /\ pc' = [pc EXCEPT ![p] = next]
            /\ work' = [work EXCEPT ![p] = after]
            /\ UNCHANGED <<call, attempt, snap, result>>
       ELSE Return(p, error)
    /\ UNCHANGED <<db, loaded, applied, acks>>

StageDevices(p) ==
    Statement(p, "stage_devices", "stage_run", TRUE,
              UpsertDevices(work[p], call[p].devices), "constraint")

StageRun(p) ==
    Statement(p, "stage_run", "stage_action", InsertRunOk(work[p], call[p].run),
              InsertRun(work[p], call[p].run), "constraint")

StageAction(p) ==
    Statement(p, "stage_action", "stage_checkpoint", InsertActionOk(work[p], call[p].action),
              InsertAction(work[p], call[p].action), "constraint")

StageCheckpoint(p) ==
    Statement(p, "stage_checkpoint", "stage_audit",
              InsertCheckpointOk(work[p], call[p].checkpoint),
              InsertCheckpoint(work[p], call[p].checkpoint), "constraint")

StageAudit(p) ==
    Statement(p, "stage_audit", "stage_commit", InsertAuditOk(work[p], call[p].audit),
              InsertAudit(work[p], call[p].audit), "constraint")

CommitUpdateAction(p) ==
    Statement(p, "update_action", "insert_outcome", UpdateActionOk(work[p], call[p]),
              UpdateAction(work[p], call[p]), "conflict")

CommitInsertOutcome(p) ==
    Statement(p, "insert_outcome", "update_run", InsertOutcomeOk(work[p], call[p].outcome),
              InsertOutcome(work[p], call[p].outcome), "constraint")

CommitUpdateRun(p) ==
    Statement(p, "update_run", "insert_checkpoint", UpdateRunOk(work[p], call[p]),
              UpdateRun(work[p], call[p]), "conflict")

FaultyCommitInsertCheckpoint(p) ==
    Statement(p, "insert_checkpoint", "step_commit",
              InsertCheckpointOk(work[p], call[p].checkpoint),
              InsertCheckpoint(work[p], call[p].checkpoint), "constraint")

CommitInsertCheckpoint(p) ==
    Statement(p, "insert_checkpoint", "insert_audit",
              InsertCheckpointOk(work[p], call[p].checkpoint),
              InsertCheckpoint(work[p], call[p].checkpoint), "constraint")

CommitInsertAudit(p) ==
    Statement(p, "insert_audit", "step_commit", InsertAuditOk(work[p], call[p].audit),
              InsertAudit(work[p], call[p].audit), "constraint")
---------------------------------------------------------------------------
(* COMMIT of a writing transaction.                                        *)

FaultyPublish(p) ==
    /\ pc[p] \in {"stage_commit", "step_commit"}
    /\ db' = work[p]
    /\ applied' = [applied EXCEPT ![p] = TRUE]

Publish(p) ==
    /\ pc[p] \in {"stage_commit", "step_commit"}
    /\ db = snap[p]
    /\ db' = work[p]
    /\ applied' = [applied EXCEPT ![p] = TRUE]

CommitAcknowledged(p) ==
    /\ Publish(p)
    /\ acks' = [acks EXCEPT ![AckKey(call[p])] = @ + 1]
    /\ Return(p, "ok")
    /\ UNCHANGED loaded

FaultyCommitUnacknowledged(p) ==
    /\ Publish(p)
    /\ pc' = [pc EXCEPT ![p] = "backoff"]
    /\ UNCHANGED <<call, attempt, snap, work, loaded, result, acks>>

\* The COMMIT took effect but its acknowledgement never arrived: the error
\* has no SQLSTATE 40001, or the process is gone.
CommitUnacknowledged(p) ==
    /\ Publish(p)
    /\ Return(p, "lost")
    /\ UNCHANGED <<loaded, acks>>

---------------------------------------------------------------------------
(* load_run_restore: four SELECTs of one transaction, all from its         *)
(* snapshot; a reading transaction has nothing to validate at COMMIT.      *)

Load(p, here, next, value) ==
    /\ pc[p] = here
    /\ pc' = [pc EXCEPT ![p] = next]
    /\ loaded' = [loaded EXCEPT ![p] = value]
    /\ UNCHANGED <<db, call, attempt, snap, work, result, applied, acks>>

LoadRun(p) ==
    Load(p, "load_run", "load_checkpoint",
         [loaded[p] EXCEPT !.run = RunsOf(work[p], call[p].run_id)])

FaultyLoadCheckpoint(p) ==
    Load(p, "load_checkpoint", "load_counts",
         [loaded[p] EXCEPT !.checkpoint = LatestCheckpoints(db, call[p].run_id)])

LoadCheckpoint(p) ==
    Load(p, "load_checkpoint", "load_counts",
         [loaded[p] EXCEPT !.checkpoint = LatestCheckpoints(work[p], call[p].run_id)])

\* The early return when the run or its checkpoint does not exist.
LoadMissing(p) ==
    /\ pc[p] = "load_counts"
    /\ loaded[p].run = {} \/ loaded[p].checkpoint = {}
    /\ Return(p, "missing")
    /\ loaded' = [loaded EXCEPT ![p] = NothingLoaded]
    /\ UNCHANGED <<db, applied, acks>>

LoadCounts(p) ==
    /\ loaded[p].run # {} /\ loaded[p].checkpoint # {}
    /\ Load(p, "load_counts", "load_timeline",
            [loaded[p] EXCEPT !.actions = ActionsOf(work[p], call[p].run_id),
                              !.outcomes = OutcomesOf(work[p], call[p].run_id)])

LoadTimeline(p) ==
    /\ pc[p] = "load_timeline"
    /\ loaded' = [loaded EXCEPT ![p].timeline = TimelineOf(work[p], call[p].run_id)]
    /\ Return(p, "ok")
    /\ UNCHANGED <<db, applied, acks>>
---------------------------------------------------------------------------
(* Failures and the retry loop.                                            *)

FaultySerializationFailure(p) ==
    /\ pc[p] \in InTransaction
    /\ IF attempt[p] = MaxAttempts
       THEN Return(p, "serialization")
       ELSE /\ pc' = [pc EXCEPT ![p] = "backoff"]
            /\ snap' = [snap EXCEPT ![p] = EmptyDatabase]
            /\ work' = [work EXCEPT ![p] = EmptyDatabase]
            /\ UNCHANGED <<call, attempt, result>>
    /\ loaded' = [loaded EXCEPT ![p] = NothingLoaded]
    /\ UNCHANGED <<db, applied, acks>>

\* The server answers 40001: the whole transaction is tried again after a
\* delay, unless this was the last attempt.
SerializationFailure(p) ==
    /\ pc[p] \in InTransaction
    /\ IF attempt[p] + 1 = MaxAttempts
       THEN Return(p, "serialization")
       ELSE /\ pc' = [pc EXCEPT ![p] = "backoff"]
            /\ snap' = [snap EXCEPT ![p] = EmptyDatabase]
            /\ work' = [work EXCEPT ![p] = EmptyDatabase]
            /\ UNCHANGED <<call, attempt, result>>
    /\ loaded' = [loaded EXCEPT ![p] = NothingLoaded]
    /\ UNCHANGED <<db, applied, acks>>

FaultyRetry(p) ==
    /\ pc[p] = "backoff"
    /\ pc' = [pc EXCEPT ![p] = "begin"]
    /\ UNCHANGED <<db, call, attempt, snap, work, loaded, result, applied, acks>>

\* The sleep between two attempts ends.
Retry(p) ==
    /\ pc[p] = "backoff"
    /\ pc' = [pc EXCEPT ![p] = "begin"]
    /\ attempt' = [attempt EXCEPT ![p] = @ + 1]
    /\ UNCHANGED <<db, call, snap, work, loaded, result, applied, acks>>

\* The connection breaks before COMMIT took effect (an error that is not
\* retried), or the process dies and starts again without memory of the call.
\* A statement refused by a CHECK on timestamps (ck_devices_timestamp_order,
\* ck_experiment_runs_timestamp_order, ck_actions_timestamp_order) or by
\* uq_devices_lab_name, whose columns are left out, ends its call here too.
Abandon(p) ==
    /\ pc[p] # "idle"
    /\ Return(p, "lost")
    /\ loaded' = [loaded EXCEPT ![p] = NothingLoaded]
    /\ UNCHANGED <<db, applied, acks>>

StageStep(p) ==
    StageDevices(p) \/ StageRun(p) \/ StageAction(p) \/ StageCheckpoint(p) \/ StageAudit(p)

CommitStep(p) ==
    \/ CommitUpdateAction(p) \/ CommitInsertOutcome(p) \/ CommitUpdateRun(p)
    \/ CommitInsertCheckpoint(p) \/ CommitInsertAudit(p)

RestoreStep(p) ==
    LoadRun(p) \/ LoadCheckpoint(p) \/ LoadMissing(p) \/ LoadCounts(p) \/ LoadTimeline(p)

Progress(p) ==
    \/ Begin(p)
    \/ StageStep(p) \/ CommitStep(p) \/ RestoreStep(p)
    \/ CommitAcknowledged(p) \/ CommitUnacknowledged(p)
    \/ SerializationFailure(p) \/ Retry(p)

Next == \E p \in Procs : Call(p) \/ Progress(p) \/ Abandon(p)

Spec == Init /\ [][Next]_vars

\* A process keeps running its call and the server answers every statement
\* in the end; nobody is obliged to make a call, to crash or to lose one.
FairSpec == Spec /\ \A p \in Procs : WF_vars(Progress(p))
---------------------------------------------------------------------------
(* Properties.                                                             *)

\* The program's state has the shape the code gives it; a transaction is open
\* exactly at the control points inside one.
TypeOK ==
    /\ db \in Database
    /\ pc \in [Procs -> ControlPoints]
    /\ call \in [Procs -> Calls \cup {None}]
    /\ attempt \in [Procs -> 0 .. MaxAttempts - 1]
    /\ snap \in [Procs -> Database]
    /\ work \in [Procs -> Database]
    /\ loaded \in [Procs -> [run : SUBSET RunRow, checkpoint : SUBSET CheckpointRow,
                             actions : SUBSET ActionRow, outcomes : SUBSET OutcomeRow,
                             timeline : SUBSET AuditRow]]
    /\ result \in [Procs -> Results]
    /\ applied \in [Procs -> BOOLEAN]
    /\ acks \in [AckKeys -> Nat]

\* A run's progress and its latest checkpoint never disagree (stage_action and
\* commit_action_step write the two in one transaction): see ProgressAgrees.
RestorePointConsistent == ProgressAgrees(db)

\* However many callers raced to commit it, an action has one verdict or none
\* (WHERE status IN ('proposed', 'running') and uq_outcomes_action): see
\* OneVerdict.
OutcomeExactlyOnce == OneVerdict(db)

\* The timeline a restore shows is the history that happened (the audit rows
\* each transaction writes beside its other rows): see TimelineTells.
TimelineFaithful == TimelineTells(db)

\* The three together, where one caller makes every mistake the validators or
\* the schema have to catch.
LedgerIsSound == RestorePointConsistent /\ OutcomeExactlyOnce /\ TimelineFaithful

\* Of all the calls that ever tried, at most one is told that it staged a run
\* and at most one that it committed an action, and what a caller was told
\* stays true.
AtMostOneWinner ==
    /\ \A k \in AckKeys : acks[k] <= 1
    /\ \A r \in Runs : acks[<<"stage", r>>] = 1 => \E x \in db.runs : x.id = r
    /\ \A a \in Actions : acks[<<"commit", a>>] = 1 =>
          \E x \in db.actions : x.id = a /\ x.status \in TerminalStatus

\* A call that is refused (a conflict, a constraint, 40001 on the last
\* attempt) has changed nothing, although an earlier attempt of it may have
\* run all its statements: only a lost connection leaves the caller in doubt.
NoEffectOnRefusal ==
    \A p \in Procs : result[p] \in Refusals => ~applied[p]

\* What load_run_restore returns is one moment of the run, whoever commits
\* while it reads: row, checkpoint, counts and timeline tell the same story.
RestoreIsConsistent ==
    \A p \in Procs : result[p] = "ok" /\ loaded[p] # NothingLoaded =>
        \E x \in loaded[p].run, k \in loaded[p].checkpoint :
            /\ x.step = k.step
            /\ Cardinality(loaded[p].actions) =
                  Cardinality(loaded[p].outcomes) + (IF k.pending = None THEN 0 ELSE 1)
            /\ Cardinality(loaded[p].timeline) =
                  Cardinality(loaded[p].actions) + Cardinality(loaded[p].outcomes)

\* No step takes evidence back: outcomes, checkpoints and audit events stay as
\* written, runs and actions stay, a run's step never falls, a verdict never
\* changes, and staging with a device snapshot that knows no calibration never
\* erases the one a hero seed made active (COALESCE in _upsert_device).
EvidenceIsAppendOnly ==
    [][ /\ db.outcomes \subseteq db'.outcomes
        /\ db.checkpoints \subseteq db'.checkpoints
        /\ db.audits \subseteq db'.audits
        /\ \A x \in db.runs : \E y \in db'.runs : y.id = x.id /\ y.step >= x.step
        /\ \A a \in db.actions : \E b \in db'.actions :
              b = IF a.status \in TerminalStatus THEN a ELSE [a EXCEPT !.status = b.status]
        /\ \A x \in db.devices : \E y \in db'.devices :
              y.id = x.id /\ (x.calibration # None => y.calibration # None)
      ]_vars

\* Statement by statement a transaction arrives at what the call does as a
\* whole to the snapshot it began with (the order of stage_action and
\* commit_action_step): a whole call may stand for it where calls are compared.
TransactionsAreWhole ==
    \A p \in Procs :
        /\ pc[p] = "stage_commit" => SqlStaged(snap[p], call[p]) = Accepted(work[p])
        /\ pc[p] = "step_commit" => SqlCommitted(snap[p], call[p]) = Accepted(work[p])

\* Every call ends, whatever contention it meets: the retry loop is bounded.
CallsReturn == \A p \in Procs : (pc[p] # "idle") ~> (pc[p] = "idle")

\* What a restore of run r would report.
EntryOf(d, r) ==
    LET x == CHOOSE y \in d.runs : y.id = r
        a == CHOOSE b \in d.actions : b.run = r
    IN  IF \A y \in d.runs : y.id # r
        THEN [phase |-> "absent", step |-> 0, action |-> None, success |-> FALSE]
        ELSE [phase |-> IF a.status \in OpenStatus THEN "pending" ELSE "completed",
              step |-> x.step, action |-> a.id, success |-> a.status = "succeeded"]

Steps == {c.run.step : c \in StageCalls} \cup {c.next : c \in CommitCalls}

Ledger == INSTANCE StepLedger WITH ledger <- [r \in Runs |-> EntryOf(db, r)]

\* Transactions, races, retries and crashes together implement the ledger of
\* StepLedger: each run is staged once and completed at most once, later.
ImplementsLedger == Ledger!Spec

=============================================================================
