---------------------------- MODULE LedgerTables ----------------------------
(***************************************************************************)
(* The relational side of LabLedger's structured memory: the tables of     *)
(* migrations/001_init.sql that a staged action touches, the SQL           *)
(* statements of db/psycopg_repository.py as operators on a database       *)
(* state, and the constraints the server enforces on each statement.       *)
(*                                                                         *)
(* A table is a set of rows, a row a record with the columns the           *)
(* properties tell apart.  Timestamps, names, JSON payloads and embeddings *)
(* are left out, and with them the CHECKs on timestamps and the unique     *)
(* name of a device; StructuredMemory has a call such a refusal ends among *)
(* those that end with an error (Abandon).                                 *)
(*                                                                         *)
(* Every statement S comes as a pair: SOk(d, ...) says that                *)
(* the server accepts it and that it affects the rows the code expects,    *)
(* S(d, ...) is the database it leaves behind.                             *)
(*                                                                         *)
(* A definition named Faulty... is a slip the code could have made in the  *)
(* definition that follows it; nothing uses it here, PROJECT.json pairs it *)
(* with the property that would notice.                                    *)
(***************************************************************************)
EXTENDS Naturals, FiniteSets

CONSTANTS
    Runs, Actions, Outcomes, Checkpoints, Audits, Devices,  \* row identifiers
    Calibrations,                                           \* calibration ids
    None                                                    \* SQL NULL

\* NULL is the identifier of no action and of no calibration.
ASSUME NoneAssumption == None \notin Actions \cup Calibrations

OpenStatus     == {"proposed", "running"}
TerminalStatus == {"succeeded", "failed"}
RunStatus      == {"planned", "running", "paused", "failed", "completed"}
ConnectionState == {"disconnected", "connected", "fault"}

DeviceRow ==
    [id : Devices, connection_state : ConnectionState,
     calibration : Calibrations \cup {None}]

RunRow == [id : Runs, status : RunStatus, step : Nat]

ActionRow ==
    [id : Actions, run : Runs, device : Devices, order : Nat,
     status : OpenStatus \cup TerminalStatus]

OutcomeRow == [id : Outcomes, action : Actions, order : Nat, success : BOOLEAN]

\* The part of the agent_state document that repeats relational columns.
AgentState ==
    [current_step : Nat, pending : Actions \cup {None}, completed : SUBSET Actions]

CheckpointRow ==
    [id : Checkpoints, run : Runs, step : Nat, last : Actions \cup {None},
     pending : Actions \cup {None}, state : AgentState]

AuditRow == [id : Audits, run : Runs, seq : Nat, target : Actions \cup Outcomes]

Database ==
    [devices : SUBSET DeviceRow, runs : SUBSET RunRow, actions : SUBSET ActionRow,
     outcomes : SUBSET OutcomeRow, checkpoints : SUBSET CheckpointRow,
     audits : SUBSET AuditRow]

EmptyDatabase ==
    [devices |-> {}, runs |-> {}, actions |-> {}, outcomes |-> {},
     checkpoints |-> {}, audits |-> {}]

---------------------------------------------------------------------------
(* INSERT INTO devices ... ON CONFLICT (id) DO UPDATE: every column of the *)
(* excluded row wins, except that a NULL calibration keeps the stored one. *)

Coalesced(d, row) ==
    IF row.calibration = None
    THEN {[row EXCEPT !.calibration = x.calibration] : x \in {y \in d.devices : y.id = row.id}}
    ELSE {row}

FaultyUpsertedDevice(d, row) == {row}

UpsertedDevice(d, row) ==
    IF \E x \in d.devices : x.id = row.id THEN Coalesced(d, row) ELSE {row}

UpsertDevices(d, rows) ==
    [d EXCEPT !.devices = {x \in @ : \A row \in rows : row.id # x.id}
                          \cup UNION {UpsertedDevice(d, row) : row \in rows}]

---------------------------------------------------------------------------
(* The plain INSERTs.  Primary keys, UNIQUE and FOREIGN KEY constraints    *)
(* are those 001_init.sql names.                                           *)

InsertRunOk(d, row) == \A x \in d.runs : x.id # row.id

InsertRun(d, row) == [d EXCEPT !.runs = @ \cup {row}]

InsertActionOk(d, row) ==
    /\ row.order > 0
    /\ \A x \in d.actions : x.id # row.id /\ (x.run = row.run => x.order # row.order)
    /\ \E x \in d.runs : x.id = row.run
    /\ \E x \in d.devices : x.id = row.device

InsertAction(d, row) == [d EXCEPT !.actions = @ \cup {row}]

InsertOutcomeOk(d, row) ==
    /\ row.order > 0
    /\ \A x \in d.outcomes : x.id # row.id /\ x.action # row.action
    /\ \E x \in d.actions : x.id = row.action

InsertOutcome(d, row) == [d EXCEPT !.outcomes = @ \cup {row}]

RefersToAction(d, a) == a = None \/ \E x \in d.actions : x.id = a

InsertCheckpointOk(d, row) ==
    /\ \A x \in d.checkpoints : x.id # row.id /\ (x.run = row.run => x.step # row.step)
    /\ \E x \in d.runs : x.id = row.run
    /\ RefersToAction(d, row.last)
    /\ RefersToAction(d, row.pending)

InsertCheckpoint(d, row) == [d EXCEPT !.checkpoints = @ \cup {row}]

InsertAuditOk(d, row) ==
    /\ row.seq > 0
    /\ \A x \in d.audits : x.id # row.id /\ (x.run = row.run => x.seq # row.seq)
    /\ \E x \in d.runs : x.id = row.run

InsertAudit(d, row) == [d EXCEPT !.audits = @ \cup {row}]

---------------------------------------------------------------------------
(* The two guarded UPDATEs of commit_action_step.  Their WHERE clauses are *)
(* the compare-and-set of the step; "rowcount # 1" is "no such row", since *)
(* the id is a primary key.                                                *)

ActionIsOpen(x, c) ==
    /\ x.id = c.action_id
    /\ x.run = c.run_id
    /\ x.status \in OpenStatus

UpdateActionOk(d, c) == \E x \in d.actions : ActionIsOpen(x, c)

FaultyUpdateAction(d, c) == d

UpdateAction(d, c) ==
    [d EXCEPT !.actions =
        {IF ActionIsOpen(x, c) THEN [x EXCEPT !.status = c.action_status] ELSE x : x \in @}]

RunIsAtExpectedStep(x, c) == x.id = c.run_id /\ x.step = c.expected

UpdateRunOk(d, c) == \E x \in d.runs : RunIsAtExpectedStep(x, c)

FaultyUpdateRun(d, c) ==
    [d EXCEPT !.runs =
        {IF RunIsAtExpectedStep(x, c) THEN [x EXCEPT !.status = c.run_status] ELSE x : x \in @}]

UpdateRun(d, c) ==
    [d EXCEPT !.runs =
        {IF RunIsAtExpectedStep(x, c)
         THEN [x EXCEPT !.status = c.run_status, !.step = c.next] ELSE x : x \in @}]

---------------------------------------------------------------------------
(* The two writing transactions as a whole: what a caller that is alone    *)
(* with the database sees.  A statement that is not accepted rolls back    *)
(* everything before it.                                                   *)

Refused(d, how)   == [result |-> how, db |-> d]
Accepted(d)       == [result |-> "ok", db |-> d]

SqlStaged(d, c) ==
    LET devices    == UpsertDevices(d, c.devices)
        run        == InsertRun(devices, c.run)
        action     == InsertAction(run, c.action)
        checkpoint == InsertCheckpoint(action, c.checkpoint)
    IN IF /\ InsertRunOk(devices, c.run)
          /\ InsertActionOk(run, c.action)
          /\ InsertCheckpointOk(action, c.checkpoint)
          /\ InsertAuditOk(checkpoint, c.audit)
       THEN Accepted(InsertAudit(checkpoint, c.audit)) ELSE Refused(d, "constraint")

\* The two guarded UPDATEs end in a conflict, the INSERTs in a constraint; the
\* first that fails decides.
SqlCommitted(d, c) ==
    LET action     == UpdateAction(d, c)
        outcome    == InsertOutcome(action, c.outcome)
        run        == UpdateRun(outcome, c)
        checkpoint == InsertCheckpoint(run, c.checkpoint)
    IN IF ~UpdateActionOk(d, c) THEN Refused(d, "conflict")
       ELSE IF ~InsertOutcomeOk(action, c.outcome) THEN Refused(d, "constraint")
       ELSE IF ~UpdateRunOk(outcome, c) THEN Refused(d, "conflict")
       ELSE IF InsertCheckpointOk(run, c.checkpoint) /\ InsertAuditOk(checkpoint, c.audit)
       THEN Accepted(InsertAudit(checkpoint, c.audit)) ELSE Refused(d, "constraint")

---------------------------------------------------------------------------
(* The SELECTs of load_run_restore.                                        *)

RunsOf(d, r)     == {x \in d.runs : x.id = r}
ActionsOf(d, r)  == {x \in d.actions : x.run = r}
OutcomesOf(d, r) == {o \in d.outcomes : \E x \in ActionsOf(d, r) : x.id = o.action}
TimelineOf(d, r) == {x \in d.audits : x.run = r}

\* ORDER BY step_no DESC ... LIMIT 1; (run, step) is unique, so the tie-break
\* columns never decide.
LatestCheckpoints(d, r) ==
    {k \in d.checkpoints :
        k.run = r /\ \A j \in d.checkpoints : j.run = r => j.step <= k.step}

---------------------------------------------------------------------------
(* What the rows of a database owe each other.                             *)

\* The latest checkpoint of a run has the run's step, in its column and in its
\* agent state, and says that an action is pending exactly when that action of
\* the run has no verdict yet.
ProgressAgrees(d) ==
    \A x \in d.runs : \E k \in LatestCheckpoints(d, x.id) :
        /\ k.step = x.step
        /\ k.state.current_step = x.step
        /\ k.state.pending = k.pending
        /\ k.pending # None => \E a \in ActionsOf(d, x.id) : a.id = k.pending
        /\ \A a \in ActionsOf(d, x.id) :
              IF a.status \in OpenStatus THEN k.pending = a.id
                                         ELSE k.last = a.id /\ a.id \in k.state.completed

\* An action is terminal exactly when it has an outcome, it has only one, and
\* its status agrees with the verdict.
OneVerdict(d) ==
    /\ \A a \in d.actions :
          a.status \in TerminalStatus => \E o \in d.outcomes : o.action = a.id
    /\ \A o \in d.outcomes : \E a \in d.actions :
          /\ a.id = o.action
          /\ a.status = IF o.success THEN "succeeded" ELSE "failed"
    /\ \A o, q \in d.outcomes : o.action = q.action => o = q

\* Every audit event stands, with its sequence number, for a stored action or
\* outcome of its run; none is missing and no two share a number.
TimelineTells(d) ==
    /\ \A e \in d.audits :
          \/ \E a \in ActionsOf(d, e.run) : a.id = e.target /\ a.order = e.seq
          \/ \E o \in OutcomesOf(d, e.run) : o.id = e.target /\ o.order = e.seq
    /\ \A a \in d.actions : \E e \in TimelineOf(d, a.run) : e.target = a.id
    /\ \A o \in d.outcomes : \E e \in d.audits : e.target = o.id
    /\ \A e, f \in d.audits : (e.run = f.run /\ e.seq = f.seq) => e = f

=============================================================================
