----------------------------- MODULE FakeRepository -----------------------------
(***************************************************************************)
(* FakeStructuredMemoryRepository of db/fake.py, the repository the unit   *)
(* tests use in place of the database: staging, committing and restoring   *)
(* steps, beside the tables the SQL repository would hold after the same   *)
(* calls.                                                                  *)
(*                                                                         *)
(* The fake keeps dictionaries by id; as in LedgerTables a dictionary is a *)
(* set of rows, and assigning to a key replaces the row of that id.  One   *)
(* thread uses it, but a commit can fail between two assignments, at       *)
(* fail_at: it works on a deep copy and swaps it in at the end.            *)
(***************************************************************************)
EXTENDS StepCalls

CONSTANTS SeededDevices     \* devices both repositories hold before the first call

ASSUME SeededDevicesAssumption == SeededDevices \subseteq DeviceRow

\* No call ended differently is not a way to end.
ASSUME NotPartedAssumption ==
    \A x, y \in {"ok", "conflict", "constraint", "injected"} : None # [fake |-> x, sql |-> y]

VARIABLES
    state,      \* _state of the fake
    copy,       \* the deep copy a commit is working on
    point,      \* the next assignment of commit_action_step, or "idle"
    call,       \* the commit in progress
    fail_at,    \* where the test lets a commit fail
    sql,        \* the tables of the SQL repository after the same calls
    outcome,    \* how the last call ended, in the fake and in SQL
    parted      \* how the first call ended that the two took differently

vars == <<state, copy, point, call, fail_at, sql, outcome, parted>>

FailPoints ==
    {"after_action_update", "after_outcome_insert", "after_run_update",
     "after_checkpoint_insert_before_commit"}

NoEnd == [fake |-> "none", sql |-> "none"]

Init ==
    /\ state = [EmptyDatabase EXCEPT !.devices = SeededDevices]
    /\ copy = EmptyDatabase
    /\ point = "idle"
    /\ call = None
    /\ fail_at = None
    /\ sql = state
    /\ outcome = NoEnd
    /\ parted = None

\* table[row.id] = row.
Put(table, row) == {x \in table : x.id # row.id} \cup {row}

PutAll(table, rows) == {x \in table : \A row \in rows : x.id # row.id} \cup rows

\* A call ends in both repositories; a failure a test injects stands for a
\* transaction that is rolled back.
EndCall(how, inSql) ==
    LET end == [fake |-> how, sql |-> inSql.result]
    IN /\ outcome' = end
       /\ sql' = inSql.db
       /\ parted' = IF parted = None /\ (end.fake = "ok") # (end.sql = "ok") THEN end ELSE parted

\* Once a call was taken differently there is nothing left to compare.
Comparing == point = "idle" /\ parted = None

SetFailAt ==
    /\ Comparing
    /\ \E f \in FailPoints \cup {None} : f # fail_at /\ fail_at' = f
    /\ UNCHANGED <<state, copy, point, call, sql, outcome, parted>>

Staged(d, c) ==
    [devices     |-> PutAll(d.devices, c.devices),
     runs        |-> Put(d.runs, c.run),
     actions     |-> Put(d.actions, c.action),
     outcomes    |-> d.outcomes,
     checkpoints |-> Put(d.checkpoints, c.checkpoint),
     audits      |-> Put(d.audits, c.audit)]

\* Nothing can fail between the first assignment and the swap.
StageAction ==
    /\ Comparing
    /\ \E c \in StageCalls :
          IF ValidStaged(c)
          THEN state' = Staged(state, c) /\ EndCall("ok", SqlStaged(sql, c))
          ELSE EndCall("conflict", Refused(sql, "conflict")) /\ UNCHANGED state
    /\ UNCHANGED <<copy, point, call, fail_at>>

---------------------------------------------------------------------------
(* commit_action_step.                                                     *)

FaultyMayCommit(d, c) ==
    /\ \E r \in d.runs : r.id = c.run_id
    /\ \E a \in d.actions : a.id = c.action_id /\ a.run = c.run_id /\ a.status \in OpenStatus
    /\ \A o \in d.outcomes : o.action # c.action_id
    /\ \A k \in d.checkpoints : ~(k.run = c.run_id /\ k.step = c.next)
\* The checks before the first assignment, in any order: each ends the call
\* with the same error.
MayCommit(d, c) ==
    /\ \E r \in d.runs : r.id = c.run_id /\ r.step = c.expected
    /\ \E a \in d.actions : a.id = c.action_id /\ a.run = c.run_id /\ a.status \in OpenStatus
    /\ \A o \in d.outcomes : o.action # c.action_id
    /\ \A k \in d.checkpoints : ~(k.run = c.run_id /\ k.step = c.next)

BeginCommit ==
    /\ Comparing
    /\ \E c \in CommitCalls :
          IF ValidCommit(c) /\ MayCommit(state, c)
          THEN /\ point' = "update_action"
               /\ call' = c
               /\ copy' = state
               /\ UNCHANGED <<sql, outcome, parted>>
          ELSE /\ EndCall("conflict",
                          IF ValidCommit(c) THEN SqlCommitted(sql, c) ELSE Refused(sql, "conflict"))
               /\ UNCHANGED <<point, call, copy>>
    /\ UNCHANGED <<state, fail_at>>

\* The call returns or raises, and its copy is garbage.
CallOver ==
    /\ point' = "idle"
    /\ call' = None
    /\ copy' = EmptyDatabase

FaultyAssign(here, next, failure, after) ==
    /\ point = here
    /\ IF fail_at = failure
       THEN EndCall("injected", Refused(sql, "injected")) /\ CallOver /\ state' = after
       ELSE /\ point' = next
            /\ copy' = after
            /\ UNCHANGED <<call, sql, outcome, parted, state>>
    /\ UNCHANGED fail_at
\* An assignment to the copy, and _maybe_fail after it: the exception leaves
\* _state as it was.
Assign(here, next, failure, after) ==
    /\ point = here
    /\ IF fail_at = failure
       THEN EndCall("injected", Refused(sql, "injected")) /\ CallOver
       ELSE point' = next /\ copy' = after /\ UNCHANGED <<call, sql, outcome, parted>>
    /\ UNCHANGED <<state, fail_at>>

UpdateStoredAction ==
    Assign("update_action", "insert_outcome", "after_action_update", UpdateAction(copy, call))

PutOutcome ==
    Assign("insert_outcome", "update_run", "after_outcome_insert",
           [copy EXCEPT !.outcomes = Put(@, call.outcome)])

UpdateStoredRun ==
    Assign("update_run", "insert_checkpoint", "after_run_update", UpdateRun(copy, call))

PutCheckpoint ==
    Assign("insert_checkpoint", "insert_audit", "after_checkpoint_insert_before_commit",
           [copy EXCEPT !.checkpoints = Put(@, call.checkpoint)])

\* The last assignment and self._state = state.
PutAuditAndSwap ==
    /\ point = "insert_audit"
    /\ state' = [copy EXCEPT !.audits = Put(@, call.audit)]
    /\ EndCall("ok", SqlCommitted(sql, call))
    /\ CallOver
    /\ UNCHANGED fail_at

Next ==
    \/ SetFailAt
    \/ StageAction
    \/ BeginCommit
    \/ UpdateStoredAction
    \/ PutOutcome
    \/ UpdateStoredRun
    \/ PutCheckpoint
    \/ PutAuditAndSwap

Spec == Init /\ [][Next]_vars

---------------------------------------------------------------------------
(* load_run_restore of the fake.                                           *)

NewestCheckpoint(d, r) ==
    CHOOSE k \in d.checkpoints :
        k.run = r /\ \A j \in d.checkpoints : j.run = r => j.step <= k.step

OutcomeCount(d, r) ==
    Cardinality({o \in d.outcomes : \E a \in d.actions : a.run = r /\ a.id = o.action})

CanRestore(d, r) == r \in {x.id : x \in d.runs} /\ r \in {k.run : k \in d.checkpoints}

LoadRunRestore(d, r) ==
    [run           |-> CHOOSE x \in d.runs : x.id = r,
     checkpoint    |-> NewestCheckpoint(d, r),
     timeline      |-> {e \in d.audits : e.run = r},
     action_count  |-> Cardinality({a \in d.actions : a.run = r}),
     outcome_count |-> OutcomeCount(d, r)]

---------------------------------------------------------------------------
(* Properties.                                                             *)

\* COALESCE is not imitated: a device of the fake forgets its calibration.
WithoutCalibration(d) ==
    [d EXCEPT !.devices = {[x EXCEPT !.calibration = None] : x \in @}]

\* What the fake restores tells one story about a run (load_run_restore): step,
\* pending action, counts and timeline agree.
RestoreTells ==
    \A r \in Runs : CanRestore(state, r) =>
        LET x == LoadRunRestore(state, r)
        IN /\ x.run.step = x.checkpoint.step
           /\ x.action_count = x.outcome_count + (IF x.checkpoint.pending = None THEN 0 ELSE 1)
           /\ Cardinality(x.timeline) = x.action_count + x.outcome_count

\* As long as the two accepted the same calls they hold the same rows, between
\* calls and in the middle of one, whatever failures were injected (the
\* copy-on-write of commit_action_step, STATUS.md:235), and the fake restores
\* from them what a database would.
FollowsSql ==
    parted = None => WithoutCalibration(state) = WithoutCalibration(sql) /\ RestoreTells

\* The fake refuses nothing the database would accept, and everything the
\* guarded UPDATEs refuse: the first call the two take differently is one that
\* a key, a foreign key or a CHECK refuses and the fake stores.  A test of a
\* stale step or of a second verdict means the same on both.
PartsOnlyAtConstraints == parted # None => parted = [fake |-> "ok", sql |-> "constraint"]
================================================================================
