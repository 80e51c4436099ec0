------------------------------ MODULE MCStepCalls ------------------------------
(***************************************************************************)
(* Calls about one step: well-formed ones, and the same with one field     *)
(* wrong or one identifier reused each.                                    *)
(***************************************************************************)
EXTENDS StepCalls

CONSTANTS r1, r2, a1, a2, o1, o2, k0, k1, k2, e0, e1, e2, d1, d2, v1, v2

MCSeededDevices ==
    {[id |-> d1, connection_state |-> "disconnected", calibration |-> v1]}

StageState(a, s) == [current_step |-> s, pending |-> a, completed |-> {}]
DoneState(a, s)  == [current_step |-> s, pending |-> None, completed |-> {a}]

\* A well-formed StagedAction: run r at step s, action a of sequence number n.
StageOf(r, a, s, n, k, e, devs) ==
    [kind |-> "stage", devices |-> devs,
     run |-> [id |-> r, status |-> "running", step |-> s],
     action |-> [id |-> a, run |-> r, device |-> d1, order |-> n, status |-> "proposed"],
     checkpoint |-> [id |-> k, run |-> r, step |-> s, last |-> None, pending |-> a,
                     state |-> StageState(a, s)],
     audit |-> [id |-> e, run |-> r, seq |-> n, target |-> a]]

\* A well-formed ActionStepCommit of action a from step s to step n.
CommitOf(r, a, s, n, ok, o, k, e) ==
    [kind |-> "commit", run_id |-> r, action_id |-> a, expected |-> s, next |-> n,
     action_status |-> IF ok THEN "succeeded" ELSE "failed",
     outcome |-> [id |-> o, action |-> a, order |-> n, success |-> ok],
     run_status |-> "running",
     checkpoint |-> [id |-> k, run |-> r, step |-> n, last |-> a, pending |-> None,
                     state |-> DoneState(a, n)],
     audit |-> [id |-> e, run |-> r, seq |-> n, target |-> o]]

Snapshot(conn) == [id |-> d1, connection_state |-> conn, calibration |-> None]

---------------------------------------------------------------------------
(* One caller that makes every mistake: each field validate_staged_action  *)
(* and validate_action_step_commit compare is wrong in one call, and calls *)
(* that pass validation collide with stored rows.                          *)

S1 == StageOf(r1, a1, 1, 1, k0, e0, {Snapshot("connected")})
S2 == StageOf(r2, a2, 2, 3, k2, e2, {Snapshot("fault")})
C1 == CommitOf(r1, a1, 1, 2, TRUE, o1, k1, e1)
C2 == CommitOf(r2, a2, 2, 4, FALSE, o2, k1, e1)

MistakenStageCalls ==
    {[S1 EXCEPT !.run.step = 0],
     [S1 EXCEPT !.checkpoint.step = 2],
     [S1 EXCEPT !.action.run = r2],
     [S1 EXCEPT !.checkpoint.run = r2],
     [S1 EXCEPT !.checkpoint.pending = None],
     [S1 EXCEPT !.audit.run = r2],
     [S1 EXCEPT !.audit.target = a2],
     [S1 EXCEPT !.audit.seq = 2],
     [S1 EXCEPT !.devices = {}],
     [S1 EXCEPT !.checkpoint.state.current_step = 2],
     [S1 EXCEPT !.checkpoint.state.pending = None]}

CollidingStageCalls ==
    {StageOf(r2, a1, 2, 3, k2, e2, {Snapshot("fault")}),
     StageOf(r2, a2, 2, 3, k0, e2, {Snapshot("fault")}),
     StageOf(r2, a2, 2, 3, k2, e0, {Snapshot("fault")}),
     StageOf(r1, a2, 2, 3, k2, e2, {Snapshot("fault")})}

MistakenCommitCalls ==
    {CommitOf(r2, a2, 2, 1, TRUE, o1, k1, e1),
     [C1 EXCEPT !.outcome.action = a2],
     [C1 EXCEPT !.outcome.order = 3],
     [C1 EXCEPT !.action_status = "failed"],
     [C1 EXCEPT !.action_status = "running"],
     [CommitOf(r1, a1, 1, 5, TRUE, o1, k1, e1) EXCEPT !.checkpoint.run = r2],
     [C1 EXCEPT !.checkpoint.step = 3],
     [C1 EXCEPT !.checkpoint.last = None],
     [C1 EXCEPT !.checkpoint.pending = a1],
     [C1 EXCEPT !.audit.run = r2],
     [C1 EXCEPT !.audit.target = o2],
     [C1 EXCEPT !.audit.seq = 3],
     [C1 EXCEPT !.checkpoint.state.current_step = 1],
     [C1 EXCEPT !.checkpoint.state.pending = a1],
     [C1 EXCEPT !.checkpoint.state.completed = {}]}

\* The stale and the colliding commits: a step the run is not at, an action of
\* another run, a checkpoint or audit id that exists (the id reused in
\* test_cockroach_repository.py), an outcome id that exists.
CollidingCommitCalls ==
    {CommitOf(r1, a1, 0, 2, TRUE, o1, k1, e1),
     CommitOf(r1, a1, 2, 3, TRUE, o1, k1, e1),
     CommitOf(r2, a1, 2, 4, TRUE, o1, k1, e1),
     CommitOf(r1, a1, 1, 2, TRUE, o1, k0, e1),
     CommitOf(r1, a1, 1, 2, TRUE, o1, k1, e0),
     CommitOf(r2, a2, 2, 4, TRUE, o1, k1, e1),
     CommitOf(r2, a2, 0, 1, TRUE, o1, k1, e1),
     CommitOf(r2, a2, 2, 3, TRUE, o2, k1, e1)}

MistakeStageCalls == {S1, S2} \cup MistakenStageCalls \cup CollidingStageCalls
MistakeCommitCalls == {C1, C2} \cup MistakenCommitCalls \cup CollidingCommitCalls
================================================================================
