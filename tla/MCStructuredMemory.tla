------------------------- MODULE MCStructuredMemory -------------------------
(***************************************************************************)
(* Small instances of StructuredMemory: the calls of a race for one run,   *)
(* and (MCStepCalls) one caller that makes every mistake.                  *)
(***************************************************************************)
EXTENDS StructuredMemory, MCStepCalls

(* The race: two agents may stage the run, commit opposite verdicts for    *)
(* the same step or different next steps, and restore in between.          *)

RaceStageCalls == {StageOf(r1, a1, 0, 1, k0, e0, {Snapshot("connected")})}

RaceCommitCalls ==
    {CommitOf(r1, a1, 0, 2, TRUE, o1, k1, e1),
     CommitOf(r1, a1, 0, 2, FALSE, o2, k2, e2)}
=============================================================================
