------------------------------- MODULE StepCalls -------------------------------
(***************************************************************************)
(* The calls of StructuredMemoryRepository about one step of a run, their  *)
(* arguments, and the validation of db/repository.py that every            *)
(* implementation applies to them before it touches anything.              *)
(***************************************************************************)
EXTENDS LedgerTables

CONSTANTS
    StageCalls,         \* the StagedAction arguments callers may pass
    CommitCalls         \* the ActionStepCommit arguments callers may pass

StagedAction ==
    [kind : {"stage"}, devices : SUBSET DeviceRow, run : RunRow, action : ActionRow,
     checkpoint : CheckpointRow, audit : AuditRow]

ActionStepCommit ==
    [kind : {"commit"}, run_id : Runs, action_id : Actions, expected : Nat, next : Nat,
     action_status : OpenStatus \cup TerminalStatus, outcome : OutcomeRow,
     run_status : RunStatus, checkpoint : CheckpointRow, audit : AuditRow]

RestoreCalls == [kind : {"restore"}, run_id : Runs]

Calls == StageCalls \cup CommitCalls \cup RestoreCalls

\* The arguments are of the record types; nothing else is assumed of a commit.
ASSUME CallsAssumption ==
    /\ StageCalls \subseteq StagedAction
    /\ CommitCalls \subseteq ActionStepCommit

\* Nothing in the code checks the status of the action a caller stages as
\* pending: that it is still open is the caller's side of the contract.
ASSUME StagedOpenAssumption == \A c \in StageCalls : c.action.status \in OpenStatus

ASSUME DistinctTargetsAssumption == Actions \cap Outcomes = {}

---------------------------------------------------------------------------
(* validate_staged_action and validate_action_step_commit, the checks      *)
(* grouped by the record they look at.                                     *)

StagedActionMatches(c) ==
    /\ c.action.run = c.run.id
    /\ \E row \in c.devices : row.id = c.action.device

StagedCheckpointMatches(c) ==
    /\ c.checkpoint.run = c.run.id
    /\ c.checkpoint.step = c.run.step
    /\ c.checkpoint.pending = c.action.id
    /\ c.checkpoint.state.current_step = c.run.step
    /\ c.checkpoint.state.pending = c.action.id

StagedAuditMatches(c) ==
    /\ c.audit.run = c.run.id
    /\ c.audit.target = c.action.id
    /\ c.audit.seq = c.action.order

ValidStaged(c) ==
    /\ StagedActionMatches(c)
    /\ StagedCheckpointMatches(c)
    /\ StagedAuditMatches(c)

FaultyStepAdvances(c) == c.next # c.expected

StepAdvances(c) == c.next > c.expected

OutcomeMatches(c) ==
    /\ c.outcome.action = c.action_id
    /\ c.outcome.order = c.next

StatusMatchesVerdict(c) ==
    c.action_status = IF c.outcome.success THEN "succeeded" ELSE "failed"

CheckpointMatches(c) ==
    /\ c.checkpoint.run = c.run_id
    /\ c.checkpoint.step = c.next
    /\ c.checkpoint.last = c.action_id
    /\ c.checkpoint.pending = None

AgentStateMatches(c) ==
    /\ c.checkpoint.state.current_step = c.next
    /\ c.checkpoint.state.pending = None
    /\ c.action_id \in c.checkpoint.state.completed

FaultyAuditMatches(c) ==
    /\ c.audit.run = c.run_id
    /\ c.audit.seq = c.outcome.order

AuditMatches(c) ==
    /\ c.audit.run = c.run_id
    /\ c.audit.target = c.outcome.id
    /\ c.audit.seq = c.outcome.order

ValidCommit(c) ==
    /\ StepAdvances(c)
    /\ OutcomeMatches(c)
    /\ StatusMatchesVerdict(c)
    /\ CheckpointMatches(c)
    /\ AgentStateMatches(c)
    /\ AuditMatches(c)

Valid(c) ==
    CASE c.kind = "stage"   -> ValidStaged(c)
      [] c.kind = "commit"  -> ValidCommit(c)
      [] c.kind = "restore" -> TRUE
================================================================================
