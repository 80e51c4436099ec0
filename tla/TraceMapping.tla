------------------------------ MODULE TraceMapping ------------------------------
(***************************************************************************)
(* From a scenario to rows: the _TraceBuilder of devices/scenarios.py      *)
(* records observations, attempted actions and outcomes under one counter, *)
(* build() closes the trace, map_trace validates it and maps it, and       *)
(* save_trace of an empty database would store the rows.                   *)
(*                                                                         *)
(* Callers may also map a trace no builder made (the mapper is public and  *)
(* validates): those are the members of OtherTraces.                       *)
(***************************************************************************)
EXTENDS TraceTables

CONSTANTS
    OtherTraces,    \* traces mapped besides the built ones
    Checkpoints,    \* the device section of lab.checkpoint_state() at build()
    RunId, BaseTime,
    MaxRecords      \* bound: records of a built trace

ASSUME BoundAssumption == MaxRecords \in Nat /\ BaseTime \in Nat

\* The three collections of a ScenarioTrace are tuples, whoever made it.
ASSUME OtherTracesAssumption ==
    \A t \in OtherTraces :
        /\ t.observations \in Seq(Range(t.observations))
        /\ t.actions \in Seq(Range(t.actions))
        /\ t.outcomes \in Seq(Range(t.outcomes))

VARIABLES
    observations, actions, outcomes,    \* the builder's lists
    next_order,
    trace,      \* the trace built or handed over, None before
    rows        \* what map_trace returned: None, "invalid" or TraceRows

vars == <<observations, actions, outcomes, next_order, trace, rows>>

Init ==
    /\ observations = <<>>
    /\ actions = <<>>
    /\ outcomes = <<>>
    /\ next_order = 1
    /\ trace = None
    /\ rows = [kind |-> "none"]

Recording == trace = None /\ next_order <= MaxRecords

Observe(d) ==
    /\ Recording
    /\ observations' = Append(observations, [order |-> next_order, device |-> d, type |-> "any"])
    /\ next_order' = next_order + 1
    /\ UNCHANGED <<actions, outcomes, trace, rows>>

Attempt(d) ==
    /\ Recording
    /\ actions' = Append(actions, [order |-> next_order, device |-> d, type |-> "any"])
    /\ next_order' = next_order + 1
    /\ UNCHANGED <<observations, outcomes, trace, rows>>

\* outcome takes any record attempt returned; the scenarios give each action
\* one outcome, with an error only when it failed.
RecordOutcome(a, success, error) ==
    /\ Recording
    /\ \A o \in Range(outcomes) : o.action_order # a.order
    /\ outcomes' = Append(outcomes, [order |-> next_order, device |-> a.device,
                                     action_order |-> a.order, success |-> success,
                                     error |-> error])
    /\ next_order' = next_order + 1
    /\ UNCHANGED <<observations, actions, trace, rows>>

Build(c) ==
    /\ trace = None
    /\ trace' = [observations |-> observations, actions |-> actions,
                 outcomes |-> outcomes, checkpoint |-> c]
    /\ UNCHANGED <<observations, actions, outcomes, next_order, rows>>

HandOver(t) ==
    /\ trace' = t
    /\ UNCHANGED <<observations, actions, outcomes, next_order, rows>>

Map ==
    /\ trace # None
    /\ rows.kind = "none"
    /\ rows' = IF ValidTrace(trace)
                 THEN [kind |-> "rows", rows |-> MapTrace(trace, RunId, BaseTime)]
                 ELSE [kind |-> "invalid"]
    /\ UNCHANGED <<observations, actions, outcomes, next_order, trace>>

Next ==
    \/ \E d \in Catalog : Observe(d) \/ Attempt(d)
    \/ \E a \in Range(actions), v \in {<<TRUE, FALSE>>, <<FALSE, TRUE>>, <<FALSE, FALSE>>} :
          RecordOutcome(a, v[1], v[2])
    \/ \E c \in Checkpoints : Build(c)
    \/ next_order = 1 /\ trace = None /\ \E t \in OtherTraces : HandOver(t)
    \/ Map

Spec == Init /\ [][Next]_vars

---------------------------------------------------------------------------
(* Properties.                                                             *)

Mapped == rows.kind = "rows"

Built ==
    /\ trace # None
    /\ trace.observations = observations
    /\ trace.actions = actions
    /\ trace.outcomes = outcomes

\* The validator refuses nothing a scenario can build: a builder's trace with
\* at least one record, every action concluded and a checkpoint of a state the
\* simulator can be in, is mapped (_validate_trace, _checkpoint_snapshot).
ScenariosAreMapped ==
    /\ Built
    /\ rows.kind # "none"
    /\ next_order > 1
    /\ Len(outcomes) = Len(actions)
    /\ CheckpointIsCoherent(trace.checkpoint)
    => Mapped

\* The rows of any accepted trace tell one story: the timeline has one event
\* for each place from one to the run's step, every stored record stands at
\* its own place in it, each action has exactly one outcome and a status that
\* agrees, and the checkpoint names the last action, all actions as completed
\* and none as pending; what it would restore as connected is what the devices
\* table shows (connection_state and active_faults of DeviceRecord and
\* agent_state.device_states come from the same snapshot).
RowsTellTheTrace ==
    Mapped =>
      LET r == rows.rows
          n == r.run.step
      IN /\ {e.seq : e \in r.audits} = 1 .. n
         /\ Cardinality(r.audits) = n
         /\ Cardinality(r.observations) + Cardinality(r.actions) + Cardinality(r.outcomes) = n
         /\ \A x \in r.observations \cup r.actions \cup r.outcomes :
               \E e \in r.audits : e.seq = x.order /\ e.target = x.id
         /\ \A a \in r.actions : \E o \in r.outcomes :
               /\ o.action = a.id
               /\ a.status = IF o.success THEN "succeeded" ELSE "failed"
               /\ a.executed = o.at
               /\ \A q \in r.outcomes : q.action = a.id => q = o
         /\ r.checkpoint.step = n
         /\ r.checkpoint.agent_state.current_step = n
         /\ r.checkpoint.agent_state.completed_action_ids = Ids(r.actions)
         /\ r.actions # {} => r.checkpoint.last \in Ids(r.actions)
         /\ \A a \in r.actions, b \in r.actions :
               r.checkpoint.last = a.id => b.order <= a.order
         /\ \A x \in r.devices :
               LET restored == r.checkpoint.agent_state.device_states[x.id]
               IN /\ restored.connection = x.connection
                  /\ restored.faults = x.faults
                  /\ restored.resource => x.connection = "connected"

\* Mapping the trace a builder made never produces rows the schema refuses
\* (001_init.sql), whatever was observed, attempted and concluded in whatever
\* order.
BuiltRowsAreStorable ==
    Built /\ Mapped => TraceConstraints(SavedTrace(EmptyTables, rows.rows))
================================================================================
