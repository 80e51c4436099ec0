----------------------------- MODULE MCTraceMapping -----------------------------
(***************************************************************************)
(* Built traces of up to five records on two devices, and small traces that *)
(* no builder made: orders that repeat, skip or start at zero, outcomes    *)
(* without an action or with another's, unknown devices.                   *)
(***************************************************************************)
EXTENDS TraceMapping

Record(orders, devs) == [order : orders, device : devs, type : {"any"}]

Outcome(orders, refs, devs, verdicts) ==
    {[order |-> n, device |-> d, action_order |-> k, success |-> v[1], error |-> v[2]]
     : n \in orders, k \in refs, d \in devs, v \in verdicts}

UpTo(n, S) == UNION {[1 .. k -> S] : k \in 0 .. n}

DeviceState ==
    [connection : {"connected", "disconnected", "fault"}, resource : BOOLEAN,
     faults : {{}, {"STALE_RESOURCE"}}]

MCCheckpoints ==
    {[d \in Catalog |-> IF d = "d1" THEN x
                        ELSE [connection |-> "disconnected", resource |-> FALSE,
                              faults |-> {}]] : x \in DeviceState}

\* The states of the simulator a scenario ends in.
Quiet == [d \in Catalog |-> [connection |-> "connected", resource |-> TRUE, faults |-> {}]]

Trace(os, as, vs) ==
    {[observations |-> o, actions |-> a, outcomes |-> v, checkpoint |-> Quiet]
     : o \in os, a \in as, v \in vs}

\* One action with up to two outcomes, and two actions with up to two.
MCOtherTraces ==
    Trace(UpTo(1, Record({1}, {"d1", "unknown"})), UpTo(1, Record(1 .. 2, {"d1"})),
          UpTo(2, Outcome(2 .. 3, 1 .. 2, Catalog, {<<TRUE, FALSE>>, <<TRUE, TRUE>>})))
    \cup
    Trace(UpTo(1, Record({0, 1, 3}, {"d1"})), UpTo(2, Record(1 .. 3, {"d1"})),
          UpTo(2, Outcome(2 .. 4, 1 .. 3, {"d1"}, {<<FALSE, TRUE>>})))
================================================================================
