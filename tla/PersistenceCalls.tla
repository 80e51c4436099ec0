---------------------------- MODULE PersistenceCalls ----------------------------
(***************************************************************************)
(* The calls of save_trace and save_hero_seed: what TracePersistence lets  *)
(* processes call, and FakeTraces a test.                                  *)
(***************************************************************************)
EXTENDS TraceTables

CONSTANTS
    TraceCalls,     \* [kind |-> "trace", traces |-> <<rows>>]: save_trace(rows)
    SeedCalls       \* seeds: save_hero_seed(seed)

Calls == TraceCalls \cup SeedCalls

AllTraces == UNION {Range(c.traces) : c \in Calls}

ASSUME CallsAssumption ==
    /\ None \notin Calls
    /\ \A c \in TraceCalls : /\ c.kind = "trace"
                            /\ c.traces \in Seq(AllTraces) /\ Len(c.traces) = 1
    /\ \A c \in SeedCalls : /\ c.kind = "seed"
                           /\ c.traces \in Seq(AllTraces) /\ Len(c.traces) = 2

\* Traces are what map_trace makes, and equal fingerprints mean equal traces.
ASSUME TracesAssumption ==
    /\ \A t \in AllTraces : OwnRows(t)
    /\ \A t, u \in AllTraces :
          IF t.run.id = u.run.id THEN t.run.fingerprint = u.run.fingerprint => t = u
          ELSE OwnIds(t, u)
================================================================================
