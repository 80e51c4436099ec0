----------------------------- MODULE MCVectorMemory -----------------------------
(* Finite instances of VectorMemory: the two calibration memories, one of which *)
(* supersedes the other, and an intervention; two gates whose environments name *)
(* different models, and an importer with the model of the first.               *)
EXTENDS VectorMemory

CONSTANTS g1, g2, v1, v2, intervention, titan, older, test, short

MCMemories == {v1, v2, intervention}

MCSuperseder == [m \in MCMemories |-> IF m = v1 THEN v2 ELSE None]

MCModel == [g \in {g1, g2} |-> IF g = g1 THEN titan ELSE older]

MCProviders == {titan, older, test, short}

\* A whole tuple, the version chain alone, and tuples the guards refuse.
MCImportCalls ==
    {{Embedded(m, titan) : m \in MCMemories},
     {Embedded(v1, titan), Embedded(v2, titan)},
     {Embedded(v2, titan), Embedded(intervention, test)},
     {Embedded(intervention, short)},
     {}}
================================================================================
