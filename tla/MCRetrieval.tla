---------------------------- MODULE MCRetrieval ----------------------------
(* Small labs for Retrieval: the memories of the hero seed with any        *)
(* similarities, and labs of up to three memories that differ in every     *)
(* field the policy reads.                                                 *)
EXTENDS HeroRetrieval

MCIds == 1 .. 4

Current == Row("active", "calibration_fact", "scope_01", 1, None, None, None)

\* Each kind differs from the current fact in one field or two.
Kinds ==
    {Current,
     [Current EXCEPT !.success = TRUE],
     [Current EXCEPT !.success = FALSE],
     [Current EXCEPT !.success = FALSE, !.confidence = 0, !.device = None],
     [Current EXCEPT !.status = "disputed"],
     [Current EXCEPT !.validFrom = 3],
     [Current EXCEPT !.validUntil = 2],
     [Current EXCEPT !.supersededBy = 1],
     [Current EXCEPT !.status = "superseded", !.supersededBy = 1],
     [Current EXCEPT !.embedded = FALSE]}

MCStores == {HeroMemories} \cup [1 .. 3 -> Kinds]
MCContexts ==
    {RelevantContext, CalibrationContext,
     [asOf |-> 2, types |-> {}, devices |-> {"scope_01"}, topK |-> 1, candidateLimit |-> 2]}
MCSimilarities == {-1, 0, 2, 3}
=============================================================================
