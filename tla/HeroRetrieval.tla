--------------------------- MODULE HeroRetrieval ---------------------------
(***************************************************************************)
(* The memories of the hero seed and the two queries the live gate asks of *)
(* them (backend/app/db/mapping.py, scripts/verify_p3.py). The gate passes *)
(* or fails with what the embedding model finds similar; the properties    *)
(* say how much of it depends on the model. Times count days.              *)
(***************************************************************************)
EXTENDS Retrieval

\* An absent field is no value of the field.
ASSUME NoneAssumption == None \notin BOOLEAN

Row(status, type, device, from, until, next, success) ==
    [status |-> status, type |-> type, device |-> device, confidence |-> 4, validFrom |-> from,
     validUntil |-> until, supersededBy |-> next, success |-> success, embedded |-> TRUE]

ConnectionRecovery == 1
InterventionResult == 2
CalibrationV1 == 3
CalibrationV2 == 4

HeroMemories ==
    [i \in 1 .. 4 |->
        CASE i = ConnectionRecovery -> Row("active", "connection_recovery", "scope_01", 1, None, None, TRUE)
          [] i = InterventionResult -> Row("active", "intervention_result", "signal_source_01", 1, None, None, TRUE)
          [] i = CalibrationV1 -> Row("superseded", "calibration_fact", "scope_01", 1, 2, CalibrationV2, None)
          [] i = CalibrationV2 -> Row("active", "calibration_fact", "scope_01", 2, None, None, None)]

RelevantContext ==
    [asOf |-> 9, types |-> {}, devices |-> {"temperature_01", "scope_01", "signal_source_01"},
     topK |-> 3, candidateLimit |-> 12]

CalibrationContext ==
    [asOf |-> 9, types |-> {"calibration_fact"}, devices |-> {"scope_01"},
     topK |-> 3, candidateLimit |-> 12]

-----------------------------------------------------------------------------
(* Properties.                                                             *)

Asked(context) == Answered /\ memories = HeroMemories /\ query.context = context

\* The calibration query shows both versions and lets exactly the current one
\* support an action (verify_p3.py:206-216).
CalibrationIsTold ==
    Asked(CalibrationContext) =>
        Ranked = {CalibrationV1, CalibrationV2} /\ answer.evidence = {CalibrationV2}

\* The intervention is within the first three of four (verify_p3.py:192),
\* unless the model finds the superseded calibration more similar to the
\* anomaly by three fifths of the unit and the current one by a quarter.
InterventionHasMargin ==
    Asked(RelevantContext) /\ InterventionResult \notin Ranked =>
        /\ 5 * (query.similarity[CalibrationV1] - query.similarity[InterventionResult]) > 3 * Scale
        /\ 4 * (query.similarity[CalibrationV2] - query.similarity[InterventionResult]) > Scale

\* What the live gate demands of the two answers holds for every similarity
\* the model could give, but for one stated combination.
LiveGateHasMargin == CalibrationIsTold /\ InterventionHasMargin
=============================================================================
