------------------------------- MODULE HeroSeeds -------------------------------
(***************************************************************************)
(* The evidence every deployment starts from: the traces of scenarios A    *)
(* and B, which are deterministic, and build_hero_seed, which adds two     *)
(* versions of a calibration and four memories that cite the traces.       *)
(***************************************************************************)
EXTENDS TraceTables

ConnectedWith(faults) == [connection |-> "connected", resource |-> TRUE, faults |-> faults]
Connected    == ConnectedWith({})
Disconnected == [connection |-> "disconnected", resource |-> FALSE, faults |-> {}]

Observed(n, d, type)  == [order |-> n, device |-> d, type |-> type]
Attempted(n, d, type) == [order |-> n, device |-> d, type |-> type]
Succeeded(n, d, k) == [order |-> n, device |-> d, action_order |-> k, success |-> TRUE,
                       error |-> FALSE]
Failed(n, d, k)    == [order |-> n, device |-> d, action_order |-> k, success |-> FALSE,
                       error |-> TRUE]

ScenarioA ==
    [observations |-> <<Observed(1, "scope_01", "connection_state"),
                        Observed(10, "scope_01", "connection_recovery_verified")>>,
     actions |-> <<Attempted(2, "scope_01", "connect"),
                   Attempted(4, "scope_01", "rediscover_resources"),
                   Attempted(6, "scope_01", "connect"),
                   Attempted(8, "scope_01", "identify")>>,
     outcomes |-> <<Failed(3, "scope_01", 2), Succeeded(5, "scope_01", 4),
                    Succeeded(7, "scope_01", 6), Succeeded(9, "scope_01", 8)>>,
     checkpoint |-> [d \in Catalog |-> IF d = "scope_01" THEN Connected ELSE Disconnected]]

\* discover cleared the stale resource of scenario A; nothing clears the faults
\* of scenario B.
ScenarioB ==
    [observations |-> <<Observed(1, "scope_01", "experimental_anomaly"),
                        Observed(6, "scope_01", "post_intervention_measurement")>>,
     actions |-> <<Attempted(2, "scope_01", "calibration_A"),
                   Attempted(4, "signal_source_01", "reduce_drive_10_percent")>>,
     outcomes |-> <<Failed(3, "scope_01", 2), Succeeded(5, "signal_source_01", 4)>>,
     checkpoint |->
       [d \in Catalog |->
          CASE d = "mux_01" -> Disconnected
            [] d = "scope_01" -> ConnectedWith({"NOISE_RISE", "CALIBRATION_SUPERSEDED"})
            [] d = "temperature_01" -> ConnectedWith({"TEMPERATURE_DRIFT"})
            [] OTHER -> Connected]]

\* build_hero_seed derives the run ids from lab, scenario and seed only, and
\* every time from base_time: seeds of two base times claim the same runs.
HourLater == 20
DayLater  == 50

\* connect is attempted twice and only the success counts; the intervention is
\* attempted once and the code takes it whatever its status.
EvidenceOf(rows, observed, acted) ==
    LET o == CHOOSE x \in rows.observations : x.type = observed
        a == CHOOSE x \in rows.actions : x.type = acted /\ x.status = "succeeded"
        v == CHOOSE x \in rows.outcomes : x.action = a.id
    IN [observation |-> o.id, action |-> a.id, outcome |-> v.id]

Memory(id, run, device, status, from, until, next, sources) ==
    [id |-> id, run |-> run, device |-> device, status |-> status, from |-> from,
     until |-> until, superseded_by |-> next, observation |-> sources.observation,
     action |-> sources.action, outcome |-> sources.outcome]

NoSources == [observation |-> None, action |-> None, outcome |-> None]

HeroSeed(base) ==
    LET a  == MapTrace(ScenarioA, "run_a", base)
        b  == MapTrace(ScenarioB, "run_b", base + HourLater)
        fact1 == [id |-> <<"scope_01", "calibration", 1>>, device |-> "scope_01", version |-> 1,
               status |-> "superseded", from |-> base, until |-> base + DayLater,
               superseded_by |-> <<"scope_01", "calibration", 2>>]
        fact2 == [id |-> <<"scope_01", "calibration", 2>>, device |-> "scope_01", version |-> 2,
               status |-> "active", from |-> base + DayLater, until |-> None,
               superseded_by |-> None]
        m1 == <<"scope_01", "memory", 1>>
        m2 == <<"scope_01", "memory", 2>>
    IN [kind |-> "seed",
        traces |-> <<a, b>>,
        calibrations |-> <<fact2, fact1>>,
        memories |->
          <<Memory(<<"run_a", "memory", 1>>, "run_a", "scope_01", "active", base, None, None,
                   EvidenceOf(a, "connection_state", "connect")),
            Memory(<<"run_b", "memory", 1>>, "run_b", "signal_source_01", "active",
                   base + HourLater, None, None,
                   EvidenceOf(b, "experimental_anomaly", "reduce_drive_10_percent")),
            Memory(m1, None, "scope_01", "superseded", fact1.from, fact1.until, m2, NoSources),
            Memory(m2, None, "scope_01", "active", fact2.from, None, None, NoSources)>>,
        active_device |-> "scope_01",
        active |-> fact2.id]
================================================================================
