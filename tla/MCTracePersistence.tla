--------------------------- MODULE MCTracePersistence ---------------------------
(***************************************************************************)
(* Instances of TracePersistence and of FakeTraces with the traces and     *)
(* seeds the code makes.  A behaviour is one of the database's processes   *)
(* or of a test on the fake; they have nothing in common but the calls.    *)
(***************************************************************************)
EXTENDS TracePersistence, FakeTraces, HeroSeeds

MCCatalog == {"signal_source_01", "scope_01", "mux_01", "temperature_01"}

TraceCall(rows) == [kind |-> "trace", traces |-> <<rows>>]

\* The default seed and one of another base time.
Seed == HeroSeed(100)
OtherSeed == HeroSeed(101)

\* The seed of test_fake_repository.py that is refused after its traces.
MisplacedSeed == [Seed EXCEPT !.active_device = "signal_source_01"]

\* What the gate's writer saves besides the seed: scenario A under a fresh run
\* id, at a later base time.
Later == TraceCall(MapTrace(ScenarioA, "run_x", 300))

MCSeeds == {Seed, OtherSeed, MisplacedSeed}

OneSeed == {Seed}
MCTraces == {Later}

MCInit == Init /\ FakeInit

NoCallYet == call = [p \in Procs |-> None] /\ result = [p \in Procs |-> "none"]

NoTestYet == sql = EmptyTables /\ sofar = "accepted"

MCNext ==
    \/ NoTestYet /\ Next /\ UNCHANGED fakeVars
    \/ NoCallYet /\ FakeNext /\ UNCHANGED vars

MCSpec == MCInit /\ [][MCNext]_<<vars, fakeVars>>
================================================================================
