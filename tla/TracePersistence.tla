---------------------------- MODULE TracePersistence ----------------------------
(***************************************************************************)
(* save_trace and save_hero_seed of the psycopg repository: processes that *)
(* store finished traces and hero seeds in a shared database, stop at any  *)
(* point, and are started again.                                           *)
(*                                                                         *)
(* Each trace is one transaction, and a hero seed is one transaction for   *)
(* each of its traces and one for its calibrations, memories and the       *)
(* pointer to the active calibration.  Transactions are serializable and   *)
(* run_with_serialization_retry repeats a whole transaction, so each is    *)
(* one step here (StructuredMemory has the machinery in detail); what can  *)
(* happen between two of them, and to the answer of each, is all here.     *)
(***************************************************************************)
EXTENDS PersistenceCalls

CONSTANTS Procs     \* processes

ASSUME DevicesAssumption == \A t \in AllTraces : NewDevices(t)

\* Seeds are those build_hero_seed makes for one lab: they differ in their base
\* time, which the evidence of the first trace includes.
ASSUME SeedsAssumption ==
    \A s, u \in SeedCalls :
        /\ s.traces[1].run.id = u.traces[1].run.id
        /\ s.traces[1] = u.traces[1] =>
              /\ s.traces = u.traces
              /\ s.calibrations = u.calibrations /\ s.memories = u.memories
              /\ s.active = u.active

\* Times are numbers, and the server's clock is past every base time.
ASSUME TimesAssumption ==
    /\ Now \in Nat
    /\ \A t \in AllTraces : \A x \in t.devices :
          x.created \in Nat /\ x.updated \in Nat /\ x.created <= Now

\* The run ids of a seed are derived from the lab, the scenario and its seed;
\* save_trace on its own is called with fresh run ids, or with the first trace
\* of a seed.
ASSUME RunIdsAssumption ==
    \A s \in SeedCalls :
        /\ \A u \in SeedCalls : s.traces[2].run.id # u.traces[1].run.id
        /\ \A c \in TraceCalls : s.traces[2].run.id # c.traces[1].run.id

VARIABLES
    db,         \* the committed tables
    call,       \* the call each process is in, None between calls
    step,       \* index of its next transaction
    result,     \* how its last call ended
    acked       \* calls that returned normally, ever (history)

vars == <<db, call, step, result, acked>>

Init ==
    /\ db = EmptyTables
    /\ call = [p \in Procs |-> None]
    /\ step = [p \in Procs |-> 1]
    /\ result = [p \in Procs |-> "none"]
    /\ acked = {}

Call(p, c) ==
    /\ call[p] = None
    /\ call' = [call EXCEPT ![p] = c]
    /\ step' = [step EXCEPT ![p] = 1]
    /\ UNCHANGED <<db, result, acked>>

End(p, how) ==
    /\ call' = [call EXCEPT ![p] = None]
    /\ step' = [step EXCEPT ![p] = 1]
    /\ result' = [result EXCEPT ![p] = how]
    /\ acked' = IF how = "ok" THEN acked \cup {call[p]} ELSE acked

\* The transaction was committed and the code goes on.
Proceed(p) ==
    IF call[p].kind = "trace" THEN End(p, "ok")
    ELSE step' = [step EXCEPT ![p] = @ + 1] /\ UNCHANGED <<call, result, acked>>

\* COMMIT took effect, but the connection broke or the process died before
\* the answer arrived: psycopg raises an error that is not retried.
Committed(p) == Proceed(p) \/ End(p, "lost")

AtTrace(p) == call[p] # None /\ step[p] <= Len(call[p].traces)

Rows(p) == call[p].traces[step[p]]

\* The run row exists with the same fingerprint: nothing else is touched.
ReplayTrace(p) ==
    /\ AtTrace(p)
    /\ SameEvidence(db, Rows(p))
    /\ UNCHANGED db
    /\ Committed(p)

ConflictingTrace(p) ==
    /\ AtTrace(p)
    /\ RunIsStored(db, Rows(p))
    /\ ~SameEvidence(db, Rows(p))
    /\ End(p, "conflict")
    /\ UNCHANGED db

\* A constraint that does not hold aborts the transaction.
InsertTrace(p) ==
    /\ AtTrace(p)
    /\ ~RunIsStored(db, Rows(p))
    /\ IF TraceConstraints(SavedTrace(db, Rows(p)))
         THEN db' = SavedTrace(db, Rows(p)) /\ Committed(p)
         ELSE End(p, "refused") /\ UNCHANGED db

AtFacts(p) ==
    /\ call[p] # None
    /\ call[p].kind = "seed"
    /\ step[p] = Len(call[p].traces) + 1

SaveFacts(p) ==
    /\ AtFacts(p)
    /\ IF FactsAccepted(db, call[p])
         THEN /\ db' = SavedFacts(db, call[p])
              /\ End(p, "ok") \/ End(p, "lost")
         ELSE End(p, "refused") /\ UNCHANGED db

\* A connection that cannot be made or breaks before COMMIT, 40001 until the
\* attempts are used up, a killed process: the open transaction rolls back,
\* the committed ones stay.
Stop(p) ==
    /\ call[p] # None
    /\ End(p, "lost")
    /\ UNCHANGED db

Next ==
    \E p \in Procs :
        \/ \E c \in Calls : Call(p, c)
        \/ ReplayTrace(p)
        \/ ConflictingTrace(p)
        \/ InsertTrace(p)
        \/ SaveFacts(p)
        \/ Stop(p)

Spec == Init /\ [][Next]_vars

---------------------------------------------------------------------------
(* Properties.                                                             *)

\* The rows of a trace, besides the devices, are all stored.
TraceStored(d, rows) ==
    /\ rows.run \in d.runs
    /\ \A k \in EvidenceTables : EvidenceRows(rows, k) \subseteq d[k]

\* Whoever stored what, and whoever was stopped where, the evidence of a run
\* is one whole trace and nothing else: no row of another version of the run,
\* none missing ("An exact replay is idempotent; reusing a run ID with
\* different evidence is rejected", STATUS.md:200).
EvidenceIsWhole ==
    /\ \A x \in db.runs : \E t \in AllTraces : t.run = x /\ TraceStored(db, t)
    /\ \A k \in EvidenceTables : \A x \in db[k] :
          \E t \in AllTraces : t.run \in db.runs /\ x \in EvidenceRows(t, k)

SeedStored(d, seed) ==
    /\ \A i \in DOMAIN seed.traces : TraceStored(d, seed.traces[i])
    /\ Range(seed.calibrations) \subseteq d.calibrations
    /\ Range(seed.memories) \subseteq d.memories

\* Calibrations and memories are those of one seed, all of them, and only in
\* company of all the traces they cite.
FactsAreOfOneSeed ==
    db.calibrations \cup db.memories # {} =>
        \E seed \in SeedCalls :
            /\ SeedStored(db, seed)
            /\ db.calibrations = Range(seed.calibrations)
            /\ db.memories = Range(seed.memories)

\* A device points to no calibration, or to a stored active one of its own.
ActiveCalibrationIsValid ==
    \A x \in db.devices : x.calibration # None =>
        \E c \in db.calibrations :
            c.id = x.calibration /\ c.device = x.id /\ c.status = "active"

\* Facts come with their evidence, although a seed is stored in several
\* transactions, two processes may store seeds of different base times at once
\* (save_hero_seed: the first trace decides who goes on), no foreign key guards
\* the pointer of a device, and traces saved later carry no calibration.
FactsHaveTheirEvidence == FactsAreOfOneSeed /\ ActiveCalibrationIsValid

\* A call that returned is stored for good, whatever others do later, and the
\* pointer of a seed that returned stays set.
AcknowledgedIsDurable ==
    \A c \in acked :
        IF c.kind = "trace" THEN TraceStored(db, c.traces[1])
        ELSE /\ SeedStored(db, c)
             /\ \A x \in db.devices : x.id = c.active_device => x.calibration = c.active

\* A run that ended as process B expects it: scenario A does, scenario B
\* leaves NOISE_RISE and CALIBRATION_SUPERSEDED on the oscilloscope.
Recovered(rows) ==
    LET scope == rows.checkpoint.agent_state.device_states["scope_01"]
    IN scope.connection = "connected" /\ scope.faults = {}

\* Process B of the gate, started at any time after process A's call returned,
\* restores each recovered run A stored to its last step with all its
\* evidence, failed actions included, and never takes a run with an active
\* fault for one, whatever other processes store or broke off meanwhile
\* (verify_p2.py, _worker_read).
FreshProcessRestores ==
    \A c \in acked : \A i \in DOMAIN c.traces :
        ReaderAccepts(db, c.traces[i]) <=> Recovered(c.traces[i])

\* Only devices change: nothing stored as evidence is ever altered or removed,
\* and no device forgets its calibration.
EvidenceIsKept ==
    [][/\ \A k \in DOMAIN db \ {"devices"} : db[k] \subseteq db'[k]
       /\ \A x \in db.devices : \E y \in db'.devices :
             /\ y.id = x.id
             /\ y.created = x.created
             /\ x.calibration # None => y.calibration = x.calibration]_vars

\* What a fresh, undisturbed run of save_hero_seed makes of the tables.
AfterTrace(d, rows) == IF RunIsStored(d, rows) THEN d ELSE SavedTrace(d, rows)

AfterSeed(d, seed) ==
    LET saved == AfterTrace(AfterTrace(d, seed.traces[1]), seed.traces[2])
    IN IF FactsAccepted(saved, seed) THEN SavedFacts(saved, seed) ELSE saved

\* As build_hero_seed makes them: the active calibration is the device's own.
Coherent(seed) ==
    ActiveBelongs([EmptyTables EXCEPT !.calibrations = Range(seed.calibrations)], seed)

\* However an earlier attempt was stopped, running the seed again to its end
\* completes it, and running it once more changes nothing in the evidence:
\* once its first trace is in, no interruption and no other caller can make
\* the rest of a seed unstorable.
SeedCanBeCompleted ==
    \A seed \in SeedCalls :
        Coherent(seed) /\ SameEvidence(db, seed.traces[1]) =>
            /\ SeedStored(AfterSeed(db, seed), seed)
            /\ TraceConstraints(AfterSeed(db, seed))
            /\ AfterSeed(AfterSeed(db, seed), seed) = AfterSeed(db, seed)

\* What test_live_gate_uses_two_fresh_processes expects after the live tests
\* before it: the gate, whose writer saves the hero seed, succeeds.  A trace of
\* a later base time that created the device rows first makes the schema
\* refuse the seed for good.
SeedIsNotRefused ==
    \A p \in Procs : result[p] # "refused"
================================================================================
