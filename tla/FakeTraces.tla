------------------------------- MODULE FakeTraces -------------------------------
(***************************************************************************)
(* save_trace and save_hero_seed of the fake of db/fake.py, beside the     *)
(* tables the SQL repository holds after the same calls.  One thread calls *)
(* both; nothing fails but what the code or the schema refuses.            *)
(*                                                                         *)
(* The fake works on a copy and swaps it in at the end of a call; the SQL  *)
(* repository commits each trace of a seed on its own.                     *)
(***************************************************************************)
EXTENDS PersistenceCalls

\* A test also saves the second trace of a seed on its own.
SaveCalls == Calls \cup {[kind |-> "trace", traces |-> <<t>>] : t \in AllTraces}

VARIABLES
    fake,       \* _state of the fake
    sql,        \* the tables of the SQL repository
    sofar       \* both took all calls, or refused some alike, or parted (history)

fakeVars == <<fake, sql, sofar>>

FakeInit ==
    /\ fake = EmptyTables
    /\ sql = EmptyTables
    /\ sofar = "accepted"

Done(tables)         == [db |-> tables, result |-> "ok"]
Failing(tables, why) == [db |-> tables, result |-> why]

---------------------------------------------------------------------------
(* The fake.                                                               *)

\* table[row.id] = deepcopy(row), for each of the rows.
PutAll(table, rows) == {x \in table : x.id \notin Ids(rows)} \cup rows

\* The comparison of the run and of all its rows that makes a replay.
SameTrace(d, rows) ==
    /\ rows.run \in d.runs
    /\ rows.observations \subseteq d.observations
    /\ rows.actions \subseteq d.actions
    /\ rows.outcomes \subseteq d.outcomes
    /\ rows.checkpoint \in d.checkpoints
    /\ rows.audits \subseteq d.audits

\* _apply_trace: a stored run is replayed or refused, a new one assigned.
ApplyTrace(d, rows) ==
    IF RunIsStored(d, rows)
    THEN IF SameTrace(d, rows) THEN Done(d) ELSE Failing(d, "conflict")
    ELSE Done([d EXCEPT !.devices      = PutAll(@, rows.devices),
                        !.runs         = @ \cup {rows.run},
                        !.observations = PutAll(@, rows.observations),
                        !.actions      = PutAll(@, rows.actions),
                        !.outcomes     = PutAll(@, rows.outcomes),
                        !.checkpoints  = PutAll(@, {rows.checkpoint}),
                        !.audits       = PutAll(@, rows.audits)])

\* Calibrations, memories and the pointer of a seed, on the copy.
ApplyFacts(d, seed) ==
    LET copy == [d EXCEPT !.calibrations = PutAll(@, Range(seed.calibrations)),
                          !.memories     = PutAll(@, Range(seed.memories))]
    IN  IF ~ActiveBelongs(copy, seed) THEN Failing(copy, "conflict")
        ELSE IF seed.active_device \notin Ids(copy.devices) THEN Failing(copy, "unknown device")
        ELSE Done([copy EXCEPT !.devices =
                {IF x.id = seed.active_device THEN [x EXCEPT !.calibration = seed.active]
                 ELSE x : x \in @}])

---------------------------------------------------------------------------
(* The SQL repository, undisturbed (TracePersistence has it disturbed).    *)

\* One transaction of save_trace.
SqlTrace(d, rows) ==
    IF RunIsStored(d, rows)
    THEN IF SameEvidence(d, rows) THEN Done(d) ELSE Failing(d, "conflict")
    ELSE IF TraceConstraints(SavedTrace(d, rows)) THEN Done(SavedTrace(d, rows))
    ELSE Failing(d, "constraint")

\* The last transaction of save_hero_seed.
SqlFacts(d, seed) ==
    IF FactsAccepted(d, seed) THEN Done(SavedFacts(d, seed))
    ELSE Failing(d, IF ActiveBelongs(SavedFacts(d, seed), seed) THEN "constraint" ELSE "conflict")

---------------------------------------------------------------------------
(* Calls.                                                                  *)

\* The next trace of a call, unless one before it was refused.
Saved(repository, before, rows) ==
    IF before.result # "ok" THEN before
    ELSE IF repository = "fake" THEN ApplyTrace(before.db, rows) ELSE SqlTrace(before.db, rows)

\* The traces of a call, one after the other.
Traced(repository, start, c) ==
    LET after[i \in 0 .. Len(c.traces)] ==
            IF i = 0 THEN Done(start) ELSE Saved(repository, after[i - 1], c.traces[i])
    IN  after[Len(c.traces)]

FaultyFakeCall(d, c) ==
    LET traced == Traced("fake", d, c)
    IN  IF traced.result = "ok" /\ c.kind = "seed" THEN ApplyFacts(traced.db, c) ELSE traced
\* An exception leaves _state as it was: the copy is never swapped in.
FakeCall(d, c) ==
    LET traced == Traced("fake", d, c)
        after == IF traced.result = "ok" /\ c.kind = "seed" THEN ApplyFacts(traced.db, c) ELSE traced
    IN  IF after.result = "ok" THEN after ELSE Failing(d, after.result)

\* What was committed before a refusal stays.
SqlCall(d, c) ==
    LET traced == Traced("sql", d, c)
    IN  IF traced.result = "ok" /\ c.kind = "seed" THEN SqlFacts(traced.db, c) ELSE traced

Save(c) ==
    LET inFake == FakeCall(fake, c)
        inSql == SqlCall(sql, c)
    IN  /\ fake' = inFake.db
        /\ sql' = inSql.db
        /\ sofar' = IF inFake.result # inSql.result THEN "parted"
                    ELSE IF inFake.result = "ok" \/ sofar = "parted" THEN sofar
                    ELSE "refused"

FakeNext == \E c \in SaveCalls : Save(c)

FakeSpec == FakeInit /\ [][FakeNext]_fakeVars

---------------------------------------------------------------------------
(* Properties.                                                             *)

Evidence == DOMAIN EmptyTables \ {"devices"}

\* While the two ended every call alike, a test on the fake sees no evidence
\* the database would not have, whatever was refused in between; and if no
\* call was refused, the same evidence.
FakeInventsNothing ==
    \A k \in Evidence :
        /\ sofar # "parted" => fake[k] \subseteq sql[k]
        /\ sofar = "accepted" => fake[k] = sql[k]
================================================================================
