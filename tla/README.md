# LabLedger in TLA+

LabLedger (`src/`) is the durable memory of a laboratory agent: a deterministic
simulator of four instruments, a relational ledger of what the agent saw, did
and learned (CockroachDB through psycopg, with a local fake), and a vector
memory of past episodes. This directory holds TLA+ models of that code, TLC
configurations that check them on small instances, and TLAPS proofs.

`PROJECT.json` lists the runs, the source lines each definition stands for, the
hazards and the theorems. Definitions whose name starts with `Faulty` are
plausible slips in the definition that follows them; nothing uses them, and
`PROJECT.json` names for each the property that notices the slip.

## The system

| Component | Source (`src/`) | State | Operations |
|---|---|---|---|
| Schema and SQL | `migrations/001_init.sql`, `backend/app/db/psycopg_repository.py` | the tables | one operator per statement |
| Structured memory repository | `backend/app/db/repository.py`, `psycopg_repository.py` | none of its own; one connection and transaction per attempt | `save_trace`, `save_hero_seed`, `stage_action`, `commit_action_step`, `load_*`, `load_run_restore` |
| Serialization retry | `repository.py` `run_with_serialization_retry` | attempt counter | run, back off, give up |
| Local fake | `backend/app/db/fake.py` | dictionaries copied per operation | the same protocol, fail points |
| Trace mapping, hero seed | `backend/app/db/mapping.py`, `models/trace.py` | none | `map_trace`, `build_hero_seed` |
| Migrations | `backend/app/db/migrations.py`, `memory/schema.py` | the schema | apply, verify |
| Device simulator | `backend/app/devices/simulator.py` | shared `LabState`, four devices | connect, discover, identify, settings, acquire, fault injection |
| Scenarios | `backend/app/devices/scenarios.py` | trace builder | scenario A and B |
| Vector memory | `backend/app/memory/repository.py`, `episodes.py` | embedding columns | save, reuse, search |
| Retrieval and eligibility | `backend/app/memory/retrieval.py`, `policy.py` | none | rerank, filter |
| Embedding provider | `backend/app/memory/embedding.py` | none | embed with retry |
| Gate scripts, settings | `scripts/`, `backend/app/settings.py` | none | drivers |

How they interact: a scenario drives the simulator and produces a trace;
`map_trace` turns it into rows; the repository stores the rows, each public
method in one transaction (`save_hero_seed` in several) inside the retry loop;
a fresh process restores a run with `load_run_restore`. The vector memory adds
embeddings to the memories a hero seed stored and searches them. The processes
share nothing but the database.

What is hard: several agent processes may stage, commit and restore the same
run at once; the server may answer 40001 at any statement, so a transaction
that ran to its end may run again; a connection may break while COMMIT is in
flight; a process may die anywhere and a fresh one must continue from the
latest checkpoint "without duplicating a completed risky action"
(`src/README.md:29`); seeds and memories are written in several transactions;
one fault effect of the simulator can be owned by several devices.

What makes each part correct:

* repository: a run and its latest checkpoint agree; an action has at most one
  outcome; the timeline is the history; at most one caller wins; a refused call
  changed nothing; a restore is one moment of the run; evidence is append-only;
  calls end;
* traces and seeds: replays are idempotent, different evidence under one run id
  is refused, an interrupted seed is completed by a rerun;
* fake: it takes every call as the database does, except those only a key or a
  CHECK refuses; a refused call leaves nothing behind;
* simulator: reference counts equal owners, `connected` means the device's own
  resource, every reachable state can be checkpointed, rediscovery recovers;
* vector memory: a vector was made from the canonical text of its own memory by
  the model its columns name; reuse is sound; a gate searches its own model's
  vectors unless others were saved behind its back; a version chain is saved in the order the foreign key needs;
* embedding provider: a short outage is never noticed, a final answer is never
  asked for again;
* migrations: any interruption and any concurrent application converge, only an
  older table can make a statement fail, and a gate that passes has the baseline;
* retrieval: history never supports an action and comes before current truth
  only by a bounded lead in similarity.

## Modules

| Module | Models |
|---|---|
| `LedgerTables` | The tables a step touches, the constraints of `001_init.sql`, every SQL statement of `stage_action`, `commit_action_step` and `load_run_restore` as an operator on a database, and the integrity predicates `ProgressAgrees`, `OneVerdict`, `TimelineTells`. |
| `StructuredMemory` | Processes that call the repository: validation, snapshot, one action per statement, COMMIT, serialization failure, retry, lost connection, crash and restart. |
| `StepLedger` | The abstract promise: a run is absent, then pending on one action, then completed at a later step. |
| `StepCalls` | The arguments of `stage_action` and `commit_action_step` and their validation. |
| `MCStepCalls`, `MCStructuredMemory` | Finite instances. |
| `StructuredMemoryProofs` | TLAPS proofs about `StructuredMemory`: types, database invariants, whole transactions, refusals, winners, restores, and the refinement of `StepLedger`. |
| `Simulator` | Four devices and the physical state they share: connections, hints, faults with owners and reference counts, settings. |
| `MCSimulator` | Its finite instance. |
| `SimulatorProofs` | TLAPS proofs about `Simulator`. |
| `TraceTables` | Validation and mapping of a trace, the rows and constraints of the tables a trace or seed fills, and what `save_trace` and `save_hero_seed` do to them. |
| `TraceMapping` | The trace builder, and `map_trace` of what it builds or of any trace handed over. |
| `HeroSeeds` | The traces of scenarios A and B and `build_hero_seed`, as data. |
| `PersistenceCalls` | The calls of `save_trace` and `save_hero_seed`. |
| `TracePersistence` | Processes that store traces and seeds, are stopped between or inside transactions, and try again. |
| `TraceMappingProofs` | TLAPS proofs about `TraceMapping` and the rows it makes. |
| `TracePersistenceProofs` | TLAPS proofs about `TracePersistence` and `FakeTraces`. |
| `MCTraceMapping`, `MCTracePersistence` | Finite instances of `TraceMapping`, and of `TracePersistence` and `FakeTraces`. |
| `FakeRepository` | The fake's dictionaries, one assignment of a commit at a time with injected failures, beside the tables of the SQL repository. |
| `FakeRepositoryProofs` | TLAPS proofs about `FakeRepository`. |
| `FakeTraces` | `save_trace` and `save_hero_seed` of the fake beside those of the SQL repository. |
| `MCFakeRepository` | A finite instance of `FakeRepository`. |
| `VectorMemory` | The embedding columns under gates, seeders and importers: seed, reuse check, embed, save one by one, verify, search. |
| `VectorMemoryProofs` | TLAPS proofs about `VectorMemory`, and about `EmbeddingRetry`, the provider it embeds with. |
| `EmbeddingRetry` | A call of `embed` against outages of the service. |
| `Migration` | Gates that apply both migrations statement by statement and verify the schema. |
| `MigrationProofs` | TLAPS proofs about `Migration`. |
| `Retrieval` | Search, eligibility, score, order and cut for any similarities. |
| `HeroRetrieval` | The hero memories and the two queries of the live gate. |
| `RetrievalProofs` | TLAPS proofs about `Retrieval`. |
| `MCVectorMemory`, `MCEmbeddingRetry`, `MCMigration`, `MCRetrieval` | Finite instances. |

### LedgerTables

A table is a set of rows, a row a record of the columns the properties tell
apart; timestamps, names and JSON payloads are left out, except the three
fields of `agent_state` that repeat relational columns. For each statement `S`
there is `SOk` (the keys, foreign keys and CHECKs accept it, or the `rowcount`
the code requires is met) and `S` (what it leaves behind). `_upsert_device`
keeps `COALESCE`. The CHECKs on timestamps and `uq_devices_lab_name` are not modelled
here: a call they refuse ends in an error with nothing written, which
`StructuredMemory` has at every statement (`Abandon`). `TraceTables` has the
timestamps of what a trace or seed fills.

### StructuredMemory

| Code | Model |
|---|---|
| `validate_staged_action`, `validate_action_step_commit` | `ValidStaged`, `ValidCommit`, evaluated in `Call` before any SQL |
| `_transaction` | `Begin`, the statements, `CommitAcknowledged` / `CommitUnacknowledged`, `Return` |
| `stage_action` | `StageDevices` ... `StageAudit` |
| `commit_action_step` | `CommitUpdateAction` ... `CommitInsertAudit` |
| `load_run_restore` | `LoadRun`, `LoadCheckpoint`, `LoadMissing`, `LoadCounts`, `LoadTimeline` |
| `run_with_serialization_retry` | `SerializationFailure`, `Retry`; any other error ends the call |
| a broken connection, a killed process | `Abandon`, `CommitUnacknowledged` |

CockroachDB is outside `src/`; it is modelled as what the code relies on,
serializable transactions: a transaction works on a private copy of the
database as of `Begin` and `Publish` requires that nothing was committed since.
The real server locks rows and refreshes reads; every committed history it
allows is equivalent to a serial one, and those are the histories of this
model. It may answer 40001 more often than needed, which the model allows at
every statement. A read-only transaction is not validated at COMMIT. `snap` and
`work` are reset when the connection closes; `applied` and `acks` are history
variables, read by no action.

`StageCalls` and `CommitCalls` are arbitrary sets of arguments of the record
types, malformed ones included. One thing is assumed of callers and not
checked by the code: a staged action is staged open (`StagedOpenAssumption`).
`max_attempts < 1` is refused by the code before anything runs, hence
`AttemptsAssumption`.

### Simulator

| Code | Model |
|---|---|
| `LabState` | `effects`, `refcounts`, `settings` |
| `SimulatedDevice` | `devices[d]`: connection, connected resource, hint, own faults |
| `inject_fault`, `clear_fault`, `discover`, `connect`, `disconnect` | the actions of the same names |
| `write_safe_setting` of three classes | `WriteDrive`, `WriteCalibration`, `WriteChannel` |

One thread owns a lab, so a call is a step; calls that are refused before they
assign anything are stuttering steps, and calls that only read are left out. A
resource is `expected`, `stale` or `other` as seen from its device. Drive
amplitudes are tenths. The temperature sensor refuses every write.

### TraceTables, TraceMapping, HeroSeeds, TracePersistence

| Code | Model |
|---|---|
| `_validate_trace`, `_checkpoint_snapshot` | `ValidTrace` and its five parts |
| `map_trace` | `MapTrace`, one operator per kind of row |
| `_TraceBuilder` | `Observe`, `Attempt`, `RecordOutcome`, `Build` |
| `build_hero_seed` | `HeroSeed(base)` |
| `save_trace` | `ReplayTrace`, `ConflictingTrace`, `InsertTrace` |
| `save_hero_seed` | the same for each trace in turn, then `SaveFacts` |
| an error, a lost answer, a killed process | `End(p, "lost")` in `Committed` and `SaveFacts`, `Stop` |

A uuid5 is the pair of what it is made from; a time is `base_time` plus an
order, and the hour and the day between the parts of the seed are numbers that
keep their order. The persistence fingerprint is the trace, the run and the
base time themselves: SHA-256 is taken to be free of collisions.
`current_timestamp()` is after every base time. The checkpoint keeps what a
restore looks at: the step, the completed and pending actions, and the connection
and active faults of each device (`AgentState`). `ReaderAccepts` is
`_worker_read`, which expects a run that ended well (`Recovered`): the
oscilloscope connected, no fault active on it. Scenario A ends so. Scenario B
leaves `NOISE_RISE` and `CALIBRATION_SUPERSEDED` there (`scenarios.py:156`), so
process B has to refuse its run, and does. Within a transaction rows are
inserted so that every foreign key points back, and the self-references are
checked row by row, so `TraceTables` judges the tables a transaction leaves
behind. A whole transaction is a step: `StructuredMemory` shows the machinery
of one, and serializable isolation makes it a step for the others.

### FakeRepository, FakeTraces

| Code | Model |
|---|---|
| `_state`, `deepcopy`, `self._state = state` | `state`, `copy`, `PutAuditAndSwap` |
| `fail_at`, `_maybe_fail` | `SetFailAt`, `Assign` |
| `stage_action`, `commit_action_step` | `StageAction`; `BeginCommit`, `UpdateStoredAction` ... `PutAuditAndSwap` |
| `load_run_restore` | `LoadRunRestore` |
| `_apply_trace`, `save_trace`, `save_hero_seed` | `ApplyTrace`, `ApplyFacts`, `FakeCall` |

A dictionary by id is a set of rows; assigning replaces the row of that id. The
SQL side is one step per call: `SqlStaged` and `SqlCommitted` of
`LedgerTables`, which the invariant `TransactionsAreWhole` of
`StructuredMemory` shows to be what the statements add up to. Once the two took
a call differently their contents no longer compare, and the run stops there.

The model shows four differences, each a fact of the code: the fake has none of
the keys, foreign keys and CHECKs, so a second `stage_action` of a run
overwrites it (`fake.py:116`); a device of the fake loses its calibration when
it is staged or traced again, where the upsert keeps it (`fake.py:75`,
`psycopg_repository.py:94`), which is why `FollowsSql` compares devices without
it; a seed refused in the middle leaves its traces in the database and nothing
in the fake; and a seed the schema refuses (`seed_refused`) the fake accepts.
`fake.py:1` promises "the same atomic semantics as the SQL repository": so it is
for a step (`FollowsSql`) and not for a seed, which is one assignment of the fake
and several transactions of the database.

### VectorMemory, EmbeddingRetry

| Code | Model |
|---|---|
| columns of `002_vector_memory.sql` | `rows[m]`: text, vector, label |
| `save_hero_seed` at `verify_p3.py:161` | `SaveTraces`, `SaveFacts` |
| `has_matching_embeddings` | `CheckReuse` |
| `_embed_episodes`, `save_embedded_memories`, `_save_one` | `Embed`, `Import`, `SaveOne` |
| `verify_p3_schema` (counts), the two searches | `Verify`, `Retrieve` |
| an error or a killed process | `Stop` |
| `embed`, `_parse_response` | `BeginCall`, `Invoke`, `Sleep` |

A text is the seed's or the canonical one of a memory; a vector is the text it
was made from and the provider that made it, so "belongs to" can be stated. The
lab a run begins with is any consistent one: nothing stored, seeded, embedded
completely or in part, by any model. Each gate has a model of its own, since it
reads it from its environment (`settings.py:43`) and nothing keeps gates with
different models out of one lab. `crossed` is a history variable: the gates whose
rows a process with another model has saved since they last looked at the labels.
The counts of `verify_p3_schema` also see the memories of other labs, which can
only make it refuse more; a gate that ends so is a `Stop`. A gate's seed writes the
seed's text over the canonical one and keeps the vector
(`psycopg_repository.py:366`), so the reuse check that follows in the same gate
can succeed only if another gate saved in between: a rerun embeds everything
again, although `src/STATUS.md:102` says unchanged vectors are reused.

Bedrock is outside `src/`: in an outage it throttles whatever it does not
reject, otherwise it gives any other answer. Requests take no time in the model,
sleeps take their delay, and jitter does not exist in the code.

### Migration, Retrieval, HeroRetrieval

A migration is its statements in order, each with what it needs: the tables it
refers to, the table it alters, for the vector index an unset
`sql_safe_updates` when the table has rows. A table is absent, current, or of
an older shape with something missing: a column or constraint that only
verification looks for; a constraint nobody looks for (of 53,
`REQUIRED_P2_CONSTRAINTS` lists 16), which passes; the `id` that foreign keys
refer to; or a column its index names. The server refuses a statement that names
what is missing (`Obstructs`), and the gate ends there. `device_sessions` has two indexes, one here.

`Retrieval` scores in integers: the weights times the resolution of each
signal. `RetrievalContext`, `top_k` and the service's `candidate_limit` are one
record. Confidence, device and outcome move the score; eligibility reads status,
successor and dates only, although `src/README.md:17` names all of them as
deciding it. `HeroRetrieval` has the gate's memories and queries as data.

## Runs

| Run | Instance | Shows |
|---|---|---|
| `race` | two processes, one run, one action, opposite verdicts for the same step, restores, two attempts per call | the properties of `StructuredMemory`, liveness and refinement of `StepLedger` under every interleaving, 40001, crash and lost COMMIT |
| `mistakes` | one process, two runs, about forty calls, one attempt | the database stays consistent whatever a caller passes: each validated field wrong once, stale steps, wrong runs, reused checkpoint, audit and outcome ids; a transaction's statements add up to the whole call |
| `bench` | four devices, four faults (the one all devices can own and those that act on connections or settings), amplitudes at and beyond both ends of the range | all properties of `Simulator` after any sequence of calls |
| `stale_reconnect` | the same | a violation: `connect` with the resource named explicitly succeeds while `STALE_RESOURCE` is active, although `tests/unit/test_faults.py:53` is named for the opposite |
| `mapping` | two devices, built traces of up to five records with every checkpoint, thousands of small traces no builder makes | what scenarios build is accepted and storable; whatever is accepted tells one consistent story |
| `persistence` | two processes; the default seed, a seed of another base time, the misplaced seed of `test_fake_repository.py:278`, a later trace of the same lab; or, in the fake beside an undisturbed database, the same and each trace on its own | evidence is whole and kept, facts come with the evidence they cite, a fresh process restores every recovered run another one stored and takes no other for one, a seed once begun can be completed; the fake invents no evidence |
| `seed_refused` | one process, the default seed and a later trace | a violation: if the later trace is stored first, `created_at` of the devices lies after the seed's times, `ck_devices_timestamp_order` refuses the upsert and the seed can never be stored, although `test_cockroach_repository.py` stores such a trace before the gate it expects to pass |
| `fake` | the calls of `mistakes` with a failure at each fail point | the fake holds what the database holds, between calls and in the middle of one; the first difference is a missing constraint |
| `vector` | two gates with different models, a seeder, an importer; three memories, two of them versions; four providers, two of them storable; any consistent lab | vectors belong to their texts and labels, the reuse check may be believed, a gate finds all memories embedded, by its own model unless others were saved after it last looked, versions are saved in order, under every interleaving and interruption |
| `embedding_retry` | seven attempts, delays up to eight seconds, outages of 1 to 40 seconds or without end | the delays add up to 31 seconds: no shorter outage is noticed and no call waits longer; one final answer per call |
| `migration` | two gates of either kind, five shapes an older `devices` or `memories` may have, three ends of an earlier application, rows arriving any time | no statement of a migration is refused, unless P3 comes before P2 or it names what the older table lacks, and whoever gets through has everything; who passes has the baseline |
| `retrieval` | 1000 labs of three memories of ten kinds with top-1 of two candidates, and the hero lab with the gate's queries; four similarities | history supports no action, whatever its status, and precedes equal current truth only when closer by a third of the unit (a quarter if disputed); the live gate fails only for one combination of similarities |

Bounds. The reachable states of `bench` are finite without any bound on the
number of calls; the faults it leaves out only change measurements (or
`identify`) and behave like the ones it has. Two processes are enough for each pair of transactions to overlap in
every way; a third adds another loser. Two attempts are enough for a retry
after a competing commit and for the last attempt to fail. A run can be staged
once and completed once through this interface (a second `stage_action` of the
run violates its primary key), so one run and one action exhaust the life of a
run; the second run of `mistakes` is there for cross-run references and key
collisions. With one process `mistakes` needs no retry. `MaxRecords` = 5 leaves
room for two concluded actions and an observation in every order, two devices
for every disagreement between an action and its outcome. The calls of
`persistence` are repeated without bound; two processes put one seed between
any two transactions of another. It has no liveness property: nothing in the
code repeats a seed that failed, which is why `SeedCanBeCompleted` states what
a rerun would do in each state instead. Three memories are enough for a chain and a
bystander; the calls of gates repeat without bound, so what a third gate would
find is what the first leaves; two models are enough for a lab that mixes them. Outages reach beyond the patience of the loop on
both sides. Two gates at any statement, each twice, cover concurrent and
repeated application; symmetry is sound, since the appliers are used alike.
Three memories and a limit of two leave one candidate out of the search and one
out of the answer; the similarities have gaps on both sides of the margins.
`TypeOK` is checked where it has content (`race`, `bench`), proved where there
are proofs, and otherwise left to the other invariants.

Fairness. `FairSpec` has weak fairness of each process's own steps: a process
that is in a call keeps executing and the server answers. There is no fairness
of `Call`, nor of failures. `CallsReturn` needs the bound of the retry loop.

Redundancy seen while checking: without the status guard of `UPDATE actions`
a second commit is still stopped by `uq_outcomes_action`; without the guard on
`current_step` the unique keys stop most stale commits, but not one to a lower
unused step.

## Proofs

`StructuredMemoryProofs` proves for any sets of processes, identifiers and
calls and any bound on attempts:

* `TypeCorrect`: `Spec => []TypeOK`. `TypeOK` is strengthened by
  `CallMatchesPoint` (a process inside a staging transaction carries a staging
  call, a sleeping process has an attempt left).
* `RestorePointsAreConsistent`, `VerdictsAreUnique`, `TimelinesAreFaithful`:
  the three database invariants. The inductive invariant `SafetyInv` adds
  `Keys` and `References` (without them an UPDATE could hit two rows and a new
  run could inherit rows), and, per open transaction, what its work copy has
  become since its snapshot and which guards it passed. `StagePreserves` and
  `CommitPreserves` show that a complete validated transaction preserves the
  database invariant; `PublishPreserves` applies them at COMMIT, where the
  snapshot is the database.
* `TransactionsEndWhole`. `WholeInv` says what the statements executed so far
  have made of the snapshot at every point of a transaction (`StageSoFar`,
  `CommitSoFar`); at the last point this is the whole call of `SqlStaged` and
  `SqlCommitted`. So a COMMIT is one of two steps on the database, and the rest
  of the module argues about those (`PublishCases`) and not about statements.
* `EvidenceOnlyGrows`: both steps keep what the property lists (`Kept`,
  `StagedKeeps`, `CommittedKeeps`).
* `RefusalsLeaveNothing`: `EffectInv` ties the history variable to the program
  counter: inside a call it is false, because the only step that sets it ends
  the call.
* `WinnersAreUnique`: a second acknowledgement would need a COMMIT on a database
  that already shows the first, and `SqlStaged` and `SqlCommitted` refuse there.
* `LedgerStaysSound` collects the three database invariants.
* `LedgerIsImplemented`: with `AllInv` (the database invariants and `WholeInv`)
  each of the two steps is `Stage` or `Complete` of `StepLedger` for one run and
  leaves the entry of every other run alone; all other steps stutter.
* `RestoresAreConsistent`: the reader's SELECTs all see one snapshot, and what
  is consistent there is put together by `RestoreInv`, which says what has been
  read so far. It needs more of a database than the three invariants
  (`FullInv`): every run has an action, outcomes have their action, a pending
  action is open.

`SimulatorProofs` proves for any use of the devices and faults and any
requested amplitudes: `LabTypeCorrect`; `EffectsAreOwned`, which is inductive
given the types, by counting owners (`OwnerAdded`, `OwnerRemoved`);
`CheckpointsAreAccepted` and `StaleHintsAreExplained`, inductive together; and
`RecoveryAlwaysSucceeds`, which follows from the types alone.

`VectorMemoryProofs` proves for any number of gates, seeders and importers, any
memories and any interleaving, each gate configured with any model and importers
with any provider: `MemoryTypes`, `StoredVectorsAreSound`, `ReuseIsAlwaysSound`,
`SearchesCompareOneModel`, `ChainsAreSavedInOrder` and `EmbeddingsStay`. The
inductive invariant adds to the types and to `VectorsAreSound` what a process has
left to save (`LeftIsSound`: made by the model its label names, which for a gate is
its own, and each version with its successor or after it) and what a gate may rely
on at its point (`GateProgress`: each memory it is done with has a vector, and its
own model's unless the gate is `crossed`). `RowsImprove` is the one fact about
steps: rows stay, vectors stay or become those of another save. That another
model's vectors come in behind a gate is not assumed away, because nothing in the
code prevents it: the theorem says that this, between the gate's last look at the
labels and its search, is the only way it can happen. One assumption is about the
data: no superseder is itself superseded (`ChainsAssumption`; the two-valued sort
key orders no longer chain). `EmbeddingsStay` is proved and not run, since it
follows from `RowsImprove`.
Its last sections are about `embed` itself, for any number of attempts and any
outages. `AnswersAreFinal`: `FinalInv` says of each kind of answer that is not
retried that one of it ends the call, so none was had while a call goes on.
`OutagesAreRiddenOut`: `WaitInv` counts the sleeps. After `n` of them the call
has waited `Slept(n)` and what is left of the outage it met is what it has not
slept yet; so whoever fails at the last attempt met one longer than all sleeps.
No outage may exceed the number that stands for an endless one, or one that has
run down to it would count as endless: the invariant needs `0 .. Forever`, where
TLC never missed it. `Slept` is in closed form, and the provers learn what `^` is
from `PowersAssumption`; that `2 ^ n` stays above the cap is part of the
invariant, one doubling at a time.

`TraceMappingProofs` proves for any number of records, any devices and any
order of a builder's calls:

* `ScenariosStayMapped`: the builder's lists satisfy every rule of the
  validator. The invariant `BuilderInv` ties the lists to `next_order`: as many
  records as numbers given out, and each number is used (`CounterInv`); each
  outcome names one earlier action that no other outcome names (`OutcomeInv`).
* `RowsTellOneStory`: for every valid trace, also one a builder would not make.
  The validator asks that the places of the records are 1 to their number; that
  no two records share a place follows by counting
  (`FullPlacesAreDistinct`: n records that fill n places fill each once), so
  each row of the timeline is about one record and the other way round
  (`StoryOf`). `LeastExists` and `LargestExists` give the first disagreement and
  the last action.
* `BuiltRowsStayStorable`: keys, foreign keys and CHECKs accept what a builder
  made; an outcome comes after its action because the builder counts upwards.
* `MappedTracesAreOwn` and `MappedTracesAreReadable` are about `map_trace` alone
  and are what the next module takes for granted of the traces it is given: rows
  and ids of a mapped trace belong to its run, the fingerprint determines the
  rows, no device row has a calibration, and of the traces with a failed action
  process B accepts, in a database that holds nothing else, exactly those that
  end with the oscilloscope connected and without an active fault.

`OtherTracesAssumption` is its one assumption about data: the collections of a
`ScenarioTrace` are sequences, as its type says.

`TracePersistenceProofs` proves for any number of processes, traces and seeds:

* `EvidenceStaysWhole`, `FactsKeepTheirEvidence`, `AcknowledgedStays` and
  `EvidenceStays` from `Inv`: each stored run is one of the known traces with
  all its rows, each row belongs to a stored run (`TablesInv`), the facts are
  none or those of one seed whose traces are stored, and a process inside a seed
  has stored the traces before its place. The point is what happens between the
  transactions of one seed: two seeds claim the same runs, so whoever stores the
  first trace excludes all seeds with another one, and the others' facts are
  never reached.
* `FreshProcessesRestore`: what a reader reads of a stored trace is what it would
  read if the trace were alone in the database, because rows of other runs have
  other ids. So its verdict, to accept or to refuse, does not depend on what others
  stored. The theorem assumes the verdict on a trace alone, that it is accepted
  exactly if the run recovered; `MappedTracesAreReadable` proves that of mapped
  traces, and TLC finds it true of the traces of `persistence`: scenario A's are
  accepted, scenario B's are not.
* `SeedsCanBeCompleted`: `FitInv` adds the constraints of the schema
  (`TraceConstraints`), that the second run of a seed is only stored after its
  first, and that a device row of a stored trace is not older than the device
  row in the table (`DevicesAreOlder`), which is what
  `ck_devices_timestamp_order` needs of a later upsert. The theorem assumes that
  each seed whose active calibration is its own is fit for a fresh database
  (`SeedIsFit`), again true of the seeds of `persistence`. Without
  `SameEvidence` in the property it would be false: that is `seed_refused`.

* `FakeHasNoMoreThanTheDatabase` is about `FakeTraces`: `BothInv` says that the
  rows of the fake are rows of the database until the two end a call differently,
  and the same until one is refused. A trace the database already has from a
  refused seed, and the fake has not, brings nothing new: the stored run is whole
  (`RunsAreWhole`). A trace that is new to both overwrites nothing in the fake,
  because no other run has ids like its own (`TraceFollows`); and what the fake
  assigns for the facts is what the upserts replace (`FactsFollow`). A call that
  is refused leaves more in the database, never in the fake. The recursion over
  the traces of a call is unrolled, for calls of one and of two traces
  (`TracedInOrder`), which is what there is. It uses none of the assumptions
  about seeds, devices, times and run ids below.

Its assumptions say what `map_trace` and `build_hero_seed` make: rows name their
run, ids are derived from run ids (`TracesAssumption`), no calibration in a
device row (`DevicesAssumption`), seeds of one lab claim the same runs and
differ by their base time (`SeedsAssumption`), no base time is in the server's
future (`TimesAssumption`), and nobody stores the second trace of a seed on its
own under its run id (`RunIdsAssumption`: ids are uuid5 of lab, scenario and
seed, and the callers of `save_trace` draw fresh ones).

`MigrationProofs` proves `MigrationsConverge` and `PassesStay` for any gates,
interruptions and shapes of tables. A statement is `Done` when its effect is in
the schema; nothing undoes one (`DoneStays`), and what a statement needs comes
before it in its migration or in the first one (`NeedsComeFirst`), so it is there, and only an older table can lack
what the statement names. The invariant says that all statements before a process's place are done, all of them in its
second round. `InterruptionsAssumption` bounds where an earlier application
ended by the length of `001_init.sql`.

`FakeRepositoryProofs` proves `FakeFollowsSql` and `FakePartsAtConstraints` for
any identifiers, seeded devices, calls and injected failures. The tables beside
the fake are a database that one caller uses, so what a call makes of them is not
proved again: the module instantiates `StructuredMemoryProofs` for those tables and
takes from it that an accepted call keeps the rows in agreement (`RowsInv`) and
that such rows restore as one story (`ReadingTellsOneStory`). `FollowInv` adds
what the comparison needs: the rows of the two are the same but for calibrations
(`Alike`; `UpsertIsPut` is the argument about COALESCE), no two checkpoints of a
run have the same step (so that the newest is unique), and in the middle of a
commit the copy is what the assignments so far made of a state that passed the
checks (`CopyAt`). The two directions of the comparison are `AcceptedMayCommit`
(what SQL accepts passes the checks of the fake) and `CommitIsConstrained` (what
passes them ends in SQL accepted or at a constraint, never in a conflict).
`NotPartedAssumption` only says that `None` is not a pair of endings.

`RetrievalProofs` proves for any labs, contexts and limits that the sort key
orders candidates totally and transitively, so ranks can be read as scores; from
that `HistoryNeedsSimilarity` by arithmetic on the weights, and
`HistoryNeverSpeaks`: no memory with a successor is eligible evidence;
`HistoryAlwaysStaysBehind` is both. For
`LiveGatePasses` the invariant also says that the candidates are a closest part
of the matching rows of the size of the limit (`SearchInv`), which is all of
them in the hero lab. If the intervention is cut off, the three others precede
it, both versions of the calibration among them, and `PrecedesMargin` says by
how much they must be closer.

The assumptions used are those named in the modules. Every invariant and action
property of a passing run is proved; only model-checked is liveness
(`CallsReturn`), which is out of the prover's reach.

## Not modelled, and the plan

Next: `Scenario`, scenarios A and B driving `Simulator` and `TraceMapping`
together. Today `TraceMapping` has any sequence of a builder's calls and
`HeroSeeds` the resulting traces as data.

Left out for good: settings, evidence files, command-line output, the geometry
of embedding vectors and the hash that makes the test provider's, the wording
of canonical texts and of reasons, floating point rounding of scores,
measurements of the simulator, `verify_p0.py` (file and version inspection),
and the rows of the tables no code writes (`artifacts`, `device_sessions`).
