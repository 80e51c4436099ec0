------------------------------ MODULE VectorMemory ------------------------------
(***************************************************************************)
(* The embedded form of the hero memories: save_embedded_memories and      *)
(* has_matching_embeddings of memory/repository.py, as the live gate of    *)
(* scripts/verify_p3.py calls them, beside processes that store the hero   *)
(* seed (which rewrites embedding_text) and others that save embeddings.   *)
(*                                                                         *)
(* A text is the seed's or the canonical text of a memory, a vector the    *)
(* text it was made from and the provider that made it.  Every database    *)
(* transaction, and the read of a check, is one step; embedding a tuple of *)
(* episodes is one step because it touches nothing.  The columns exist     *)
(* (module Migration).                                                     *)
(***************************************************************************)
EXTENDS Naturals, FiniteSets

CONSTANTS
    Gates,              \* processes that run the live P3 gate
    Seeders,            \* processes that store the hero seed and no more
    Importers,          \* other callers of save_embedded_memories
    Memories,           \* the memories of the hero seed
    Superseder,         \* superseded_by of each, or None
    Providers,          \* embedding providers: model, dimension, test only or not
    Storable,           \* those for production, of the repository's dimension
    Model,              \* the provider each gate is configured with, from its environment
    ImportCalls,        \* what importers pass
    None

Texts == {"seed", "canonical"} \X Memories

Vectors == [text : Texts, by : Providers]

\* label: embedding_provider, embedding_model_id and embedding_dimension.
Rows == [text : Texts, vector : Vectors \cup {None}, label : Providers \cup {None}]

EmbeddedMemories == [memory : Memories, vector : Vectors, metadata : Providers]

ASSUME ProvidersAssumption == Model \in [Gates -> Storable] /\ Storable \subseteq Providers

ASSUME MemoriesAssumption == Memories # {} /\ Superseder \in [Memories -> Memories \cup {None}]

ASSUME NoneAssumption == None \notin Vectors \cup Providers \cup Memories \cup Rows

\* canonical_embedding_text of the memory, embedded by the provider.
Embedded(m, by) ==
    [memory |-> m, vector |-> [text |-> <<"canonical", m>>, by |-> by], metadata |-> by]

\* What importers pass was embedded as _embed_episodes does it, by any provider.
ASSUME ImportsAssumption ==
    \A c \in ImportCalls : c \subseteq {Embedded(m, by) : m \in Memories, by \in Providers}

\* Nothing else makes the saving order work: the two sorts only put what is
\* superseded last, so no superseder may itself be superseded, and a caller
\* passes a memory with its superseder.
ASSUME ChainsAssumption ==
    /\ \A m \in Memories : Superseder[m] # None => Superseder[Superseder[m]] = None
    /\ \A c \in ImportCalls : \A i \in c :
          Superseder[i.memory] # None => \E j \in c : j.memory = Superseder[i.memory]

VARIABLES
    rows,       \* public.memories: the row of each memory, or None
    evidence,   \* the traces of the seed, which every memory refers to, are stored
    pc,         \* where each process is, "idle" outside a call
    left,       \* the embedded memories a process has still to save
    crossed     \* gates whose rows a process with another model has saved since
                \* they last looked at the labels (history)

vars == <<rows, evidence, pc, left, crossed>>

Processes == Gates \cup Seeders \cup Importers

ASSUME ProcessesAssumption ==
    /\ Gates \cap Seeders = {}
    /\ Importers \cap (Gates \cup Seeders) = {}

Points == {"idle", "traces", "facts", "reuse", "embed", "save", "verify", "retrieve"}

\* Where only gates get.
GatePoints == {"reuse", "embed", "verify", "retrieve"}

Stored == {m \in Memories : rows[m] # None}

EmbeddedRows == {m \in Stored : rows[m].vector # None}

---------------------------------------------------------------------------
(* memory/repository.py.                                                   *)

FaultyHasMatchingEmbeddings(by) ==
    \A m \in Stored : rows[m].text = <<"canonical", m>>
\* The SELECT finds the rows embedded by this provider; what it finds is then
\* compared with the expected texts of all episodes.
HasMatchingEmbeddings(by) ==
    /\ by \in Storable
    /\ EmbeddedRows = Memories
    /\ \A m \in Memories : rows[m].label = by /\ rows[m].text = <<"canonical", m>>

FaultyMaySave(memories) == \E i \in memories : i.metadata \in Storable
\* The guards of save_embedded_memories, all before the first statement.
MaySave(memories) ==
    /\ memories # {}
    /\ \A i \in memories : i.metadata \in Storable

Last(i) == Superseder[i.memory] # None

FaultyNextToSave(memories) == memories
\* sorted(memories, key=superseded_by is not None); among equals, the order of
\* the caller's tuple.
NextToSave(memories) == {i \in memories : Last(i) => \A j \in memories : Last(j)}

\* The foreign keys of the row.
RowAccepted(m) == evidence /\ (Superseder[m] # None => Superseder[m] \in Stored)

\* The UPSERT of _save_one: inserted, or every column of the row replaced.
SavedOne(i) ==
    [rows EXCEPT ![i.memory] =
        [text |-> <<"canonical", i.memory>>, vector |-> i.vector, label |-> i.metadata]]

---------------------------------------------------------------------------
(* The memories of save_hero_seed: _upsert_memory knows no vector columns. *)

SeededRow(m) == [text |-> <<"seed", m>>, vector |-> None, label |-> None]

Seeded ==
    [m \in Memories |->
        IF rows[m] = None THEN SeededRow(m) ELSE [rows[m] EXCEPT !.text = <<"seed", m>>]]

---------------------------------------------------------------------------
(* The processes.                                                          *)

\* A memory a lab holds at the start: none, the seed's, or one embedded some
\* time ago, maybe by another model, and maybe seeded again since.
LabRows(m) ==
    {None, SeededRow(m)} \cup
    {[text |-> <<t, m>>, vector |-> Embedded(m, by).vector, label |-> by] :
        t \in {"seed", "canonical"}, by \in Storable}

Init ==
    /\ evidence \in BOOLEAN
    /\ rows \in [Memories -> UNION {LabRows(m) : m \in Memories}]
    /\ \A m \in Memories : rows[m] \in LabRows(m)
    /\ \A m \in Stored : RowAccepted(m)
    /\ pc = [p \in Processes |-> "idle"]
    /\ left = [p \in Processes |-> {}]
    /\ crossed = {}

Goto(p, point) == pc' = [pc EXCEPT ![p] = point]

\* run_live_verification, and the writer of verify_p2: save_hero_seed first.
Start(p) ==
    /\ p \in Gates \cup Seeders
    /\ pc[p] = "idle"
    /\ Goto(p, "traces")
    /\ UNCHANGED <<rows, evidence, left, crossed>>

SaveTraces(p) ==
    /\ pc[p] = "traces"
    /\ evidence' = TRUE
    /\ Goto(p, "facts")
    /\ UNCHANGED <<rows, left, crossed>>

\* The last transaction of save_hero_seed.
SaveFacts(p) ==
    /\ pc[p] = "facts"
    /\ rows' = Seeded
    /\ Goto(p, IF p \in Gates THEN "reuse" ELSE "idle")
    /\ UNCHANGED <<evidence, left, crossed>>

FaultyCheckReuse(p) ==
    /\ pc[p] = "reuse"
    /\ Goto(p, IF EmbeddedRows = Memories THEN "verify" ELSE "embed")
    /\ crossed' = crossed \ {p}
    /\ UNCHANGED <<rows, evidence, left>>

CheckReuse(p) ==
    /\ pc[p] = "reuse"
    /\ Goto(p, IF HasMatchingEmbeddings(Model[p]) THEN "verify" ELSE "embed")
    /\ crossed' = crossed \ {p}
    /\ UNCHANGED <<rows, evidence, left>>

\* _embed_episodes: a failure of the provider ends the gate (Stop) before
\* anything is saved.
Embed(p) ==
    /\ pc[p] = "embed"
    /\ left' = [left EXCEPT ![p] = {Embedded(m, Model[p]) : m \in Memories}]
    /\ Goto(p, "save")
    /\ UNCHANGED <<rows, evidence, crossed>>

\* A call the guards refuse changes nothing.
Import(p) ==
    /\ p \in Importers
    /\ pc[p] = "idle"
    /\ \E c \in ImportCalls : MaySave(c) /\ left' = [left EXCEPT ![p] = c]
    /\ Goto(p, "save")
    /\ UNCHANGED <<rows, evidence, crossed>>

\* _save_one, in a transaction of its own.
SaveOne(p) ==
    /\ pc[p] = "save"
    /\ \E i \in NextToSave(left[p]) :
          IF RowAccepted(i.memory)
          THEN /\ rows' = SavedOne(i)
               /\ crossed' = crossed \cup {g \in Gates : Model[g] # i.metadata}
               /\ left' = [left EXCEPT ![p] = @ \ {i}]
               /\ Goto(p, IF left[p] # {i} THEN "save" ELSE IF p \in Gates THEN "verify" ELSE "idle")
          ELSE /\ Goto(p, "idle")
               /\ left' = [left EXCEPT ![p] = {}]
               /\ UNCHANGED <<rows, crossed>>
    /\ UNCHANGED <<evidence>>

\* The counts of verify_p3_schema are about vectors and labels, not texts, of
\* all rows of the table: another lab's memories only make it refuse more (Stop).
VerifyPasses(p) ==
    /\ EmbeddedRows # {}
    /\ \A m \in EmbeddedRows : rows[m].vector.by \in Storable /\ rows[m].label = Model[p]

Verify(p) ==
    /\ pc[p] = "verify"
    /\ Goto(p, IF VerifyPasses(p) THEN "retrieve" ELSE "idle")
    /\ crossed' = IF VerifyPasses(p) THEN crossed \ {p} ELSE crossed
    /\ UNCHANGED <<rows, evidence, left>>

\* Two searches and the checks of what they return; the gate has ended.
Retrieve(p) ==
    /\ pc[p] = "retrieve"
    /\ Goto(p, "idle")
    /\ UNCHANGED <<rows, evidence, left, crossed>>

Step(p) ==
    \/ SaveTraces(p) \/ SaveFacts(p) \/ CheckReuse(p) \/ Embed(p) \/ SaveOne(p)
    \/ Verify(p) \/ Retrieve(p)

\* The process is killed, the database or the provider answers with an error,
\* or a transaction was committed (the step before this one) and its
\* acknowledgement lost.
Stop(p) ==
    /\ pc[p] # "idle"
    /\ Goto(p, "idle")
    /\ left' = [left EXCEPT ![p] = {}]
    /\ UNCHANGED <<rows, evidence, crossed>>

Next == \E p \in Processes : Start(p) \/ Import(p) \/ Step(p) \/ Stop(p)

Spec == Init /\ [][Next]_vars

---------------------------------------------------------------------------
(* Properties.                                                             *)

TypeOK ==
    /\ rows \in [Memories -> Rows \cup {None}]
    /\ evidence \in BOOLEAN
    /\ pc \in [Processes -> Points]
    /\ left \in [Processes -> SUBSET EmbeddedMemories]
    /\ crossed \subseteq Gates
    /\ \A p \in Processes :
          /\ left[p] # {} <=> pc[p] = "save"
          /\ pc[p] \in GatePoints => p \in Gates

\* Whatever is seeded, embedded, interrupted and repeated in between, a stored
\* vector was made from the canonical text of its own memory by the production
\* provider its columns name, and a row with canonical text has its vector.
VectorsAreSound ==
    \A m \in Stored :
        /\ rows[m].text[2] = m
        /\ rows[m].text[1] = "canonical" => rows[m].vector # None
        /\ IF rows[m].vector = None THEN rows[m].label = None
           ELSE /\ rows[m].label \in Storable
                /\ rows[m].vector = [text |-> <<"canonical", m>>, by |-> rows[m].label]

\* has_matching_embeddings reads no vector, yet a gate that reuses what it
\* finds has the very vectors it would have made.
ReuseIsSound ==
    \A by \in Providers : HasMatchingEmbeddings(by) =>
        \A m \in Memories :
            m \in Stored /\ rows[m].vector = [text |-> <<"canonical", m>>, by |-> by]

\* From its verification on, a gate finds all memories of the seed embedded,
\* although others seed, save and stop meanwhile; and embedded by its own model,
\* whatever the lab was embedded with, unless a process configured with another
\* model saved since the gate last looked: once the reuse check and once the
\* verification notice what crossed it before, nothing notices it later, for
\* search compares vectors of any model with the query vector and never looks
\* at embedding_model_id (memory/repository.py:218).
SearchComparesOneModel ==
    \A p \in Gates : pc[p] \in {"verify", "retrieve"} =>
        /\ EmbeddedRows = Memories
        /\ p \notin crossed => \A m \in Memories : rows[m].vector.by = Model[p]

\* Saving memory by memory never meets a superseder that is not stored yet, so
\* a version chain is interrupted only by a failure.
ChainIsSavedInOrder ==
    \A p \in Processes : pc[p] = "save" /\ evidence =>
        \A i \in NextToSave(left[p]) : RowAccepted(i.memory)

\* A memory once embedded stays embedded: no seed, interrupted save or rerun
\* takes it out of the search.
EmbeddingsAreKept == [][\A m \in EmbeddedRows : m \in EmbeddedRows']_vars
================================================================================
