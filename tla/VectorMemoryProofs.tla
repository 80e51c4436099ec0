--------------------------- MODULE VectorMemoryProofs ---------------------------
(***************************************************************************)
(* Proofs about VectorMemory, for any gates, seeders and importers, any    *)
(* memories whose version chains have two links, and any providers.        *)
(***************************************************************************)
EXTENDS VectorMemory, EmbeddingRetry, FiniteSetTheorems, TLAPS

\* The memory is in the search.
HasVector(m) == rows[m] # None /\ rows[m].vector # None

\* And this provider put it there.
HasVectorOf(m, by) == HasVector(m) /\ rows[m].vector.by = by

\* What a process has still to save was embedded by a production provider, that
\* of a gate by its own, together with the superseders that are not stored yet.
LeftIsSound ==
    \A p \in Processes : \A i \in left[p] :
        /\ i.memory \in Memories
        /\ i.metadata \in Storable
        /\ i = Embedded(i.memory, i.metadata)
        /\ p \in Gates => i.metadata = Model[p]
        /\ Superseder[i.memory] # None =>
              \/ Superseder[i.memory] \in Stored
              \/ \E j \in left[p] : j.memory = Superseder[i.memory]

\* How far a gate has come with a memory: it is in the search, and as long as no
\* other model crossed the gate, with a vector of its own.
Ready(p, m) == HasVector(m) /\ (p \notin crossed => HasVectorOf(m, Model[p]))

GateProgress ==
    \A p \in Gates :
        /\ pc[p] = "save" =>
              \A m \in Memories : (\A i \in left[p] : i.memory # m) => Ready(p, m)
        /\ pc[p] \in {"verify", "retrieve"} => \A m \in Memories : Ready(p, m)

IInv == TypeOK /\ VectorsAreSound /\ LeftIsSound /\ GateProgress

LEMMA EmbeddedType ==
    ASSUME NEW m \in Memories, NEW by \in Providers
    PROVE  /\ Embedded(m, by) \in EmbeddedMemories
           /\ Embedded(m, by).memory = m
           /\ Embedded(m, by).metadata = by
           /\ Embedded(m, by).vector = [text |-> <<"canonical", m>>, by |-> by]
           /\ Embedded(m, by).vector \in Vectors
BY DEF Embedded, EmbeddedMemories, Vectors, Texts

\* A row of the seed knows no vector; one that is seeded again keeps its own.
LEMMA SeededRows ==
    ASSUME TypeOK, VectorsAreSound, NEW m \in Memories
    PROVE  /\ Seeded \in [Memories -> Rows]
           /\ Seeded[m].text = <<"seed", m>>
           /\ rows[m] = None => Seeded[m].vector = None /\ Seeded[m].label = None
           /\ rows[m] # None => Seeded[m].vector = rows[m].vector /\ Seeded[m].label = rows[m].label
<1>1. ASSUME NEW n \in Memories PROVE SeededRow(n) \in Rows
  BY DEF SeededRow, Rows, Texts
<1>2. ASSUME NEW n \in Memories, rows[n] # None
      PROVE  [rows[n] EXCEPT !.text = <<"seed", n>>] \in Rows
  <2>1. rows[n] \in Rows
    BY <1>2 DEF TypeOK
  <2>2. <<"seed", n>> \in Texts
    BY DEF Texts
  <2> QED
    BY <2>1, <2>2 DEF Rows
<1>3. Seeded \in [Memories -> Rows]
  BY <1>1, <1>2 DEF Seeded
<1>4. CASE rows[m] = None
  BY <1>3, <1>4 DEF Seeded, SeededRow
<1>5. CASE rows[m] # None
  <2>1. rows[m] \in Rows
    BY <1>5 DEF TypeOK
  <2> QED
    BY <1>3, <1>5, <2>1 DEF Seeded, Rows
<1> QED
  BY <1>3, <1>4, <1>5

\* A saved row carries the vector and the name of the model that made it.
LEMMA SavedRow ==
    ASSUME TypeOK, NEW i, i.memory \in Memories, NEW by \in Storable, i = Embedded(i.memory, by)
    PROVE  /\ SavedOne(i) \in [Memories -> Rows \cup {None}]
           /\ SavedOne(i)[i.memory] =
                 [text |-> <<"canonical", i.memory>>, label |-> by,
                  vector |-> [text |-> <<"canonical", i.memory>>, by |-> by]]
           /\ SavedOne(i)[i.memory] \in Rows
           /\ \A m \in Memories : m # i.memory => SavedOne(i)[m] = rows[m]
<1>1. by \in Providers
  BY ProvidersAssumption
<1>2. i.metadata = by /\ i.vector = [text |-> <<"canonical", i.memory>>, by |-> by]
      /\ i.vector \in Vectors
  BY <1>1, EmbeddedType
<1>3. [text |-> <<"canonical", i.memory>>, vector |-> i.vector, label |-> i.metadata] \in Rows
  BY <1>1, <1>2 DEF Rows, Texts
<1>4. rows \in [Memories -> Rows \cup {None}]
  BY DEF TypeOK
<1> QED
  BY <1>2, <1>3, <1>4 DEF SavedOne

\* An embedded memory of a provider for production.
Produced(i) == i.memory \in Memories /\ i.metadata \in Storable /\ i = Embedded(i.memory, i.metadata)

\* What an item to be saved is.
LEMMA NextIsSound ==
    ASSUME LeftIsSound, NEW p \in Processes, NEW i \in NextToSave(left[p])
    PROVE  i \in left[p] /\ Produced(i) /\ (p \in Gates => i.metadata = Model[p])
BY DEF LeftIsSound, NextToSave, Produced

---------------------------------------------------------------------------
(* Rows only get better.                                                   *)

\* The gates that saving the item crosses.
Crosses(i) == {g \in Gates : Model[g] # i.metadata}

\* The three things a step can do to the rows.
LEMMA RowsStep ==
    ASSUME LeftIsSound, [Next]_vars
    PROVE  \/ rows' = rows
           \/ rows' = Seeded
           \/ \E i : Produced(i) /\ rows' = SavedOne(i) /\ crossed' = crossed \cup Crosses(i)
<1>1. ASSUME NEW p \in Processes, SaveOne(p)
      PROVE  \/ rows' = rows
             \/ \E i : Produced(i) /\ rows' = SavedOne(i) /\ crossed' = crossed \cup Crosses(i)
  <2>1. PICK i \in NextToSave(left[p]) :
          \/ rows' = SavedOne(i) /\ crossed' = crossed \cup {g \in Gates : Model[g] # i.metadata}
          \/ rows' = rows
    BY <1>1 DEF SaveOne
  <2> QED
    BY <2>1, NextIsSound DEF Crosses
<1>2. ASSUME NEW p \in Processes, Start(p) \/ Import(p) \/ Stop(p) \/ SaveTraces(p)
                                  \/ CheckReuse(p) \/ Embed(p) \/ Verify(p) \/ Retrieve(p)
      PROVE  rows' = rows
  BY <1>2 DEF Start, Import, Stop, SaveTraces, CheckReuse, Embed, Verify, Retrieve
<1>3. ASSUME NEW p \in Processes, SaveFacts(p) PROVE rows' = Seeded
  BY <1>3 DEF SaveFacts
<1>4. CASE UNCHANGED vars
  BY <1>4 DEF vars
<1> QED
  BY <1>1, <1>2, <1>3, <1>4 DEF Next, Step

\* A vector is replaced by one of another model only where that crosses a gate.
LEMMA RowsImprove ==
    ASSUME TypeOK, VectorsAreSound, LeftIsSound, [Next]_vars
    PROVE  /\ rows' \in [Memories -> Rows \cup {None}]
           /\ VectorsAreSound'
           /\ Stored \subseteq Stored'
           /\ EmbeddedRows \subseteq EmbeddedRows'
           /\ \A m \in Memories : HasVector(m) => HasVector(m)'
           /\ \A m \in Memories : \A g \in Gates :
                 HasVectorOf(m, Model[g]) /\ g \notin crossed' => HasVectorOf(m, Model[g])'
<1>1. CASE rows' = rows
  BY <1>1 DEF TypeOK, VectorsAreSound, Stored, EmbeddedRows, HasVector, HasVectorOf
<1>2. CASE rows' = Seeded
  <2>0. rows' \in [Memories -> Rows]
    <3>1. PICK n : n \in Memories
      BY MemoriesAssumption
    <3> QED
      BY <1>2, <3>1, SeededRows
  <2>1. ASSUME NEW m \in Memories
        PROVE  /\ rows'[m] # None
               /\ rows'[m].text = <<"seed", m>>
               /\ rows[m] = None => rows'[m].vector = None /\ rows'[m].label = None
               /\ rows[m] # None =>
                     rows'[m].vector = rows[m].vector /\ rows'[m].label = rows[m].label
    BY <1>2, <2>0, SeededRows, NoneAssumption
  <2>2. VectorsAreSound'
    <3> SUFFICES ASSUME NEW m \in Memories
                 PROVE  /\ rows'[m].text[2] = m
                        /\ rows'[m].text[1] # "canonical"
                        /\ IF rows'[m].vector = None THEN rows'[m].label = None
                           ELSE /\ rows'[m].label \in Storable
                                /\ rows'[m].vector =
                                      [text |-> <<"canonical", m>>, by |-> rows'[m].label]
      BY DEF VectorsAreSound, Stored
    <3>1. CASE rows[m] = None
      BY <2>1, <3>1
    <3>2. CASE rows[m] # None
      BY <2>1, <3>2 DEF VectorsAreSound, Stored
    <3> QED
      BY <3>1, <3>2
  <2>3. Stored \subseteq Stored' /\ EmbeddedRows \subseteq EmbeddedRows'
    BY <2>1 DEF Stored, EmbeddedRows
  <2>4. \A m \in Memories : HasVector(m) => HasVector(m)'
    BY <2>1 DEF HasVector
  <2>5. \A m \in Memories : \A g \in Gates :
           HasVectorOf(m, Model[g]) /\ g \notin crossed' => HasVectorOf(m, Model[g])'
    <3> TAKE m \in Memories
    <3> TAKE g \in Gates
    <3>1. HasVectorOf(m, Model[g]) => HasVectorOf(m, Model[g])'
      BY <2>1 DEF HasVector, HasVectorOf
    <3> QED
      BY <3>1
  <2> QED
    BY <2>0, <2>2, <2>3, <2>4, <2>5
<1>3. ASSUME NEW i, Produced(i), rows' = SavedOne(i), crossed' = crossed \cup Crosses(i)
      PROVE  /\ rows' \in [Memories -> Rows \cup {None}]
             /\ VectorsAreSound'
             /\ Stored \subseteq Stored'
             /\ EmbeddedRows \subseteq EmbeddedRows'
             /\ \A m \in Memories : HasVector(m) => HasVector(m)'
             /\ \A m \in Memories : \A g \in Gates :
                   HasVectorOf(m, Model[g]) /\ g \notin crossed' => HasVectorOf(m, Model[g])'
  <2> PICK by : by = i.metadata
    OBVIOUS
  <2> DEFINE n == i.memory
             v == [text |-> <<"canonical", n>>, by |-> by]
  <2>p. n \in Memories /\ by \in Storable /\ i = Embedded(n, by)
    BY <1>3 DEF Produced
  <2>0. v \in Vectors
    BY <2>p, ProvidersAssumption DEF Vectors, Texts
  <2>1. /\ rows' \in [Memories -> Rows \cup {None}]
        /\ rows'[n] # None
        /\ rows'[n].text = <<"canonical", n>>
        /\ rows'[n].label = by
        /\ rows'[n].vector = v
        /\ v # None
        /\ \A m \in Memories : m # n => rows'[m] = rows[m]
    <3>1. /\ rows' \in [Memories -> Rows \cup {None}]
          /\ rows'[n] = [text |-> <<"canonical", n>>, label |-> by, vector |-> v]
          /\ rows'[n] \in Rows
          /\ \A m \in Memories : m # n => rows'[m] = rows[m]
      BY <1>3, <2>p, SavedRow
    <3>2. v # None /\ rows'[n] # None
      BY <2>0, <3>1, NoneAssumption
    <3> QED
      BY <3>1, <3>2
  <2> HIDE DEF v
  <2>2. VectorsAreSound'
    <3> SUFFICES ASSUME NEW m \in Memories, rows'[m] # None
                 PROVE  /\ rows'[m].text[2] = m
                        /\ rows'[m].text[1] = "canonical" => rows'[m].vector # None
                        /\ IF rows'[m].vector = None THEN rows'[m].label = None
                           ELSE /\ rows'[m].label \in Storable
                                /\ rows'[m].vector =
                                      [text |-> <<"canonical", m>>, by |-> rows'[m].label]
      BY DEF VectorsAreSound, Stored
    <3>1. CASE m = n
      BY <2>1, <2>p, <3>1 DEF v
    <3>2. CASE m # n
      BY <2>1, <3>2 DEF VectorsAreSound, Stored
    <3> QED
      BY <3>1, <3>2
  <2>3. Stored \subseteq Stored' /\ EmbeddedRows \subseteq EmbeddedRows'
    BY <2>1 DEF Stored, EmbeddedRows
  <2>4. ASSUME NEW m \in Memories, HasVector(m) PROVE HasVector(m)'
    <3>1. CASE m = n
      BY <2>1, <3>1 DEF HasVector
    <3>2. CASE m # n
      BY <2>1, <2>4, <3>2 DEF HasVector
    <3> QED
      BY <3>1, <3>2
  <2>5. ASSUME NEW m \in Memories, NEW g \in Gates, HasVectorOf(m, Model[g]), g \notin crossed'
        PROVE  HasVectorOf(m, Model[g])'
    <3>1. by = Model[g]
      BY <1>3, <2>5 DEF Crosses
    <3>2. CASE m = n
      BY <2>1, <3>1, <3>2 DEF HasVector, HasVectorOf, v
    <3>3. CASE m # n
      BY <2>1, <2>5, <3>3 DEF HasVector, HasVectorOf
    <3> QED
      BY <3>2, <3>3
  <2> QED
    BY <2>1, <2>2, <2>3, <2>4, <2>5
<1> QED
  BY <1>1, <1>2, <1>3, RowsStep

---------------------------------------------------------------------------
(* The inductive invariant, step by step.                                  *)

\* Whose items a step changes, and to what.
LEMMA LeftStep ==
    ASSUME TypeOK, LeftIsSound, NEW p \in Processes,
           Start(p) \/ Import(p) \/ Step(p) \/ Stop(p)
    PROVE  /\ \A q \in Processes : q # p => left'[q] = left[q] /\ pc'[q] = pc[q]
           /\ left' \in [Processes -> SUBSET EmbeddedMemories]
           /\ pc' \in [Processes -> Points]
           /\ left'[p] # {} <=> pc'[p] = "save"
           /\ pc'[p] \in GatePoints => p \in Gates
           /\ crossed' \subseteq Gates
           /\ \A q \in Gates : q # p /\ q \in crossed => q \in crossed'
<1> USE DEF TypeOK, Goto, Points, GatePoints
<1>1. CASE Start(p) \/ SaveTraces(p) \/ SaveFacts(p) \/ CheckReuse(p) \/ Verify(p) \/ Retrieve(p)
  BY <1>1 DEF Start, SaveTraces, SaveFacts, CheckReuse, Verify, Retrieve
<1>2. CASE Stop(p)
  BY <1>2 DEF Stop
<1>3. CASE Embed(p)
  <2>0. p \in Gates => Model[p] \in Providers
    BY ProvidersAssumption
  <2>g. p \in Gates
    BY <1>3 DEF Embed, GatePoints
  <2>1. \A m \in Memories : Embedded(m, Model[p]) \in EmbeddedMemories
    BY <2>0, <2>g, EmbeddedType
  <2>2. {Embedded(m, Model[p]) : m \in Memories} \in SUBSET EmbeddedMemories
    BY <2>1
  <2>3. {Embedded(m, Model[p]) : m \in Memories} # {}
    BY MemoriesAssumption
  <2> HIDE DEF TypeOK
  <2> QED
    BY <1>3, <2>2, <2>3 DEF Embed, TypeOK
<1>4. CASE Import(p)
  <2>1. PICK c \in ImportCalls : MaySave(c) /\ left' = [left EXCEPT ![p] = c]
    BY <1>4 DEF Import
  <2>2. c # {} /\ c \in SUBSET EmbeddedMemories
    <3> HIDE DEF TypeOK
    <3>1. ASSUME NEW i \in c PROVE i \in EmbeddedMemories
      <4>1. PICK m \in Memories, by \in Providers : i = Embedded(m, by)
        BY ImportsAssumption
      <4> QED
        BY <4>1, EmbeddedType
    <3> QED
      BY <2>1, <3>1 DEF MaySave
  <2> QED
    BY <1>4, <2>1, <2>2 DEF Import
<1>5. CASE SaveOne(p)
  <2>1. PICK i \in NextToSave(left[p]) :
          IF RowAccepted(i.memory)
          THEN /\ rows' = SavedOne(i)
               /\ left' = [left EXCEPT ![p] = @ \ {i}]
               /\ crossed' = crossed \cup {g \in Gates : Model[g] # i.metadata}
               /\ Goto(p, IF left[p] # {i} THEN "save" ELSE IF p \in Gates THEN "verify" ELSE "idle")
          ELSE /\ Goto(p, "idle")
               /\ left' = [left EXCEPT ![p] = {}]
               /\ UNCHANGED <<rows, crossed>>
    BY <1>5 DEF SaveOne
  <2>2. i \in left[p]
    BY NextIsSound
  <2>3. CASE RowAccepted(i.memory)
    <3>1. left'[p] = left[p] \ {i}
      BY <2>1, <2>3
    <3>2. left'[p] # {} <=> left[p] # {i}
      BY <2>2, <3>1
    <3> QED
      BY <2>1, <2>3, <3>2
  <2>4. CASE ~RowAccepted(i.memory)
    BY <2>1, <2>4
  <2> QED
    BY <2>3, <2>4
<1> QED
  BY <1>1, <1>2, <1>3, <1>4, <1>5 DEF Step

LEMMA TypeStep == IInv /\ [Next]_vars => TypeOK'
<1> SUFFICES ASSUME IInv, [Next]_vars PROVE TypeOK'
  OBVIOUS
<1>1. rows' \in [Memories -> Rows \cup {None}]
  BY RowsImprove DEF IInv
<1>2. CASE UNCHANGED vars
  BY <1>2 DEF vars, IInv, TypeOK
<1>3. ASSUME NEW p \in Processes, Start(p) \/ Import(p) \/ Step(p) \/ Stop(p)
      PROVE  TypeOK'
  <2>1. evidence' \in BOOLEAN
    BY <1>3 DEF IInv, TypeOK, Start, Import, Step, Stop, SaveTraces, SaveFacts, CheckReuse,
                Embed, SaveOne, Verify, Retrieve
  <2>2. /\ left' \in [Processes -> SUBSET EmbeddedMemories]
        /\ pc' \in [Processes -> Points]
        /\ crossed' \subseteq Gates
        /\ \A q \in Processes :
              /\ left'[q] # {} <=> pc'[q] = "save"
              /\ pc'[q] \in GatePoints => q \in Gates
    BY <1>3, LeftStep DEF IInv, TypeOK
  <2> QED
    BY <1>1, <2>1, <2>2 DEF TypeOK
<1> QED
  BY <1>2, <1>3 DEF Next

LEMMA LeftIsSoundStep == IInv /\ [Next]_vars => LeftIsSound'
<1> SUFFICES ASSUME IInv, [Next]_vars PROVE LeftIsSound'
  OBVIOUS
<1>0. Stored \subseteq Stored' /\ TypeOK /\ LeftIsSound
  BY RowsImprove DEF IInv
<1> DEFINE Ours(q, s) ==
      \A i \in s :
        /\ i.memory \in Memories
        /\ i.metadata \in Storable
        /\ i = Embedded(i.memory, i.metadata)
        /\ q \in Gates => i.metadata = Model[q]
        /\ Superseder[i.memory] # None =>
              \/ Superseder[i.memory] \in Stored'
              \/ \E j \in s : j.memory = Superseder[i.memory]
<1>1. \A q \in Processes : Ours(q, left[q])
  BY <1>0 DEF LeftIsSound
<1>2. CASE UNCHANGED vars
  BY <1>1, <1>2 DEF vars, LeftIsSound
<1>3. ASSUME NEW p \in Processes, Start(p) \/ Import(p) \/ Step(p) \/ Stop(p)
      PROVE  LeftIsSound'
  <2>1. \A q \in Processes : q # p => left'[q] = left[q]
    BY <1>0, <1>3, LeftStep
  <2>2. Ours(p, left'[p])
    <3>1. CASE left'[p] = left[p] \/ left'[p] = {}
      BY <1>1, <3>1
    <3>2. CASE Embed(p)
      <4>1. left'[p] = {Embedded(m, Model[p]) : m \in Memories}
        BY <1>0, <3>2 DEF Embed, TypeOK
      <4>g. Model[p] \in Storable /\ Model[p] \in Providers
        BY <1>0, <3>2, ProvidersAssumption DEF Embed, TypeOK, GatePoints
      <4>2. \A m \in Memories :
              Embedded(m, Model[p]).memory = m /\ Embedded(m, Model[p]).metadata = Model[p]
        BY <4>g, EmbeddedType
      <4>3. \A m \in Memories : Superseder[m] # None => Superseder[m] \in Memories
        BY MemoriesAssumption
      <4> QED
        BY <4>1, <4>2, <4>3, <4>g
    <3>3. CASE Import(p)
      <4>1. PICK c \in ImportCalls : MaySave(c) /\ left' = [left EXCEPT ![p] = c]
        BY <3>3 DEF Import
      <4>2. left'[p] = c
        BY <1>0, <4>1 DEF TypeOK
      <4>3. ASSUME NEW i \in c PROVE Produced(i)
        <5>1. PICK m \in Memories, by \in Providers : i = Embedded(m, by)
          BY ImportsAssumption
        <5>2. i.memory = m /\ i.metadata = by
          BY <5>1, EmbeddedType
        <5>3. i.metadata \in Storable
          BY <4>1 DEF MaySave
        <5> QED
          BY <5>1, <5>2, <5>3 DEF Produced
      <4>4. p \notin Gates
        BY <3>3, ProcessesAssumption DEF Import
      <4> QED
        BY <4>2, <4>3, <4>4, ChainsAssumption DEF Produced
    <3>4. CASE SaveOne(p)
      <4>1. PICK i \in NextToSave(left[p]) :
              \/ /\ RowAccepted(i.memory)
                 /\ rows' = SavedOne(i)
                 /\ left' = [left EXCEPT ![p] = @ \ {i}]
              \/ left' = [left EXCEPT ![p] = {}]
        BY <3>4 DEF SaveOne
      <4>2. CASE left' = [left EXCEPT ![p] = {}]
        BY <1>0, <3>1, <4>2 DEF TypeOK
      <4>3. CASE rows' = SavedOne(i) /\ left' = [left EXCEPT ![p] = @ \ {i}]
        <5>1. left'[p] = left[p] \ {i}
          BY <1>0, <4>3 DEF TypeOK
        <5>2. i.memory \in Stored'
          <6>1. Produced(i)
            BY <1>0, NextIsSound
          <6>2. rows'[i.memory] \in Rows
            BY <1>0, <4>3, <6>1, SavedRow DEF Produced
          <6> QED
            BY <6>1, <6>2, NoneAssumption DEF Produced, Stored
        <5>3. SUFFICES ASSUME NEW k \in left[p] \ {i}
              PROVE  /\ k.memory \in Memories
                     /\ k.metadata \in Storable
                     /\ k = Embedded(k.memory, k.metadata)
                     /\ p \in Gates => k.metadata = Model[p]
                     /\ Superseder[k.memory] # None =>
                           \/ Superseder[k.memory] \in Stored'
                           \/ \E j \in left[p] \ {i} : j.memory = Superseder[k.memory]
          BY <5>1
        <5>4. Ours(p, left[p])
          BY <1>1
        <5>5. ASSUME Superseder[k.memory] # None, Superseder[k.memory] \notin Stored'
              PROVE  \E j \in left[p] \ {i} : j.memory = Superseder[k.memory]
          BY <5>2, <5>4, <5>5
        <5> QED
          BY <5>4, <5>5
      <4> QED
        BY <4>1, <4>2, <4>3
    <3>5. CASE Start(p) \/ Stop(p) \/ SaveTraces(p) \/ SaveFacts(p) \/ CheckReuse(p)
               \/ Verify(p) \/ Retrieve(p)
      <4>1. left'[p] = left[p] \/ left'[p] = {}
        BY <1>0, <3>5 DEF TypeOK, Start, Stop, SaveTraces, SaveFacts, CheckReuse, Verify, Retrieve
      <4> QED
        BY <3>1, <4>1
    <3> QED
      BY <1>3, <3>2, <3>3, <3>4, <3>5 DEF Step
  <2> QED
    BY <1>1, <2>1, <2>2 DEF LeftIsSound
<1> QED
  BY <1>2, <1>3 DEF Next

LEMMA GateProgressStep == IInv /\ [Next]_vars => GateProgress'
<1> SUFFICES ASSUME IInv, [Next]_vars PROVE GateProgress'
  OBVIOUS
<1>0. TypeOK /\ LeftIsSound
  BY DEF IInv
<1>1. ASSUME NEW m \in Memories, NEW g \in Gates, Ready(g, m), g \in crossed => g \in crossed'
      PROVE  Ready(g, m)'
  BY <1>1, RowsImprove DEF IInv, Ready
<1>2. CASE UNCHANGED vars
  BY <1>2 DEF vars, IInv, GateProgress, Ready, HasVector, HasVectorOf
<1>3. ASSUME NEW p \in Processes, Start(p) \/ Import(p) \/ Step(p) \/ Stop(p)
      PROVE  GateProgress'
  <2> SUFFICES ASSUME NEW g \in Gates
               PROVE  /\ pc'[g] = "save" =>
                            \A m \in Memories :
                               (\A i \in left'[g] : i.memory # m) => Ready(g, m)'
                      /\ pc'[g] \in {"verify", "retrieve"} =>
                            \A m \in Memories : Ready(g, m)'
    BY DEF GateProgress
  <2>1. CASE g # p
    <3>1. left'[g] = left[g] /\ pc'[g] = pc[g] /\ (g \in crossed => g \in crossed')
      BY <1>0, <1>3, <2>1, LeftStep DEF Processes
    <3> QED
      BY <1>1, <3>1 DEF IInv, GateProgress
  <2>2. CASE g = p /\ (Start(p) \/ Stop(p) \/ SaveTraces(p) \/ SaveFacts(p) \/ Retrieve(p))
    <3>1. pc'[g] \notin {"save", "verify", "retrieve"}
      BY <1>0, <2>2 DEF Start, Stop, SaveTraces, SaveFacts, Retrieve, Goto, TypeOK
    <3> QED
      BY <3>1
  <2>3. CASE g = p /\ Import(p)
    BY <2>3, ProcessesAssumption DEF Import
  <2>l. ASSUME NEW m \in EmbeddedRows, rows[m].label = Model[g], rows' = rows
        PROVE  Ready(g, m)'
    <3>1. rows[m] # None /\ rows[m].vector # None
      BY DEF EmbeddedRows, Stored
    <3>2. rows[m].vector = [text |-> <<"canonical", m>>, by |-> rows[m].label]
      BY <3>1 DEF IInv, VectorsAreSound, EmbeddedRows, Stored
    <3> QED
      BY <2>l, <3>1, <3>2 DEF Ready, HasVector, HasVectorOf
  <2>4. CASE g = p /\ CheckReuse(p)
    <3>1. /\ pc'[g] = IF HasMatchingEmbeddings(Model[g]) THEN "verify" ELSE "embed"
          /\ rows' = rows
      BY <1>0, <2>4 DEF CheckReuse, Goto, TypeOK
    <3>2. ASSUME HasMatchingEmbeddings(Model[g]), NEW m \in Memories PROVE Ready(g, m)'
      BY <2>l, <3>1, <3>2 DEF HasMatchingEmbeddings
    <3> QED
      BY <3>1, <3>2
  <2>5. CASE g = p /\ Embed(p)
    <3>1. pc'[g] = "save" /\ left'[g] = {Embedded(m, Model[g]) : m \in Memories}
      BY <1>0, <2>5 DEF Embed, Goto, TypeOK
    <3>2. \A m \in Memories : Embedded(m, Model[g]).memory = m
      BY ProvidersAssumption, EmbeddedType
    <3> QED
      BY <3>1, <3>2
  <2>6. CASE g = p /\ SaveOne(p)
    <3>1. PICK i \in NextToSave(left[p]) :
            IF RowAccepted(i.memory)
            THEN /\ rows' = SavedOne(i)
                 /\ left' = [left EXCEPT ![p] = @ \ {i}]
                 /\ crossed' = crossed \cup {q \in Gates : Model[q] # i.metadata}
                 /\ Goto(p, IF left[p] # {i} THEN "save"
                            ELSE IF p \in Gates THEN "verify" ELSE "idle")
            ELSE /\ Goto(p, "idle")
                 /\ left' = [left EXCEPT ![p] = {}]
                 /\ UNCHANGED <<rows, crossed>>
      BY <2>6 DEF SaveOne
    <3>2. i \in left[p] /\ i.memory \in Memories /\ i = Embedded(i.memory, Model[g])
          /\ Model[g] \in Storable
      BY <1>0, <2>6, NextIsSound, ProvidersAssumption DEF Produced
    <3>3. CASE ~RowAccepted(i.memory)
      BY <1>0, <2>6, <3>1, <3>3 DEF Goto, TypeOK
    <3>4. CASE RowAccepted(i.memory)
      <4>1. /\ left'[g] = left[g] \ {i}
            /\ pc'[g] = IF left[g] # {i} THEN "save" ELSE "verify"
            /\ g \in crossed => g \in crossed'
        BY <1>0, <2>6, <3>1, <3>4 DEF Goto, TypeOK
      <4>2. Ready(g, i.memory)'
        <5>1. /\ rows'[i.memory] \in Rows
              /\ rows'[i.memory].vector = [text |-> <<"canonical", i.memory>>, by |-> Model[g]]
          <6>1. rows' = SavedOne(i)
            BY <3>1, <3>4
          <6>2. /\ SavedOne(i)[i.memory] \in Rows
                /\ SavedOne(i)[i.memory] =
                      [text |-> <<"canonical", i.memory>>, label |-> Model[g],
                       vector |-> [text |-> <<"canonical", i.memory>>, by |-> Model[g]]]
            BY <1>0, <3>2, SavedRow
          <6> QED
            BY <6>1, <6>2
        <5>2. [text |-> <<"canonical", i.memory>>, by |-> Model[g]] \in Vectors
          BY <3>2, ProvidersAssumption DEF Vectors, Texts
        <5> QED
          BY <5>1, <5>2, NoneAssumption DEF Ready, HasVector, HasVectorOf
      <4>3. ASSUME NEW m \in Memories, \A j \in left'[g] : j.memory # m
            PROVE  Ready(g, m)'
        <5>1. CASE m = i.memory
          BY <4>2, <5>1
        <5>2. CASE m # i.memory
          <6>1. \A j \in left[g] : j.memory # m
            BY <4>1, <4>3, <5>2
          <6>2. pc[g] = "save"
            BY <2>6 DEF SaveOne
          <6> QED
            BY <1>1, <4>1, <6>1, <6>2 DEF IInv, GateProgress
        <5> QED
          BY <5>1, <5>2
      <4>4. left[g] = {i} => left'[g] = {}
        BY <4>1
      <4> QED
        BY <4>1, <4>3, <4>4
    <3> QED
      BY <3>3, <3>4
  <2>7. CASE g = p /\ Verify(p)
    <3>1. /\ pc[g] = "verify" /\ pc'[g] = IF VerifyPasses(g) THEN "retrieve" ELSE "idle"
          /\ rows' = rows
      BY <1>0, <2>7 DEF Verify, Goto, TypeOK
    <3>2. ASSUME VerifyPasses(g), NEW m \in Memories PROVE Ready(g, m)'
      <4>1. m \in EmbeddedRows
        BY <3>1 DEF IInv, GateProgress, Ready, HasVector, EmbeddedRows, Stored
      <4> QED
        BY <2>l, <3>1, <3>2, <4>1 DEF VerifyPasses
    <3> QED
      BY <3>1, <3>2
  <2> QED
    BY <1>3, <2>1, <2>2, <2>3, <2>4, <2>5, <2>6, <2>7 DEF Step
<1> QED
  BY <1>2, <1>3 DEF Next

LEMMA InvInit == Init => IInv
<1> SUFFICES ASSUME Init PROVE IInv
  OBVIOUS
<1>1. ASSUME NEW m \in Memories, rows[m] # None
      PROVE  /\ rows[m] \in Rows
             /\ rows[m].text[2] = m
             /\ rows[m].text[1] = "canonical" => rows[m].vector # None
             /\ IF rows[m].vector = None THEN rows[m].label = None
                ELSE /\ rows[m].label \in Storable
                     /\ rows[m].vector = [text |-> <<"canonical", m>>, by |-> rows[m].label]
  <2>1. rows[m] \in LabRows(m)
    BY DEF Init
  <2>2. CASE rows[m] = SeededRow(m)
    <3>1. rows[m] \in Rows
      BY <2>2 DEF SeededRow, Rows, Texts
    <3> QED
      BY <2>2, <3>1 DEF SeededRow
  <2>3. ASSUME NEW t \in {"seed", "canonical"}, NEW by \in Storable,
               rows[m] = [text |-> <<t, m>>, vector |-> Embedded(m, by).vector, label |-> by]
        PROVE  /\ rows[m] \in Rows
               /\ rows[m].text[2] = m
               /\ rows[m].vector # None
               /\ rows[m].label \in Storable
               /\ rows[m].vector = [text |-> <<"canonical", m>>, by |-> rows[m].label]
    <3>1. by \in Providers
      BY ProvidersAssumption
    <3>2. /\ Embedded(m, by).vector = [text |-> <<"canonical", m>>, by |-> by]
          /\ Embedded(m, by).vector \in Vectors
      BY <3>1, EmbeddedType
    <3>3. Embedded(m, by).vector # None
      BY <3>2, NoneAssumption
    <3>4. <<t, m>> \in Texts
      BY DEF Texts
    <3>5. rows[m] \in Rows
      BY <2>3, <3>1, <3>2, <3>4 DEF Rows
    <3> QED
      BY <2>3, <3>2, <3>3, <3>5
  <2> QED
    BY <1>1, <2>1, <2>2, <2>3 DEF LabRows
<1>2. rows \in [Memories -> Rows \cup {None}]
  <2>1. rows \in [Memories -> UNION {LabRows(m) : m \in Memories}]
    BY DEF Init
  <2> QED
    BY <1>1, <2>1
<1>3. /\ evidence \in BOOLEAN
      /\ pc = [p \in Processes |-> "idle"]
      /\ left = [p \in Processes |-> {}]
      /\ crossed = {}
  BY DEF Init
<1>4. TypeOK
  BY <1>2, <1>3 DEF TypeOK, Points, GatePoints
<1>5. VectorsAreSound
  BY <1>1 DEF VectorsAreSound, Stored
<1>6. LeftIsSound /\ GateProgress
  BY <1>3 DEF LeftIsSound, GateProgress, Processes
<1> QED
  BY <1>4, <1>5, <1>6 DEF IInv

LEMMA Invariance == Spec => []IInv
<1>1. IInv /\ [Next]_vars => IInv'
  BY TypeStep, LeftIsSoundStep, GateProgressStep, RowsImprove DEF IInv
<1> QED
  BY <1>1, InvInit, PTL DEF Spec

---------------------------------------------------------------------------
(* The theorems.                                                           *)

\* Rows, processes and what they have left to save keep their types.
THEOREM MemoryTypes == Spec => []TypeOK
<1>1. IInv => TypeOK
  BY DEF IInv
<1> QED
  BY <1>1, Invariance, PTL

\* However seeds, saves, failures and reruns interleave, a stored vector was
\* made from the canonical text of its memory by the provider it names.
THEOREM StoredVectorsAreSound == Spec => []VectorsAreSound
<1>1. IInv => VectorsAreSound
  BY DEF IInv
<1> QED
  BY <1>1, Invariance, PTL

\* What has_matching_embeddings lets a gate reuse is what it would have made.
THEOREM ReuseIsAlwaysSound == Spec => []ReuseIsSound
<1>1. IInv => ReuseIsSound
  <2> SUFFICES ASSUME IInv, NEW by \in Providers, HasMatchingEmbeddings(by), NEW m \in Memories
               PROVE  m \in Stored /\ rows[m].vector = [text |-> <<"canonical", m>>, by |-> by]
    BY DEF ReuseIsSound
  <2>1. m \in EmbeddedRows /\ rows[m].label = by
    BY DEF HasMatchingEmbeddings
  <2>2. m \in Stored /\ rows[m].vector # None
    BY <2>1 DEF EmbeddedRows
  <2> QED
    BY <2>1, <2>2 DEF IInv, VectorsAreSound
<1> QED
  BY <1>1, Invariance, PTL

\* However many gates of however many models run beside each other, a gate that
\* verifies or searches finds every memory of the seed embedded, and by its own
\* model unless another model's save crossed it since it last looked.
THEOREM SearchesCompareOneModel == Spec => []SearchComparesOneModel
<1>1. IInv => SearchComparesOneModel
  BY DEF IInv, GateProgress, SearchComparesOneModel, Ready, HasVector, HasVectorOf, EmbeddedRows,
         Stored
<1> QED
  BY <1>1, Invariance, PTL

\* The sort of save_embedded_memories is enough for chains of two links.
THEOREM ChainsAreSavedInOrder == Spec => []ChainIsSavedInOrder
<1>1. IInv => ChainIsSavedInOrder
  <2> SUFFICES ASSUME IInv, NEW p \in Processes, evidence, NEW i \in NextToSave(left[p]),
                      Superseder[i.memory] # None
               PROVE  Superseder[i.memory] \in Stored
    BY DEF ChainIsSavedInOrder, RowAccepted
  <2>1. i \in left[p] /\ i.memory \in Memories
    BY NextIsSound DEF IInv, Produced
  <2>2. ASSUME NEW j \in left[p], j.memory = Superseder[i.memory] PROVE FALSE
    <3>1. Last(j)
      BY <2>2 DEF NextToSave, Last
    <3> QED
      BY <2>1, <2>2, <3>1, ChainsAssumption DEF Last
  <2> QED
    BY <2>1, <2>2 DEF IInv, LeftIsSound
<1> QED
  BY <1>1, Invariance, PTL

\* No call ever takes a memory out of the search.
THEOREM EmbeddingsStay == Spec => EmbeddingsAreKept
<1>1. IInv /\ [Next]_vars => (\A m \in EmbeddedRows : m \in EmbeddedRows')
  BY RowsImprove DEF IInv
<1>2. IInv /\ [Next]_vars => [\A m \in EmbeddedRows : m \in EmbeddedRows']_vars
  BY <1>1
<1> QED
  BY <1>2, Invariance, PTL DEF Spec, EmbeddingsAreKept

---------------------------------------------------------------------------
(* The provider the gates embed with (EmbeddingRetry), for any number of   *)
(* attempts, delays and outages.                                           *)

Final(k) == k \in Kinds /\ k # "retryable"

\* While a call is going on it has had no final answer; one that is over had
\* at most one, and ended with it.
FinalInv ==
    /\ answers \in [Kinds -> Nat]
    /\ \A k \in Kinds : Final(k) =>
          /\ answers[k] <= 1
          /\ answers[k] > 0 =>
                /\ point = "idle"
                /\ result = IF k = "vector" THEN "vector" ELSE ErrorOf(k)
                /\ \A j \in Kinds : Final(j) /\ answers[j] > 0 => j = k

LEMMA InitFinalInv == RetryInit => FinalInv
  BY DEF RetryInit, NoAnswers, FinalInv

LEMMA NextFinalInv == FinalInv /\ [RetryNext]_retryVars => FinalInv'
<1>. SUFFICES ASSUME FinalInv, [RetryNext]_retryVars PROVE FinalInv'
  OBVIOUS
<1>1. CASE UNCHANGED retryVars
  BY <1>1 DEF retryVars, FinalInv
<1>2. CASE OutageBegins
  BY <1>2 DEF OutageBegins, FinalInv
<1>3. CASE BeginCall
  BY <1>3 DEF BeginCall, NoAnswers, FinalInv
<1>4. CASE Sleep
  <2>1. point = "sleeping" /\ answers' = answers
    BY <1>4 DEF Sleep
  <2>. QED BY <2>1 DEF FinalInv
<1>5. CASE Invoke
  <2>1. PICK kind \in Kinds :
           /\ answers' = [answers EXCEPT ![kind] = @ + 1]
           /\ IF IsRetried(kind)
              THEN point' = "sleeping" /\ UNCHANGED result
              ELSE /\ point' = "idle"
                   /\ result' = IF kind = "vector" THEN "vector" ELSE ErrorOf(kind)
    BY <1>5 DEF Invoke, AnswerKinds, Kinds
  <2>2. \A k \in Kinds : Final(k) => answers[k] = 0
    BY <1>5 DEF Invoke, FinalInv
  <2>3. answers' \in [Kinds -> Nat]
    BY <2>1 DEF FinalInv
  <2>4. \A k \in Kinds : answers'[k] = IF k = kind THEN answers[k] + 1 ELSE answers[k]
    BY <2>1 DEF FinalInv
  <2>5. CASE kind = "retryable"
    BY <2>2, <2>3, <2>4, <2>5 DEF FinalInv, Final
  <2>6. CASE kind # "retryable"
    <3>1. /\ point' = "idle"
          /\ result' = IF kind = "vector" THEN "vector" ELSE ErrorOf(kind)
      BY <2>1, <2>6 DEF IsRetried
    <3>. QED BY <2>2, <2>3, <2>4, <3>1 DEF FinalInv, Final
  <2>. QED BY <2>5, <2>6
<1>. QED BY <1>1, <1>2, <1>3, <1>4, <1>5 DEF RetryNext

\* However often a call of embed is retried it gets one answer at most that is
\* not retried, the last one, and that is what its caller learns: rejected
\* credentials, other errors and unusable responses are not asked for again.
THEOREM AnswersAreFinal == RetrySpec => []FinalAnswersAreFinal
<1>1. FinalInv => FinalAnswersAreFinal
  <2>. SUFFICES ASSUME FinalInv PROVE FinalAnswersAreFinal
    OBVIOUS
  <2> DEFINE finals == Kinds \ {"retryable"}
             got == {k \in finals : answers[k] > 0}
  <2>1. \A k \in finals : answers[k] <= 1
    BY DEF FinalInv, Final
  <2>2. \A k \in got : /\ point = "idle"
                       /\ result = IF k = "vector" THEN "vector" ELSE ErrorOf(k)
    BY DEF FinalInv, Final
  <2>3. \A j, k \in got : j = k
    BY DEF FinalInv, Final
  <2>4. Cardinality(got) <= 1
    <3> HIDE DEF got
    <3>1. CASE got = {}
      BY <3>1, FS_EmptySet
    <3>2. CASE got # {}
      <4>1. PICK k : got = {k}
        BY <2>3, <3>2
      <4>2. Cardinality({k}) = 1
        BY FS_Singleton
      <4>. QED BY <4>1, <4>2
    <3>. QED BY <3>1, <3>2
  <2>. QED BY <2>1, <2>2, <2>4 DEF FinalAnswersAreFinal
<1>. QED BY <1>1, InitFinalInv, NextFinalInv, PTL DEF RetrySpec

---------------------------------------------------------------------------
(* How long a call waits.  The invariant counts the sleeps of a call: what *)
(* is left of the outage it met is what it has not slept yet.              *)

Power(n) == 2 ^ n \in Nat /\ IF n < 3 THEN 2 ^ n = <<1, 2, 4>>[n + 1] ELSE 2 ^ n >= 8

Remaining(seconds) ==
    IF before = Forever THEN Forever ELSE IF before > seconds THEN before - seconds ELSE 0

WaitInv ==
    /\ point \in {"idle", "invoking", "sleeping"}
    /\ attempt \in 0 .. MaxAttempts - 1
    /\ point = "sleeping" => attempt + 1 < MaxAttempts
    /\ outage \in 0 .. Forever /\ before \in 0 .. Forever
    /\ Power(attempt)
    /\ waited = Slept(attempt)
    /\ point # "idle" => outage = Remaining(waited)
    /\ point = "idle" /\ result = "EmbeddingAttemptsExhausted" => before > Patience

LEMMA SleptIsOrdered ==
    ASSUME NEW n \in Nat
    PROVE  Slept(n) \in Nat /\ \A k \in 0 .. n : Slept(k) <= Slept(n)
  BY DEF Slept

LEMMA PatienceIsBounded == Patience \in Nat /\ Patience < Forever
  BY AttemptsAssumption, OutagesAssumption DEF Patience, Slept

LEMMA NextPower ==
    ASSUME NEW n \in 0 .. MaxAttempts, Power(n)
    PROVE  Power(n + 1) /\ Slept(n + 1) = Slept(n) + Delay(n)
<1>1. 2 ^ (n + 1) = 2 * 2 ^ n
  BY PowersAssumption
<1>. QED BY <1>1, AttemptsAssumption DEF Power, Delay, Slept

LEMMA InitWaitInv == RetryInit => WaitInv
<1>1. Power(0)
  BY PowersAssumption DEF Power
<1>. QED BY <1>1, AttemptsAssumption, OutagesAssumption DEF RetryInit, WaitInv, Slept

LEMMA NextWaitInv == WaitInv /\ [RetryNext]_retryVars => WaitInv'
<1>. SUFFICES ASSUME WaitInv, [RetryNext]_retryVars PROVE WaitInv'
  OBVIOUS
<1>1. CASE UNCHANGED retryVars
  BY <1>1 DEF retryVars, WaitInv, Remaining
<1>2. CASE OutageBegins
  BY <1>2, OutagesAssumption DEF OutageBegins, WaitInv, Remaining
<1>3. CASE BeginCall
  <2>1. Power(0)
    BY PowersAssumption DEF Power
  <2>2. /\ point' = "invoking" /\ attempt' = 0 /\ waited' = 0
        /\ before' = outage /\ outage' = outage
    BY <1>3 DEF BeginCall
  <2>. QED BY <2>1, <2>2, AttemptsAssumption DEF WaitInv, Remaining, Slept
<1>4. CASE Sleep
  <2>1. /\ point = "sleeping" /\ point' = "invoking"
        /\ attempt' = attempt + 1 /\ waited' = waited + Delay(attempt)
        /\ outage' = After(Delay(attempt))
        /\ before' = before /\ result' = result
    BY <1>4 DEF Sleep
  <2>2. Power(attempt + 1) /\ Slept(attempt + 1) = Slept(attempt) + Delay(attempt)
    BY NextPower, AttemptsAssumption DEF WaitInv
  <2>3. Delay(attempt) \in Nat /\ waited \in Nat
    BY SleptIsOrdered DEF Delay, Power, WaitInv
  <2>4. outage' \in 0 .. Forever /\ outage' = Remaining(waited + Delay(attempt))
    BY <2>1, <2>3, OutagesAssumption DEF After, Remaining, WaitInv
  <2>5. attempt + 1 \in 0 .. MaxAttempts - 1
    BY <2>1, AttemptsAssumption DEF WaitInv
  <2>6. outage' = Remaining(waited)'
    BY <2>1, <2>4 DEF Remaining
  <2>7. waited' = Slept(attempt') /\ Power(attempt')
    BY <2>1, <2>2 DEF WaitInv
  <2>8. before' \in 0 .. Forever /\ point' = "invoking"
    BY <2>1 DEF WaitInv
  <2>. QED BY <2>1, <2>4, <2>5, <2>6, <2>7, <2>8 DEF WaitInv
<1>5. CASE Invoke
  <2>1. PICK kind \in AnswerKinds :
           IF IsRetried(kind)
           THEN point' = "sleeping" /\ UNCHANGED result
           ELSE /\ point' = "idle"
                /\ result' = IF kind = "vector" THEN "vector" ELSE ErrorOf(kind)
    BY <1>5 DEF Invoke
  <2>2. /\ point = "invoking"
        /\ outage' = outage /\ before' = before /\ attempt' = attempt /\ waited' = waited
    BY <1>5 DEF Invoke
  <2>3. CASE IsRetried(kind)
    BY <2>1, <2>2, <2>3 DEF IsRetried, WaitInv, Remaining
  <2>4. CASE ~IsRetried(kind)
    <3>1. ASSUME result' = "EmbeddingAttemptsExhausted"
          PROVE  before > Patience
      <4>1. kind = "retryable"
        BY <2>1, <2>4, <3>1 DEF AnswerKinds, Kinds, ErrorOf
      <4>2. outage > 0
        BY <4>1 DEF AnswerKinds
      <4>3. waited = Patience
        BY <2>4, <4>1, AttemptsAssumption DEF IsRetried, WaitInv, Patience
      <4>. QED BY <2>2, <4>2, <4>3, PatienceIsBounded DEF WaitInv, Remaining
    <3>. QED BY <2>1, <2>2, <2>4, <3>1 DEF WaitInv
  <2>. QED BY <2>3, <2>4
<1>. QED BY <1>1, <1>2, <1>3, <1>4, <1>5 DEF RetryNext

\* For any number of attempts and any outages: a call of embed that gives up
\* met an outage longer than all its sleeps together, so that a shorter one is
\* never noticed; and it never keeps its caller longer than that.
THEOREM OutagesAreRiddenOut == RetrySpec => []ShortOutagesAreRiddenOut
<1>1. WaitInv => ShortOutagesAreRiddenOut
  <2>. SUFFICES ASSUME WaitInv PROVE waited <= Patience
    BY DEF WaitInv, ShortOutagesAreRiddenOut
  <2>. QED BY SleptIsOrdered, AttemptsAssumption DEF WaitInv, Patience
<1>. QED BY <1>1, InitWaitInv, NextWaitInv, PTL DEF RetrySpec
================================================================================
