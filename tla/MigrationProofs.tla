----------------------------- MODULE MigrationProofs ----------------------------
(***************************************************************************)
(* What the gates of Migration promise, for every number of processes that *)
(* run them, every shape an older table may have and every place an        *)
(* earlier application was interrupted at.                                 *)
(*                                                                         *)
(* A migration leads somewhere because its statements have a lasting       *)
(* effect: what a process got past stays, whoever runs beside it, and      *)
(* every statement needs only what the statements before it made.          *)
(***************************************************************************)
EXTENDS Migration, TLAPS

---------------------------------------------------------------------------
(* The two sequences of statements.                                        *)

Names == {"devices", "experiment_runs", "artifacts", "observations", "actions", "outcomes",
          "calibrations", "device_sessions", "memories", "agent_checkpoints", "audit_events"}

\* The tables of 001 by name.
LEMMA TableNames == Tables = Names
BY DEF Tables, References, Names

\* 001 has seventeen statements and 002 has six.
LEMMA Lengths == /\ Len(Init001) = 17 /\ Len(Vector002) = 6
                 /\ Statements["p2"] = Init001 /\ Statements["p3"] = Vector002
BY DEF Init001, Vector002, Statements

\* The statements of 001 by their places.
LEMMA StatementsOfInit001 ==
    /\ Init001[1] = Table("devices") /\ Init001[2] = Table("experiment_runs")
    /\ Init001[3] = Table("artifacts") /\ Init001[4] = Index("artifacts")
    /\ Init001[5] = Table("observations") /\ Init001[6] = Table("actions")
    /\ Init001[7] = Table("outcomes") /\ Init001[8] = Table("calibrations")
    /\ Init001[9] = Index("calibrations") /\ Init001[10] = Table("device_sessions")
    /\ Init001[11] = Index("device_sessions") /\ Init001[12] = Table("memories")
    /\ Init001[13] = Index("memories") /\ Init001[14] = Table("agent_checkpoints")
    /\ Init001[15] = Index("agent_checkpoints") /\ Init001[16] = Table("audit_events")
    /\ Init001[17] = Index("audit_events")
BY DEF Init001

\* The statements of 002 by their places.
LEMMA StatementsOfVector002 ==
    /\ Vector002[1] = SetSafeUpdates /\ Vector002[2] = Column("embedding")
    /\ Vector002[3] = Column("embedding_provider") /\ Vector002[4] = Column("embedding_model_id")
    /\ Vector002[5] = Column("embedding_dimension") /\ Vector002[6] = VectorIndex
BY DEF Vector002

\* What a table, an index needs is made before it.
Needs(s) ==
    IF s.kind = "table" THEN {Table(r) : r \in References[s.name] \ {s.name}}
    ELSE IF s.kind = "index" THEN {Table(s.name)} ELSE {}

\* Every statement of 001 creates a table or an index of one of the eleven
\* tables, and what it needs comes before it.
LEMMA NeedsComeFirst ==
    \A i \in 1 .. 17 :
        /\ Init001[i].kind \in {"table", "index"}
        /\ Init001[i].name \in Tables
        /\ Init001[i].kind = "index" => Init001[i].name \in IndexedTables
        /\ \A s \in Needs(Init001[i]) : \E j \in 1 .. i - 1 : Init001[j] = s
<1> TAKE i \in 1 .. 17
<1> USE DEF Table, Index, Needs, References, Names, IndexedTables
<1>1. i = 1 \/ i = 2 \/ i = 3 \/ i = 4 \/ i = 5 \/ i = 6 \/ i = 7 \/ i = 8 \/ i = 9 \/ i = 10
      \/ i = 11 \/ i = 12 \/ i = 13 \/ i = 14 \/ i = 15 \/ i = 16 \/ i = 17
  OBVIOUS
<1>a. CASE i \in {1, 2, 3, 4} BY <1>a, StatementsOfInit001, TableNames
<1>b. CASE i \in {5, 6} BY <1>b, StatementsOfInit001, TableNames
<1>c. CASE i \in {7, 8, 9} BY <1>c, StatementsOfInit001, TableNames
<1>d. CASE i \in {10, 11} BY <1>d, StatementsOfInit001, TableNames
<1>e. CASE i \in {12, 13} BY <1>e, StatementsOfInit001, TableNames
<1>f. CASE i \in {14, 15} BY <1>f, StatementsOfInit001, TableNames
<1>g. CASE i \in {16, 17} BY <1>g, StatementsOfInit001, TableNames
<1> QED BY <1>1, <1>a, <1>b, <1>c, <1>d, <1>e, <1>f, <1>g

---------------------------------------------------------------------------
(* The invariant.                                                          *)

Gates == {"p2", "p3"}

TypeOK ==
    /\ tables \in [Tables -> Drift \cup {"absent", "current"}]
    /\ indexes \subseteq IndexedTables \cup {"vector"}
    /\ columns \subseteq VectorColumns
    /\ gate \in [Appliers -> Gates \cup {None}]
    /\ round \in [Appliers -> {0, 1, 2}]
    /\ next \in [Appliers -> Nat]
    /\ safe \in [Appliers -> BOOLEAN]

\* What a statement is to create exists by its name.
Done(s) ==
    /\ s.kind = "table" => Exists(s.name)
    /\ s.kind = "index" => s.name \in indexes
    /\ s.kind = "column" => s.name \in columns
    /\ s.kind = "vector_index" => "vector" \in indexes

Complete(g) == \A i \in 1 .. Len(Statements[g]) : Done(Statements[g][i])

\* A process is somewhere in its migration, and everything before that place,
\* or in the second round everything, has been done.
Going(p) ==
    gate[p] # None =>
        /\ next[p] \in 1 .. Len(Statements[gate[p]]) + 1
        /\ \A i \in 1 .. next[p] - 1 : Done(Statements[gate[p]][i])
        /\ round[p] \in {1, 2}
        /\ round[p] = 2 => Complete(gate[p])
        /\ gate[p] = "p3" /\ next[p] > 1 => ~safe[p]

\* A gate that passed found what it verifies, and it is still there.
StillPasses ==
    /\ passed # {} => P2Verified
    /\ "p3" \in passed => P3Verified /\ columns = VectorColumns

Inv == TypeOK /\ (\A p \in Appliers : Going(p)) /\ StillPasses

\* No step takes back what a statement created or gives a table another shape.
Kept ==
    /\ \A t \in Tables : Exists(t) => tables'[t] = tables[t]
    /\ indexes \subseteq indexes'
    /\ columns \subseteq columns'
    /\ "embedding" \in columns => vector' = vector

Kinds == {"table", "index", "column", "vector_index", "set"}

\* What can be a statement of a migration.
IsStatement(s) ==
    /\ s.kind \in Kinds
    /\ s.kind = "table" => s.name \in Tables
    /\ s.kind = "index" => s.name \in IndexedTables
    /\ s.kind = "column" => s.name \in VectorColumns

\* Every statement of the two migrations is one.
LEMMA StatementsAreStatements ==
    ASSUME NEW g \in Gates, NEW i \in 1 .. Len(Statements[g])
    PROVE  IsStatement(Statements[g][i])
<1>1. CASE g = "p2"
  BY <1>1, Lengths, NeedsComeFirst DEF IsStatement, Kinds
<1>2. CASE g = "p3"
  <2>1. i \in 1 .. 6 /\ Statements[g][i] = Vector002[i]
    BY <1>2, Lengths
  <2>2. i = 1 \/ i = 2 \/ i = 3 \/ i = 4 \/ i = 5 \/ i = 6
    BY <2>1
  <2> QED
    BY <2>1, <2>2, StatementsOfVector002
       DEF IsStatement, Kinds, SetSafeUpdates, Column, VectorIndex, VectorColumns
<1> QED BY <1>1, <1>2 DEF Gates

\* What was done stays done.
LEMMA DoneStays ==
    ASSUME NEW s, IsStatement(s), Done(s), Kept
    PROVE  Done(s)'
BY DEF IsStatement, Done, Kept, Exists

\* A process that does not move stays where its migration is.
LEMMA GoingStays ==
    ASSUME NEW p \in Appliers, Inv, Going(p), Kept,
           gate'[p] = gate[p], round'[p] = round[p], next'[p] = next[p],
           gate[p] = "p3" /\ next[p] > 1 => safe'[p] = safe[p]
    PROVE  Going(p)'
<1> SUFFICES ASSUME gate[p] # None PROVE Going(p)'
  BY DEF Going
<1> PICK g : g = gate[p]
  OBVIOUS
<1>1. g \in Gates /\ next[p] \in 1 .. Len(Statements[g]) + 1
  BY DEF Inv, TypeOK, Going
<1>2. \A i \in 1 .. next[p] - 1 : i \in 1 .. Len(Statements[g])
  BY <1>1, Lengths DEF Gates
<1>3. \A i \in 1 .. next[p] - 1 : Done(Statements[g][i])'
  BY <1>1, <1>2, StatementsAreStatements, DoneStays DEF Going
<1>4. ASSUME round[p] = 2, NEW i \in 1 .. Len(Statements[g]) PROVE Done(Statements[g][i])'
  <2>1. Done(Statements[g][i])
    BY <1>4 DEF Going, Complete
  <2> QED BY <1>1, <2>1, StatementsAreStatements, DoneStays
<1>5. g = gate'[p]
  OBVIOUS
<1> QED
  BY <1>1, <1>3, <1>4, <1>5 DEF Going, Complete

\* What has passed would pass again.
LEMMA StillPassesStays ==
    ASSUME Inv, Kept, columns' \subseteq VectorColumns, passed' = passed
    PROVE  StillPasses'
<1>1. passed # {} => P2Verified'
  BY DEF Inv, StillPasses, Kept, P2Verified, Exists
<1>2. "p3" \in passed => P3Verified' /\ columns' = VectorColumns
  BY DEF Inv, StillPasses, Kept, P3Verified, VectorColumns
<1> QED BY <1>1, <1>2 DEF StillPasses
---------------------------------------------------------------------------
(* A statement.                                                            *)

\* A statement that succeeds keeps everything and does what it is to do.
LEMMA EffectIsKept ==
    ASSUME NEW p \in Appliers, NEW s, TypeOK, IsStatement(s), Accepted(p, s), Effect(p, s),
           UNCHANGED <<rows, passed, gate>>
    PROVE  /\ Kept /\ Done(s)'
           /\ tables' \in [Tables -> Drift \cup {"absent", "current"}]
           /\ indexes' \subseteq IndexedTables \cup {"vector"}
           /\ columns' \subseteq VectorColumns
           /\ safe' \in [Appliers -> BOOLEAN]
           /\ \A q \in Appliers : safe[q] = FALSE => safe'[q] = FALSE
           /\ \A q \in Appliers \ {p} : safe'[q] = safe[q]
           /\ s.kind = "set" => safe'[p] = FALSE
<1> USE DEF TypeOK, IsStatement, Kept, Done, Exists
<1>1. CASE s.kind = "set" BY <1>1 DEF Effect
<1>2. CASE s.kind = "table"
  <2>1. UNCHANGED <<indexes, columns, vector, safe>>
    BY <1>2 DEF Effect
  <2>2. tables' = IF tables[s.name] # "absent" THEN tables ELSE [tables EXCEPT ![s.name] = "current"]
    BY <1>2 DEF Effect
  <2> QED BY <1>2, <2>1, <2>2
<1>3. CASE s.kind = "index" BY <1>3 DEF Effect
<1>4. CASE s.kind = "column" BY <1>4 DEF Effect, Added
<1>5. CASE s.kind = "vector_index" BY <1>5 DEF Effect
<1> QED BY <1>1, <1>2, <1>3, <1>4, <1>5 DEF Kinds

\* The statement a process is at is accepted, unless it applies 002 to a
\* database without the table memories or names what a table lacks.
LEMMA StatementIsAccepted ==
    ASSUME Inv, NEW p \in Appliers, Applying(p)
    PROVE  \/ Accepted(p, NextStatement(p))
           \/ gate[p] = "p3" /\ ~Exists("memories")
           \/ \E t \in Tables : Obstructs(t, tables[t], NextStatement(p))
<1>1. /\ gate[p] \in Gates
      /\ next[p] \in 1 .. Len(Statements[gate[p]])
      /\ \A i \in 1 .. next[p] - 1 : Done(Statements[gate[p]][i])
      /\ gate[p] = "p3" /\ next[p] > 1 => ~safe[p]
  BY Lengths DEF Inv, TypeOK, Going, Applying, Gates
<1>2. CASE gate[p] = "p2"
  <2>0. /\ next[p] \in 1 .. 17
        /\ \A i \in 1 .. next[p] - 1 : Done(Init001[i])
    BY <1>1, <1>2, Lengths
  <2>1. PICK s : s = Init001[next[p]] /\ s = NextStatement(p)
    BY <1>2, Lengths DEF NextStatement
  <2>2. /\ s.kind \in {"table", "index"} /\ s.name \in Tables
        /\ \A x \in Needs(s) : \E j \in 1 .. next[p] - 1 : Init001[j] = x
    BY <2>0, <2>1, NeedsComeFirst
  <2>3. \A r : Table(r) \in Needs(s) => Exists(r)
    BY <2>0, <2>2 DEF Done, Table
  <2>r. s.kind = "table" => References[s.name] \ {s.name} \subseteq Tables
    BY <2>2, TableNames DEF References, Names
  <2>4. CASE s.kind = "table"
    <3>1. \A r \in References[s.name] \ {s.name} : r \in Tables /\ Exists(r)
      BY <2>3, <2>4, <2>r DEF Needs, Table
    <3>2. CASE \A r \in References[s.name] \ {s.name} : ~Obstructs(r, tables[r], s)
      BY <2>1, <2>4, <3>1, <3>2 DEF Accepted, Offers
    <3> QED BY <2>1, <3>1, <3>2
  <2>5. CASE s.kind = "index"
    <3>1. Exists(s.name) /\ s.name \in Tables
      BY <2>2, <2>3, <2>5 DEF Needs, Table
    <3>2. CASE ~Obstructs(s.name, tables[s.name], s)
      BY <2>1, <2>5, <3>1, <3>2 DEF Accepted, Offers
    <3> QED BY <2>1, <3>1, <3>2
  <2> QED BY <2>2, <2>4, <2>5
<1>3. CASE gate[p] = "p3" /\ Exists("memories")
  <2>1. PICK n : n = next[p]
    OBVIOUS
  <2>0. n \in 1 .. 6 /\ \A i \in 1 .. n - 1 : Done(Vector002[i])
    BY <1>1, <1>3, <2>1, Lengths
  <2>2. n = 1 \/ n = 2 \/ n = 3 \/ n = 4 \/ n = 5 \/ n = 6
    BY <2>0
  <2>3. NextStatement(p) = Vector002[n]
    BY <1>3, <2>1, Lengths DEF NextStatement
  <2>4. CASE n = 6
    <3>1. Done(Vector002[2]) /\ ~safe[p]
      BY <1>1, <1>3, <2>0, <2>1, <2>4
    <3>2. "embedding" \in columns
      BY <3>1, StatementsOfVector002 DEF Done, Column
    <3> QED
      BY <1>3, <2>3, <2>4, <3>1, <3>2, StatementsOfVector002 DEF Accepted, VectorIndex
  <2>5. CASE n # 6
    <3>1. PICK s : s = NextStatement(p)
      OBVIOUS
    <3>2. s.kind = "set" \/ s.kind = "column"
      BY <2>2, <2>3, <2>5, <3>1, StatementsOfVector002 DEF SetSafeUpdates, Column
    <3>3. CASE s.kind = "set" BY <3>1, <3>3 DEF Accepted
    <3>4. CASE s.kind = "column" BY <1>3, <3>1, <3>4 DEF Accepted
    <3> QED BY <3>2, <3>3, <3>4
  <2> QED BY <2>4, <2>5
<1> QED BY <1>1, <1>2, <1>3 DEF Gates

---------------------------------------------------------------------------
(* The invariant is one.                                                   *)

\* A statement that is accepted takes a process one place further.
LEMMA ExecuteKeeps ==
    ASSUME Inv, NEW p \in Appliers, Execute(p), Accepted(p, NextStatement(p))
    PROVE  Inv'
<1> PICK s : s = NextStatement(p)
  OBVIOUS
<1> PICK g : g = gate[p]
  OBVIOUS
<1> PICK n : n = next[p]
  OBVIOUS
<1>1. /\ Applying(p) /\ Effect(p, s)
      /\ next' = [next EXCEPT ![p] = n + 1]
      /\ UNCHANGED <<gate, round, rows, passed>>
  BY DEF Execute
<1>2. /\ g \in Gates /\ n \in 1 .. Len(Statements[g]) /\ n \in Nat /\ n >= 1
      /\ s = Statements[g][n]
  BY <1>1, Lengths DEF Inv, TypeOK, Going, Applying, Gates, NextStatement
<1>3. IsStatement(s)
  BY <1>2, StatementsAreStatements
<1>4. /\ Kept /\ Done(s)'
      /\ tables' \in [Tables -> Drift \cup {"absent", "current"}]
      /\ indexes' \subseteq IndexedTables \cup {"vector"}
      /\ columns' \subseteq VectorColumns
      /\ safe' \in [Appliers -> BOOLEAN]
      /\ \A q \in Appliers : safe[q] = FALSE => safe'[q] = FALSE
      /\ \A q \in Appliers \ {p} : safe'[q] = safe[q]
      /\ s.kind = "set" => safe'[p] = FALSE
  BY <1>1, <1>3, EffectIsKept DEF Inv
<1>5. TypeOK'
  <2>1. next' \in [Appliers -> Nat]
    BY <1>1, <1>2 DEF Inv, TypeOK
  <2>2. gate' \in [Appliers -> Gates \cup {None}] /\ round' \in [Appliers -> {0, 1, 2}]
    BY <1>1 DEF Inv, TypeOK
  <2> QED BY <1>4, <2>1, <2>2 DEF TypeOK
<1>6. ASSUME NEW q \in Appliers PROVE Going(q)'
  <2>1. CASE q # p
    <3>1. gate'[q] = gate[q] /\ round'[q] = round[q] /\ next'[q] = next[q] /\ safe'[q] = safe[q]
      BY <1>1, <1>4, <2>1 DEF Inv, TypeOK
    <3> QED BY <1>4, <3>1, GoingStays DEF Inv
  <2>2. CASE q = p
    <3>1. gate'[p] = g /\ round'[p] = round[p] /\ next'[p] = n + 1
      BY <1>1, <1>2 DEF Inv, TypeOK
    <3>2. ASSUME NEW i \in 1 .. n PROVE Done(Statements[g][i])'
      <4>1. CASE i = n BY <1>2, <1>4, <4>1
      <4>2. CASE i < n
        <5>1. i \in 1 .. n - 1 /\ i \in 1 .. Len(Statements[g])
          BY <1>2, <4>2, Lengths DEF Gates
        <5>2. Done(Statements[g][i])
          BY <1>2, <5>1, NoneAssumption DEF Inv, Going, Gates
        <5> QED BY <1>2, <1>4, <5>1, <5>2, StatementsAreStatements, DoneStays
      <4> QED BY <1>2, <4>1, <4>2
    <3>3. ASSUME round[p] = 2, NEW i \in 1 .. Len(Statements[g]) PROVE Done(Statements[g][i])'
      <4>1. Done(Statements[g][i])
        BY <1>2, <3>3, NoneAssumption DEF Inv, Going, Complete, Gates
      <4> QED BY <1>2, <1>4, <4>1, StatementsAreStatements, DoneStays
    <3>4. g = "p3" => safe'[p] = FALSE
      <4>1. CASE g = "p3" /\ n = 1
        <5>1. s = SetSafeUpdates
          BY <1>2, <4>1, Lengths, StatementsOfVector002
        <5> QED BY <1>4, <5>1 DEF SetSafeUpdates
      <4>2. CASE g = "p3" /\ n > 1
        <5>1. safe[p] = FALSE
          BY <4>2, NoneAssumption DEF Inv, TypeOK, Going
        <5> QED BY <1>4, <5>1
      <4>3. n = 1 \/ n > 1 BY <1>2
      <4> QED BY <4>1, <4>2, <4>3
    <3>5. n + 1 \in 1 .. Len(Statements[g]) + 1 /\ round[p] \in {1, 2}
      BY <1>2, Lengths, NoneAssumption DEF Inv, Going, Gates
    <3>6. \A i \in 1 .. next'[p] - 1 : Done(Statements[g][i])'
      BY <1>2, <3>1, <3>2
    <3> QED
      BY <2>2, <3>1, <3>3, <3>4, <3>5, <3>6 DEF Going, Complete
  <2> QED BY <2>1, <2>2
<1>7. StillPasses'
  BY <1>1, <1>4, StillPassesStays
<1> QED BY <1>5, <1>6, <1>7 DEF Inv

\* The initial state satisfies the invariant.
LEMMA InitInv == Init => Inv
<1> SUFFICES ASSUME Init PROVE Inv
  OBVIOUS
<1>1. tables \in [Tables -> Drift \cup {"absent", "current"}]
      /\ indexes \subseteq IndexedTables
  BY DEF Init
<1>2. columns \subseteq VectorColumns
  BY DEF Init, VectorColumns
<1>3. TypeOK
  BY <1>1, <1>2 DEF Init, TypeOK
<1>4. \A p \in Appliers : Going(p)
  BY DEF Init, Going
<1>5. StillPasses
  BY DEF Init, StillPasses
<1> QED BY <1>3, <1>4, <1>5 DEF Inv

\* The other steps of a process keep the tables, and begin, repeat or end.
LEMMA MovingKeeps ==
    ASSUME Inv, NEW p \in Appliers,
           UNCHANGED <<tables, indexes, columns, vector, rows>>,
           NEW g \in Gates \cup {None}, NEW k \in {0, 1, 2},
           gate' = [gate EXCEPT ![p] = g], round' = [round EXCEPT ![p] = k],
           next' = [next EXCEPT ![p] = 1],
           safe' \in [Appliers -> BOOLEAN], \A q \in Appliers \ {p} : safe'[q] = safe[q],
           g # None => k \in {1, 2} /\ (k = 2 => Complete(g))
    PROVE  TypeOK' /\ \A q \in Appliers : Going(q)'
<1>1. TypeOK'
  BY DEF Inv, TypeOK
<1>2. Kept
  BY DEF Kept
<1>3. ASSUME NEW q \in Appliers PROVE Going(q)'
  <2>1. CASE q # p
    <3>1. gate'[q] = gate[q] /\ round'[q] = round[q] /\ next'[q] = next[q] /\ safe'[q] = safe[q]
      BY <2>1 DEF Inv, TypeOK
    <3> QED BY <1>2, <3>1, GoingStays DEF Inv
  <2>2. CASE q = p
    <3>1. gate'[q] = g /\ round'[q] = k /\ next'[q] = 1
      BY <2>2 DEF Inv, TypeOK
    <3>2. g # None => 1 \in 1 .. Len(Statements[g]) + 1
      BY Lengths DEF Gates
    <3>3. ASSUME g # None, k = 2, NEW i \in 1 .. Len(Statements[g])
          PROVE Done(Statements[g][i])'
      <4>1. g \in Gates /\ Done(Statements[g][i])
        BY <3>3 DEF Complete
      <4> QED BY <1>2, <4>1, StatementsAreStatements, DoneStays
    <3> QED BY <3>1, <3>2, <3>3 DEF Going, Complete
  <2> QED BY <2>1, <2>2
<1> QED BY <1>1, <1>3

\* A process that is through with its statements has done them all.
LEMMA EndIsComplete ==
    ASSUME Inv, NEW p \in Appliers, gate[p] # None, ~Applying(p)
    PROVE  gate[p] \in Gates /\ Complete(gate[p]) /\ next[p] = Len(Statements[gate[p]]) + 1
<1> PICK g : g = gate[p]
  OBVIOUS
<1>1. g \in Gates /\ next[p] \in 1 .. Len(Statements[g]) + 1 /\ ~(next[p] <= Len(Statements[g]))
  BY DEF Inv, TypeOK, Going, Applying
<1>2. next[p] = Len(Statements[g]) + 1
  BY <1>1, Lengths DEF Gates
<1>3. \A i \in 1 .. Len(Statements[g]) : Done(Statements[g][i])
  BY <1>1, <1>2, Lengths DEF Inv, Going, Gates
<1> QED BY <1>1, <1>2, <1>3 DEF Complete

\* Everything 002 is to create exists.
LEMMA CompleteVector ==
    ASSUME Inv, Complete("p3")
    PROVE  columns = VectorColumns /\ "vector" \in indexes
<1>1. \A i \in 1 .. 6 : Done(Vector002[i])
  BY Lengths DEF Complete
<1>2. Done(Column("embedding")) /\ Done(Column("embedding_provider"))
      /\ Done(Column("embedding_model_id")) /\ Done(Column("embedding_dimension"))
      /\ Done(VectorIndex)
  <2>1. 2 \in 1 .. 6 /\ 3 \in 1 .. 6 /\ 4 \in 1 .. 6 /\ 5 \in 1 .. 6 /\ 6 \in 1 .. 6
    OBVIOUS
  <2> QED BY <1>1, <2>1, StatementsOfVector002
<1>3. VectorColumns \subseteq columns /\ "vector" \in indexes
  BY <1>2 DEF Done, Column, VectorIndex, VectorColumns
<1> QED BY <1>3 DEF Inv, TypeOK

\* Everything 001 is to create exists.
LEMMA CompleteInit ==
    ASSUME Inv, Complete("p2")
    PROVE  (\A t \in Tables : Exists(t)) /\ IndexedTables \subseteq indexes
<1>1. \A i \in 1 .. 17 : Done(Init001[i])
  BY Lengths DEF Complete
<1>2. \A t \in Names : \E i \in 1 .. 17 : Init001[i] = Table(t)
  BY StatementsOfInit001 DEF Names
<1>3. \A t \in IndexedTables : \E i \in 1 .. 17 : Init001[i] = Index(t)
  BY StatementsOfInit001 DEF IndexedTables
<1>4. \A t \in Names : Done(Table(t))
  BY <1>1, <1>2
<1>5. \A t \in IndexedTables : Done(Index(t))
  BY <1>1, <1>3
<1>6. \A t \in Names : Exists(t)
  BY <1>4 DEF Done, Table
<1>7. \A t \in IndexedTables : t \in indexes
  BY <1>5 DEF Done, Index
<1> QED BY <1>6, <1>7, TableNames

\* Every step keeps the invariant.
LEMMA NextInv == Inv /\ [Next]_vars => Inv'
<1> SUFFICES ASSUME Inv, [Next]_vars PROVE Inv'
  OBVIOUS
<1>1. ASSUME UNCHANGED vars PROVE Inv'
  BY <1>1 DEF vars, Inv, TypeOK, Going, StillPasses, Done, Complete, Exists, P2Verified, P3Verified
<1>2. ASSUME StoreMemories PROVE Inv'
  BY <1>2 DEF StoreMemories, Inv, TypeOK, Going, StillPasses, Done, Complete, Exists, P2Verified,
              P3Verified
<1> SUFFICES ASSUME NEW p \in Appliers, Start(p) \/ Run(p) \/ Stop(p) PROVE Inv'
  BY <1>1, <1>2 DEF Next
<1>s. ASSUME UNCHANGED <<tables, indexes, columns, vector, passed>> PROVE StillPasses'
  BY <1>s DEF Inv, StillPasses, P2Verified, P3Verified
<1>3. CASE Start(p)
  <2>1. PICK g \in Gates : gate' = [gate EXCEPT ![p] = g]
    BY <1>3 DEF Start, Gates
  <2>2. TypeOK' /\ \A q \in Appliers : Going(q)'
    <3>1. /\ UNCHANGED <<tables, indexes, columns, vector, rows>>
          /\ round' = [round EXCEPT ![p] = 1] /\ next' = [next EXCEPT ![p] = 1]
          /\ safe' \in [Appliers -> BOOLEAN] /\ \A q \in Appliers \ {p} : safe'[q] = safe[q]
      BY <1>3 DEF Start, Inv, TypeOK
    <3>2. g \in Gates \cup {None} /\ 1 \in {0, 1, 2} /\ 1 \in {1, 2} /\ 1 # 2
      OBVIOUS
    <3> QED BY <2>1, <3>1, <3>2, MovingKeeps
  <2> QED BY <1>3, <1>s, <2>2 DEF Start, Inv
<1>4. CASE Execute(p) /\ Accepted(p, NextStatement(p))
  BY <1>4, ExecuteKeeps
<1>e. ASSUME End(p), UNCHANGED <<tables, indexes, columns, vector, rows, safe>>
      PROVE  TypeOK' /\ \A q \in Appliers : Going(q)'
  <2>1. /\ gate' = [gate EXCEPT ![p] = None] /\ round' = [round EXCEPT ![p] = 0]
        /\ next' = [next EXCEPT ![p] = 1]
    BY <1>e DEF End
  <2>2. safe' \in [Appliers -> BOOLEAN] /\ \A q \in Appliers \ {p} : safe'[q] = safe[q]
    BY <1>e DEF Inv, TypeOK
  <2> QED BY <1>e, <2>1, <2>2, MovingKeeps
<1>5. CASE Execute(p) /\ ~Accepted(p, NextStatement(p))
  <2>1. End(p) /\ UNCHANGED <<tables, indexes, columns, vector, safe, rows, passed>>
    BY <1>5 DEF Execute
  <2> QED BY <1>e, <1>s, <2>1 DEF Inv
<1>6. CASE ApplyAgain(p)
  <2>1. gate[p] \in Gates /\ Complete(gate[p])
    BY <1>6, EndIsComplete DEF ApplyAgain
  <2>2. /\ gate' = [gate EXCEPT ![p] = gate[p]] /\ round' = [round EXCEPT ![p] = 2]
        /\ next' = [next EXCEPT ![p] = 1]
        /\ safe' \in [Appliers -> BOOLEAN] /\ \A q \in Appliers \ {p} : safe'[q] = safe[q]
        /\ UNCHANGED <<tables, indexes, columns, vector, rows, passed>>
    BY <1>6 DEF ApplyAgain, Inv, TypeOK
  <2>3. TypeOK' /\ \A q \in Appliers : Going(q)'
    BY <2>1, <2>2, MovingKeeps
  <2> QED BY <1>s, <2>2, <2>3 DEF Inv
<1>7. CASE Verify(p)
  <2>1. /\ End(p) /\ UNCHANGED <<tables, indexes, columns, vector, rows, safe>>
        /\ gate[p] # None /\ ~Applying(p)
    BY <1>7 DEF Verify, Verifying
  <2>2. gate[p] \in Gates /\ Complete(gate[p])
    BY <2>1, EndIsComplete
  <2>3. gate[p] = "p3" => columns = VectorColumns
    BY <2>2, CompleteVector
  <2>4. passed' = passed \/ (P2Verified /\ (gate[p] = "p3" => P3Verified)
                             /\ passed' = passed \cup {gate[p]})
    BY <1>7 DEF Verify
  <2>5. StillPasses'
    BY <2>1, <2>3, <2>4 DEF Inv, StillPasses, P2Verified, P3Verified
  <2> QED BY <1>e, <2>1, <2>5 DEF Inv
<1>8. CASE Stop(p)
  BY <1>8, <1>e, <1>s DEF Stop, Inv
<1> QED BY <1>3, <1>4, <1>5, <1>6, <1>7, <1>8 DEF Run

\* The invariant holds in every state that can be reached.
LEMMA Invariant == Spec => []Inv
BY InitInv, NextInv, PTL DEF Spec

---------------------------------------------------------------------------
(* The theorems.                                                           *)

\* Whatever an interrupted application left, with rows or without, and whoever
\* applies which migration beside: apply_migration is refused no statement but
\* one that names what an older table lacks (002 before 001 aside), and a
\* process that got through has the whole schema, by name.
THEOREM MigrationsConverge == Spec => []ApplicationConverges
<1>1. Inv => NothingIsRefused
  BY StatementIsAccepted DEF NothingIsRefused
<1>2. ASSUME Inv, NEW p \in Appliers, gate[p] # None, round[p] = 2 \/ ~Applying(p)
      PROVE  IF gate[p] = "p2" THEN (\A t \in Tables : Exists(t)) /\ IndexedTables \subseteq indexes
             ELSE columns = VectorColumns /\ "vector" \in indexes
  <2>1. gate[p] \in Gates /\ Complete(gate[p])
    BY <1>2, EndIsComplete DEF Inv, TypeOK, Going
  <2> QED BY <1>2, <2>1, CompleteInit, CompleteVector DEF Gates
<1>3. Inv => ApplicationIsComplete
  BY <1>2 DEF ApplicationIsComplete
<1> QED BY Invariant, <1>1, <1>3, PTL DEF ApplicationConverges

\* A gate that passed saw every table with its baseline, and P3 the embedding
\* column with its dimension, and no application that runs later, of whichever
\* migration, takes that back.
THEOREM PassesStay == Spec => []PassMeansBaseline
<1>1. Inv => PassMeansBaseline
  BY DEF Inv, StillPasses, P2Verified, P3Verified, PassMeansBaseline
<1> QED BY Invariant, <1>1, PTL
=============================================================================
