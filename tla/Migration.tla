-------------------------------- MODULE Migration -------------------------------
(***************************************************************************)
(* db/migrations.py and memory/schema.py: the P2 and the P3 gate each      *)
(* apply their migration twice and then verify the schema, at the same     *)
(* time as others and as often as they are started, on a database that is  *)
(* empty, half migrated, or has a table or column of another shape.        *)
(*                                                                         *)
(* apply_migration runs each statement in a transaction of its own, so a   *)
(* statement is a step.  Of a table's definition is kept what it refers to *)
(* and its shape: "current", or lacking                                    *)
(*   a column or constraint that verification looks for and no later       *)
(*   statement needs ("lacks_column", "lacks_constraint"),                 *)
(*   a constraint nobody looks for ("lacks_unlisted_constraint"),          *)
(*   its primary key id of type UUID ("lacks_key"), which foreign keys     *)
(*   name, or a column its index names ("lacks_indexed_column").           *)
(***************************************************************************)
EXTENDS Naturals, Sequences, FiniteSets

CONSTANTS
    Appliers,       \* processes that run a gate
    Drift,          \* shapes an older table may have, other than "current"
    OddTables,      \* the tables that may have one
    Interruptions,  \* after how many statements an earlier application may have ended
    None

ASSUME DriftAssumption == "absent" \notin Drift

ASSUME NoneAssumption == None \notin {"p2", "p3"}

VARIABLES
    tables,         \* the shape of each table, or "absent"
    indexes,        \* which indexes exist, the vector index among them
    columns,        \* which columns of 002 memories has
    vector,         \* the type of its embedding column
    rows,           \* memories has rows
    gate,           \* the gate a process is running, or None
    round,          \* how often it has applied the migration
    next,           \* its next statement
    safe,           \* sql_safe_updates in the session of its connection
    passed          \* the gates whose schema verification has ever passed

vars == <<tables, indexes, columns, vector, rows, gate, round, next, safe, passed>>

---------------------------------------------------------------------------
(* The migrations.                                                         *)

References ==
    [devices           |-> {},
     experiment_runs   |-> {},
     artifacts         |-> {"experiment_runs"},
     observations      |-> {"experiment_runs", "devices", "artifacts"},
     actions           |-> {"experiment_runs", "devices"},
     outcomes          |-> {"actions"},
     calibrations      |-> {"devices", "calibrations"},
     device_sessions   |-> {"devices", "experiment_runs", "actions"},
     memories          |-> {"experiment_runs", "devices", "memories", "observations",
                            "actions", "outcomes"},
     agent_checkpoints |-> {"experiment_runs", "actions"},
     audit_events      |-> {"experiment_runs"}]

Tables == DOMAIN References

Table(t) == [kind |-> "table", name |-> t]
Index(t) == [kind |-> "index", name |-> t]
Column(c) == [kind |-> "column", name |-> c]
SetSafeUpdates == [kind |-> "set", name |-> "sql_safe_updates"]
VectorIndex == [kind |-> "vector_index", name |-> "memories"]

FaultyInit001 ==
    <<Table("devices"), Table("experiment_runs"), Table("artifacts"), Index("artifacts"),
      Table("observations"), Table("calibrations"), Index("calibrations"),
      Table("device_sessions"), Index("device_sessions"), Table("actions"), Table("outcomes"),
      Table("memories"), Index("memories"), Table("agent_checkpoints"),
      Index("agent_checkpoints"), Table("audit_events"), Index("audit_events")>>

\* device_sessions has two indexes, which are one here.
Init001 ==
    <<Table("devices"), Table("experiment_runs"), Table("artifacts"), Index("artifacts"),
      Table("observations"), Table("actions"), Table("outcomes"), Table("calibrations"),
      Index("calibrations"), Table("device_sessions"), Index("device_sessions"),
      Table("memories"), Index("memories"), Table("agent_checkpoints"),
      Index("agent_checkpoints"), Table("audit_events"), Index("audit_events")>>

ASSUME InterruptionsAssumption == Interruptions \subseteq 0 .. Len(Init001)

Vector002 ==
    <<SetSafeUpdates, Column("embedding"), Column("embedding_provider"),
      Column("embedding_model_id"), Column("embedding_dimension"), VectorIndex>>

Statements == [p2 |-> Init001, p3 |-> Vector002]

IndexedTables == {"artifacts", "calibrations", "device_sessions", "memories",
                  "agent_checkpoints", "audit_events"}

VectorColumns == {"embedding", "embedding_provider", "embedding_model_id", "embedding_dimension"}

Exists(t) == tables[t] # "absent"

\* The table lacks what the statement names in it: a foreign key the id of the
\* table it refers to, an index a column of its own.
Obstructs(t, shape, s) ==
    \/ s.kind = "table" /\ t \in References[s.name] \ {s.name} /\ shape = "lacks_key"
    \/ s.kind = "index" /\ t = s.name /\ shape = "lacks_indexed_column"

Offers(t, s) == Exists(t) /\ ~Obstructs(t, tables[t], s)

\* Whether a statement succeeds: IF NOT EXISTS skips what is there by name,
\* whatever its shape, and the rest needs what it refers to.  A vector index on
\* a table with rows needs the session setting (002_vector_memory.sql:2).
Accepted(p, s) ==
    CASE s.kind = "set"    -> TRUE
      [] s.kind = "table"  ->
            Exists(s.name) \/ \A r \in References[s.name] \ {s.name} : Offers(r, s)
      [] s.kind = "index"  -> s.name \in indexes \/ Offers(s.name, s)
      [] s.kind = "column" -> Exists("memories")
      [] s.kind = "vector_index" ->
            \/ "vector" \in indexes
            \/ Exists("memories") /\ "embedding" \in columns /\ (rows => ~safe[p])

---------------------------------------------------------------------------
(* Where a gate begins.                                                    *)

\* A database some application of 001 was interrupted on, or none, with at
\* most one table that was there before, in another shape, which refused none
\* of the statements; an embedding column may have been added with another
\* dimension.
Init ==
    /\ \E n \in Interruptions, odd \in OddTables, shape \in Drift \cup {"current"} :
          LET done == {Init001[i] : i \in 1 .. n}
          IN /\ shape = "lacks_indexed_column" => odd \in IndexedTables
             /\ \A s \in done : ~Obstructs(odd, shape, s)
             /\ tables = [t \in Tables |-> IF t = odd /\ shape # "current" THEN shape
                                           ELSE IF Table(t) \in done THEN "current" ELSE "absent"]
             /\ indexes = {t \in IndexedTables : Index(t) \in done}
    /\ columns \in (IF Exists("memories") THEN {{}, {"embedding"}} ELSE {{}})
    /\ vector \in (IF columns = {} THEN {None} ELSE {"vector(512)", "vector(1024)"})
    /\ rows \in (IF Exists("memories") THEN BOOLEAN ELSE {FALSE})
    /\ gate = [p \in Appliers |-> None]
    /\ round = [p \in Appliers |-> 0]
    /\ next = [p \in Appliers |-> 1]
    /\ safe = [p \in Appliers |-> TRUE]
    /\ passed = {}

---------------------------------------------------------------------------
(* The gates.                                                              *)

Start(p) ==
    /\ gate[p] = None
    /\ \E g \in {"p2", "p3"} : gate' = [gate EXCEPT ![p] = g]
    /\ round' = [round EXCEPT ![p] = 1]
    /\ next' = [next EXCEPT ![p] = 1]
    /\ safe' = [safe EXCEPT ![p] = TRUE]
    /\ UNCHANGED <<tables, indexes, columns, vector, rows, passed>>

\* save_hero_seed of another process, or of this one before its migration.
StoreMemories ==
    /\ Exists("memories") /\ ~rows
    /\ rows' = TRUE
    /\ UNCHANGED <<tables, indexes, columns, vector, gate, round, next, safe, passed>>

\* ADD COLUMN IF NOT EXISTS.
Added(c) ==
    /\ columns' = columns \cup {c}
    /\ vector' = IF c = "embedding" /\ c \notin columns THEN "vector(512)" ELSE vector

\* What a statement that succeeds leaves behind.
Effect(p, s) ==
    /\ CASE s.kind = "set" ->
              safe' = [safe EXCEPT ![p] = FALSE] /\ UNCHANGED <<tables, indexes, columns, vector>>
         [] s.kind = "table" ->
              /\ tables' = IF Exists(s.name) THEN tables ELSE [tables EXCEPT ![s.name] = "current"]
              /\ UNCHANGED <<indexes, columns, vector, safe>>
         [] s.kind = "index" ->
              indexes' = indexes \cup {s.name} /\ UNCHANGED <<tables, columns, vector, safe>>
         [] s.kind = "column" -> Added(s.name) /\ UNCHANGED <<tables, indexes, safe>>
         [] s.kind = "vector_index" ->
              indexes' = indexes \cup {"vector"} /\ UNCHANGED <<tables, columns, vector, safe>>

Applying(p) == gate[p] # None /\ next[p] <= Len(Statements[gate[p]])

NextStatement(p) == Statements[gate[p]][next[p]]

End(p) ==
    /\ gate' = [gate EXCEPT ![p] = None]
    /\ round' = [round EXCEPT ![p] = 0]
    /\ next' = [next EXCEPT ![p] = 1]

\* One statement of apply_migration; an error ends the gate.
Execute(p) ==
    /\ Applying(p)
    /\ IF Accepted(p, NextStatement(p))
       THEN /\ Effect(p, NextStatement(p))
            /\ next' = [next EXCEPT ![p] = @ + 1]
            /\ UNCHANGED <<gate, round>>
       ELSE End(p) /\ UNCHANGED <<tables, indexes, columns, vector, safe>>
    /\ UNCHANGED <<rows, passed>>

\* The migration is applied a second time, over a new connection.
ApplyAgain(p) ==
    /\ gate[p] # None /\ ~Applying(p) /\ round[p] = 1
    /\ round' = [round EXCEPT ![p] = 2]
    /\ next' = [next EXCEPT ![p] = 1]
    /\ safe' = [safe EXCEPT ![p] = TRUE]
    /\ UNCHANGED <<tables, indexes, columns, vector, rows, gate, passed>>

Verifying(p) == gate[p] # None /\ ~Applying(p) /\ round[p] = 2

FaultyP2Verified == \A t \in Tables : Exists(t)
\* verify_p2_schema finds the eleven tables with the columns, key types and
\* constraints it looks for; REQUIRED_P2_CONSTRAINTS lists sixteen of the
\* fifty-three constraints, so a table may lack another and pass.
P2Verified == \A t \in Tables : tables[t] \in {"current", "lacks_unlisted_constraint"}

\* The column and the index of verify_p3_schema.  Its counts of rows are with
\* the rows, in VectorMemory.
P3Verified == vector = "vector(512)" /\ "vector" \in indexes

Verify(p) ==
    /\ Verifying(p)
    /\ passed' = IF P2Verified /\ (gate[p] = "p3" => P3Verified) THEN passed \cup {gate[p]}
                 ELSE passed
    /\ End(p)
    /\ UNCHANGED <<tables, indexes, columns, vector, rows, safe>>

\* The process is killed or loses its connection between two statements.
Stop(p) ==
    /\ gate[p] # None
    /\ End(p)
    /\ UNCHANGED <<tables, indexes, columns, vector, rows, safe, passed>>

Run(p) == Execute(p) \/ ApplyAgain(p) \/ Verify(p)

Next == StoreMemories \/ \E p \in Appliers : Start(p) \/ Run(p) \/ Stop(p)

Spec == Init /\ [][Next]_vars

---------------------------------------------------------------------------
(* Properties.                                                             *)

\* No statement is refused, unless 002 runs where 001 never got to memories or
\* the statement names what an older table lacks: none for the order of the
\* statements, for what another process has or has not created, or for rows.
NothingIsRefused ==
    \A p \in Appliers : Applying(p) =>
        \/ Accepted(p, NextStatement(p))
        \/ gate[p] = "p3" /\ ~Exists("memories")
        \/ \E t \in Tables : Obstructs(t, tables[t], NextStatement(p))

\* A gate that got through its migration has everything the migration is to
\* create, under its name.
ApplicationIsComplete ==
    \A p \in Appliers : gate[p] # None /\ (round[p] = 2 \/ ~Applying(p)) =>
        IF gate[p] = "p2" THEN (\A t \in Tables : Exists(t)) /\ IndexedTables \subseteq indexes
        ELSE columns = VectorColumns /\ "vector" \in indexes

\* "Apply each idempotent schema change" (migrations.py:223): on whatever an
\* interrupted or concurrent application left, with rows or without, the
\* statements are accepted and lead to the whole schema, unless an older table
\* lacks what one of them names; at that one the gate ends.
ApplicationConverges == NothingIsRefused /\ ApplicationIsComplete

\* What IF NOT EXISTS passes over, and the server does not refuse, is found by
\* the verification: a gate passes only where every table has its baseline and,
\* for P3, the column its dimension; and that stays so.
PassMeansBaseline ==
    /\ passed # {} =>
          \A t \in Tables : tables[t] \notin {"absent", "lacks_column", "lacks_constraint",
                                             "lacks_key", "lacks_indexed_column"}
    /\ "p3" \in passed => vector = "vector(512)" /\ columns = VectorColumns
================================================================================
