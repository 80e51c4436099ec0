------------------------------- MODULE MCMigration ------------------------------
(* Two gates at a time, on a table that all others refer to, or one with an     *)
(* index, of every shape.                                                       *)
EXTENDS Migration, TLC

MCDrift == {"lacks_column", "lacks_constraint", "lacks_unlisted_constraint", "lacks_key",
            "lacks_indexed_column"}

MCOddTables == {"devices", "memories"}

\* Nothing, the first half of 001, and all of it.
MCInterruptions == {0, 9, Len(Init001)}

MCSymmetry == Permutations(Appliers)
================================================================================
