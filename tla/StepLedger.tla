------------------------------ MODULE StepLedger ------------------------------
(***************************************************************************)
(* What structured memory promises about the steps of a run, whatever      *)
(* processes, transactions, retries and crashes lie behind it: a run       *)
(* appears with one risky action pending, and that action is completed at  *)
(* most once, at a later step and with one verdict that never changes.     *)
(***************************************************************************)
EXTENDS Naturals

CONSTANTS
    Runs, Actions, None,
    Steps               \* the step numbers callers use, a subset of Nat

VARIABLE ledger     \* ledger[r]: what a restore of run r would report

Absent == [phase |-> "absent", step |-> 0, action |-> None, success |-> FALSE]

Pending(a, s) == [phase |-> "pending", step |-> s, action |-> a, success |-> FALSE]

Completed(a, s, ok) == [phase |-> "completed", step |-> s, action |-> a, success |-> ok]

Entry ==
    [phase : {"absent", "pending", "completed"}, step : Nat,
     action : Actions \cup {None}, success : BOOLEAN]

LedgerTypeOK == ledger \in [Runs -> Entry]

Init == ledger = [r \in Runs |-> Absent]

\* An action identifier is recorded for one run only.
Stage(r) ==
    /\ ledger[r].phase = "absent"
    /\ \E a \in Actions, s \in Steps :
        /\ \A q \in Runs : ledger[q].action # a
        /\ ledger' = [ledger EXCEPT ![r] = Pending(a, s)]

Complete(r) ==
    /\ ledger[r].phase = "pending"
    /\ \E s \in Steps, ok \in BOOLEAN :
        /\ s > ledger[r].step
        /\ ledger' = [ledger EXCEPT ![r] = Completed(ledger[r].action, s, ok)]

Next == \E r \in Runs : Stage(r) \/ Complete(r)

Spec == Init /\ [][Next]_ledger

=============================================================================
