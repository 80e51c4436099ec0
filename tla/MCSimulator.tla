------------------------------ MODULE MCSimulator ------------------------------
(***************************************************************************)
(* Instances of Simulator.                                                 *)
(***************************************************************************)
EXTENDS Simulator

\* All four instruments, with the fault several of them can own at once and
\* those that interfere with connections and settings.
BenchFaults ==
    {"TOOL_TIMEOUT", "STALE_RESOURCE", "CONNECTION_TIMEOUT", "CALIBRATION_SUPERSEDED"}

\* Below, at both ends of, and above the accepted range.
BenchDrives == {0, 1, 10, 11}
================================================================================
