---------------------------- MODULE MCFakeRepository ----------------------------
(* A small instance of FakeRepository, with the calls of MCStepCalls.           *)
EXTENDS FakeRepository, MCStepCalls
================================================================================
