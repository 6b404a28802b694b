------------------------------ MODULE MCTestDrive ------------------------------
(* TestDrive with a guest and two who may host; one of them has an id. *)
EXTENDS TestDrive, TLC

Handlers == Permutations(Slot)

=============================================================================
