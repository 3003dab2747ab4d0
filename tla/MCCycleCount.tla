------------------------------ MODULE MCCycleCount ------------------------------
(* Instances of CycleCount for TLC. *)
EXTENDS CycleCount, TLC

Symmetry == Permutations(Devices) \cup Permutations(Offices) \cup Permutations(Approvers)
================================================================================
