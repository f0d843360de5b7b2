------------------------------ MODULE MCDevice ------------------------------
(* Device with interchangeable processes. *)
EXTENDS Device, TLC

Symmetry == Permutations(Proc)
=============================================================================
