------------------------------ MODULE MCVolume ------------------------------
(* Volume with interchangeable directories and processes. *)
EXTENDS Volume, TLC

Symmetry == Permutations(Dir) \cup Permutations(Proc)
=============================================================================
