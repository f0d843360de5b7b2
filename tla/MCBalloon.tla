----------------------------- MODULE MCBalloon -----------------------------
(* Instances of Balloon for TLC: layouts of an image of three clusters with *)
(* adjacent, scattered and missing blocks.                                  *)
EXTENDS Balloon, TLC
Images == {<<1, 2, 3>>, <<2, 0, 1>>}
Symmetry == Permutations(Proc)
=============================================================================
