-------------------------------- MODULE MCCbt --------------------------------
EXTENDS Cbt, TLC

UuidSymmetry == Permutations(Uuid)

\* a bitmap that is known to be incomplete is not followed any further
NotTorn == torn = {}
=============================================================================
