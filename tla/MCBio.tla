------------------------------- MODULE MCBio -------------------------------
EXTENDS Bio, TLC

Symm == Permutations(Proc) \cup Permutations(Block) \cup Permutations(Value)
=============================================================================
