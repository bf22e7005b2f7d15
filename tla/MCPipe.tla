------------------------------- MODULE MCPipe -------------------------------
EXTENDS Pipe, TLC

Symm == Permutations(Proc) \cup Permutations(Byte)
=============================================================================
