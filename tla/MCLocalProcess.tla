--------------------------- MODULE MCLocalProcess ---------------------------
EXTENDS LocalProcess, TLC

Symmetry == Permutations(Session) \cup Permutations(Name) \cup Permutations(Pid)
=============================================================================
