---------------------------- MODULE MCToolCache ----------------------------
EXTENDS ToolCache, TLC
Symmetric == Permutations(Keys) \cup Permutations(Versions)
=============================================================================
