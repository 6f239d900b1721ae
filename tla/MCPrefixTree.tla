---------------------------- MODULE MCPrefixTree ----------------------------
EXTENDS PrefixTree, TLC
CONSTANTS a, b
\* A block that ends at a node on the way to two others.
MCStrings == {<<a>>, <<a, a>>, <<a, b>>}
Symmetric == Permutations(Objects) \cup Permutations(Threads \ Writers) \cup Permutations(Writers)
=============================================================================
