--------------------------- MODULE MCStoreHistory ---------------------------
EXTENDS StoreHistory, TLC
Symmetric == Permutations(Threads) \cup Permutations(PairIds) \cup Permutations(Versions)
=============================================================================
