---------------------------- MODULE MCBloomFilter ----------------------------
\* Every position of c is one of a or of b: c is a possible false positive.
EXTENDS BloomFilter, TLC
CONSTANTS t1, t2, t3, a, b, c
MCHash == a :> <<0, 1>> @@ b :> <<1, 9>> @@ c :> <<9, 0>>
=============================================================================
