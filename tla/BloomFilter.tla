----------------------------- MODULE BloomFilter -----------------------------
(***************************************************************************)
(* BloomFilter (metadata/bloom_filter.py), shared by the worker threads    *)
(* without a lock.  A thread can lose the interpreter at the end of each   *)
(* turn of the loops of add and might_contain, so a turn is a step; the    *)
(* update of one byte is indivisible under the global interpreter lock.    *)
(***************************************************************************)
EXTENDS Naturals

CONSTANTS
    Threads,
    Keys,           \* object ids
    Size,           \* number of bits
    NumHashes,      \* probes per key
    Hash,           \* Hash[k][i]: the i-th of _get_indices(k)
    MaxAdds         \* bound: adds begun once this many have completed

Positions == 0..Size - 1
Probes    == 1..NumHashes

ASSUME FilterAssumption ==
    /\ Size \in Nat \ {0}
    /\ NumHashes \in Nat \ {0}
    /\ Hash \in [Keys -> [Probes -> Positions]]
    /\ MaxAdds \in Nat
    /\ Keys # {}

VARIABLES
    bits,       \* the positions that are set
    count,      \* completed adds
    op,         \* what each thread executes: none, add or query
    key,        \* its argument
    i,          \* the probe its loop is at
    answer      \* the answer to its last query

vars == <<bits, count, op, key, i, answer>>

TypeOK ==
    /\ bits \in SUBSET Positions
    /\ count \in Nat
    /\ op \in [Threads -> {"none", "add", "query"}]
    /\ key \in [Threads -> Keys]
    /\ i \in [Threads -> Probes]
    /\ answer \in [Threads -> {"none", "yes", "no"}]

Init ==
    /\ bits = {}
    /\ count = 0
    /\ op = [t \in Threads |-> "none"]
    /\ key \in [Threads -> {CHOOSE k \in Keys : TRUE}]
    /\ i = [t \in Threads |-> 1]
    /\ answer = [t \in Threads |-> "none"]

ByteOf(p) == p \div 8

\* Mutant: The byte is assigned, not or-ed: its other bits are lost.
SetBitAlone(p) == {q \in bits : ByteOf(q) # ByteOf(p)} \cup {p}

SetBit(p) == bits \cup {p}

Begin(t) ==
    /\ op[t] = "none"
    /\ \E k \in Keys, o \in {"add", "query"} :
          /\ o = "add" => count < MaxAdds
          /\ key' = [key EXCEPT ![t] = k]
          /\ op' = [op EXCEPT ![t] = o]
    /\ i' = [i EXCEPT ![t] = 1]
    /\ answer' = [answer EXCEPT ![t] = "none"]
    /\ UNCHANGED <<bits, count>>

Probe(t) == Hash[key[t]][i[t]]

Add(t) ==
    /\ op[t] = "add"
    /\ i[t] < NumHashes
    /\ bits' = SetBit(Probe(t))
    /\ i' = [i EXCEPT ![t] = @ + 1]
    /\ UNCHANGED <<count, op, key, answer>>

EndAdd(t) ==
    /\ op[t] = "add"
    /\ i[t] = NumHashes
    /\ bits' = SetBit(Probe(t))
    /\ count' = count + 1
    /\ op' = [op EXCEPT ![t] = "none"]
    /\ UNCHANGED <<key, i, answer>>

Query(t) ==
    /\ op[t] = "query"
    /\ Probe(t) \in bits
    /\ i[t] < NumHashes
    /\ i' = [i EXCEPT ![t] = @ + 1]
    /\ UNCHANGED <<bits, count, op, key, answer>>

Answer(t, a) ==
    /\ answer' = [answer EXCEPT ![t] = a]
    /\ op' = [op EXCEPT ![t] = "none"]
    /\ UNCHANGED <<bits, count, key, i>>

\* Mutant: The loop gives up on the first bit that is set.
EndQueryYesEarly(t) ==
    /\ op[t] = "query"
    /\ Probe(t) \in bits
    /\ Answer(t, "yes")

EndQueryYes(t) ==
    /\ op[t] = "query"
    /\ Probe(t) \in bits
    /\ i[t] = NumHashes
    /\ Answer(t, "yes")

EndQueryNo(t) ==
    /\ op[t] = "query"
    /\ Probe(t) \notin bits
    /\ Answer(t, "no")

Next == \E t \in Threads :
            Begin(t) \/ Add(t) \/ EndAdd(t) \/ Query(t) \/ EndQueryYes(t) \/ EndQueryNo(t)

Spec == Init /\ [][Next]_vars

-----------------------------------------------------------------------------
(* Properties. *)

Covered(k) == \A j \in Probes : Hash[k][j] \in bits

\* A query rests on bits it read in earlier turns of its loop: they are still
\* set, whatever the adds and queries of other threads did in between.
QueryProgress ==
    \A t \in Threads : op[t] = "query" =>
        \A j \in Probes : j < i[t] => Hash[key[t]][j] \in bits

\* An add has set the bits of the turns it made.
AddProgress ==
    \A t \in Threads : op[t] = "add" =>
        \A j \in Probes : j < i[t] => Hash[key[t]][j] \in bits

Progress == QueryProgress /\ AddProgress

\* What a loop of add or might_contain read or wrote in its earlier turns still
\* holds: the inductive invariant the refinement rests on.
IInv == TypeOK /\ Progress

Abstract == INSTANCE BloomSet WITH
    members <- {k \in Keys : Covered(k)},
    call    <- [t \in Threads |-> IF op[t] = "none" THEN [op |-> "none"]
                                  ELSE [op |-> op[t], key |-> key[t]]]

\* The probes of add and might_contain interleave freely and yet the filter is
\* a set that only grows: no query denies a key whose add completed before the
\* query returned, and none affirms a key that has an unset bit.
ImplementsBloomSet == Abstract!Spec
=============================================================================
