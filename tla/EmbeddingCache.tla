--------------------------- MODULE EmbeddingCache ---------------------------
(***************************************************************************)
(* CachedEmbeddingService (embeddings/cache.py) used by several threads    *)
(* without a lock: a step is the code between two calls.  The embedding of *)
(* a text is a function of it, so the cache is the order of its keys.      *)
(***************************************************************************)
EXTENDS Naturals, FiniteSets, SequencesExt

CONSTANTS Threads, Texts, MaxCacheSize, MaxCalls, None     \* MaxCalls: a bound

VARIABLES
    cache,      \* the OrderedDict, the least recent text first
    at,         \* where each thread is
    text,       \* what it embeds
    calls,
    touched     \* history: all texts since the last clear, by their last use

vars == <<cache, at, text, calls, touched>>

Evicting == {"check", "pop"}

TypeOK ==
    /\ cache \in Seq(Texts) /\ IsInjective(cache)
    /\ at \in [Threads -> {"idle", "move", "compute"} \cup Evicting]
    /\ text \in [Threads -> Texts \cup {None}]
    /\ \A t \in Threads : at[t] = "idle" <=> text[t] = None

Init ==
    /\ cache = <<>> /\ touched = <<>>
    /\ at = [t \in Threads |-> "idle"] /\ text = [t \in Threads |-> None]
    /\ calls = 0

MovedToEnd(s, x) == Append(RemoveFirst(s, x), x)

Return(t) == at' = [at EXCEPT ![t] = "idle"] /\ text' = [text EXCEPT ![t] = None]

\* embed asks for the key.
Lookup(t, x) ==
    /\ at[t] = "idle" /\ calls < MaxCalls
    /\ at' = [at EXCEPT ![t] = IF x \in ToSet(cache) THEN "move" ELSE "compute"]
    /\ text' = [text EXCEPT ![t] = x]
    /\ calls' = calls + 1
    /\ UNCHANGED <<cache, touched>>

Move(t) ==
    /\ at[t] = "move" /\ text[t] \in ToSet(cache)
    /\ cache' = MovedToEnd(cache, text[t])
    /\ touched' = MovedToEnd(touched, text[t])
    /\ Return(t)
    /\ UNCHANGED calls

\* Another thread evicted the text, or cleared the cache: move_to_end raises KeyError.
MoveRaises(t) ==
    /\ at[t] = "move" /\ text[t] \notin ToSet(cache)
    /\ Return(t)
    /\ UNCHANGED <<cache, calls, touched>>

\* A key that another thread has put there in the meantime keeps its place.
Insert(t) ==
    /\ at[t] = "compute"
    /\ IF text[t] \in ToSet(cache)
       THEN UNCHANGED <<cache, touched>>
       ELSE cache' = Append(cache, text[t]) /\ touched' = MovedToEnd(touched, text[t])
    /\ at' = [at EXCEPT ![t] = "check"]
    /\ UNCHANGED <<text, calls>>

\* A bug: one text more than the limit is let through.
CheckSizeTooLate(t) ==
    /\ at[t] = "check"
    /\ IF Len(cache) > MaxCacheSize + 1
       THEN at' = [at EXCEPT ![t] = "pop"] /\ UNCHANGED text
       ELSE Return(t)
    /\ UNCHANGED <<cache, calls, touched>>

\* _evict_if_needed
CheckSize(t) ==
    /\ at[t] = "check"
    /\ IF Len(cache) > MaxCacheSize
       THEN at' = [at EXCEPT ![t] = "pop"] /\ UNCHANGED text
       ELSE Return(t)
    /\ UNCHANGED <<cache, calls, touched>>

\* A bug: the most recent text is popped.
PopLast(t) ==
    /\ at[t] = "pop" /\ cache # <<>>
    /\ cache' = Front(cache)
    /\ at' = [at EXCEPT ![t] = "check"]
    /\ UNCHANGED <<text, calls, touched>>

Pop(t) ==
    /\ at[t] = "pop" /\ cache # <<>>
    /\ cache' = Tail(cache)
    /\ at' = [at EXCEPT ![t] = "check"]
    /\ UNCHANGED <<text, calls, touched>>

\* The backend raises, or another thread cleared the cache before popitem.
EmbedRaises(t) ==
    /\ at[t] = "compute" \/ (at[t] = "pop" /\ cache = <<>>)
    /\ Return(t)
    /\ UNCHANGED <<cache, calls, touched>>

ClearCache ==
    /\ cache # <<>>
    /\ cache' = <<>> /\ touched' = <<>>
    /\ UNCHANGED <<at, text, calls>>

Next ==
    \/ \E t \in Threads :
          \/ \E x \in Texts : Lookup(t, x)
          \/ Move(t) \/ MoveRaises(t) \/ Insert(t) \/ CheckSize(t) \/ Pop(t) \/ EmbedRaises(t)
    \/ ClearCache

Spec == Init /\ [][Next]_vars

\* However the calls overlap, the cache is over its limit by no more than the texts whose threads
\* have still to look at the size.
SizeIsBounded == Len(cache) <= MaxCacheSize + Cardinality({t \in Threads : at[t] \in Evicting})

\* The cache holds the texts used last, in that order.  It falls short of its limit, and of all
\* texts since the last clear, by less than the number of threads: threads that evict at a time
\* may each take one out.
KeepsTheRecent ==
    /\ IsSuffix(cache, touched)
    /\ \/ Len(cache) + Cardinality(Threads) > MaxCacheSize
       \/ Len(cache) + Cardinality(Threads) > Len(touched)
=============================================================================
