-------------------------- MODULE AdaptivePrefetch --------------------------
(***************************************************************************)
(* AdaptivePrefetchPolicy (policies/prefetch/adaptive.py): the number of   *)
(* decisions it passes on follows the share of useful prefetches, window   *)
(* by window.                                                              *)
(***************************************************************************)
EXTENDS Integers, Sequences, FiniteSets

CONSTANTS
    InitialDepth, MinDepth, MaxDepth,
    Interval,       \* adjustment_interval
    Low, High,      \* rates, in percent
    MaxUses         \* bound: reported prefetches

VARIABLES
    depth,
    total, useful, events,  \* _total_prefetch, _useful_prefetch, _events_since_adjust
    log                     \* history: whether each reported prefetch was useful

vars == <<depth, total, useful, events, log>>

TypeOK ==
    /\ depth \in MinDepth..MaxDepth
    /\ total \in 0..(Interval - 1) /\ useful \in 0..total /\ events = total

Init ==
    /\ depth = InitialDepth
    /\ total = 0 /\ useful = 0 /\ events = 0
    /\ log = <<>>

\* on_prefetch_used before the window is full.
Count(was_useful) ==
    /\ Len(log) < MaxUses /\ events + 1 < Interval
    /\ total' = total + 1 /\ events' = events + 1
    /\ useful' = useful + (IF was_useful THEN 1 ELSE 0)
    /\ log' = Append(log, was_useful)
    /\ UNCHANGED depth

\* A bug: the useful ones of earlier windows are counted again.
AdjustWithoutReset(was_useful) ==
    /\ Len(log) < MaxUses /\ events + 1 >= Interval
    /\ depth' = IF 100 * (useful + 1) > High * Interval /\ depth < MaxDepth THEN depth + 1 ELSE depth
    /\ total' = 0 /\ events' = 0
    /\ useful' = useful
    /\ log' = Append(log, was_useful)

\* A bug: a rate that meets a threshold is past it.
AdjustAtThreshold(was_useful) ==
    /\ Len(log) < MaxUses /\ events + 1 >= Interval
    /\ LET hits == 100 * (useful + (IF was_useful THEN 1 ELSE 0))
           all  == total + 1 IN
       depth' = IF hits >= High * all THEN (IF depth < MaxDepth THEN depth + 1 ELSE MaxDepth)
                ELSE IF hits <= Low * all THEN (IF depth > MinDepth THEN depth - 1 ELSE MinDepth)
                ELSE depth
    /\ total' = 0 /\ useful' = 0 /\ events' = 0
    /\ log' = Append(log, was_useful)

\* on_prefetch_used at the end of the window, with _adjust_depth.
Adjust(was_useful) ==
    /\ Len(log) < MaxUses /\ events + 1 >= Interval
    /\ LET hits == 100 * (useful + (IF was_useful THEN 1 ELSE 0))
           all  == total + 1 IN
       depth' = IF hits > High * all THEN (IF depth < MaxDepth THEN depth + 1 ELSE MaxDepth)
                ELSE IF hits < Low * all THEN (IF depth > MinDepth THEN depth - 1 ELSE MinDepth)
                ELSE depth
    /\ total' = 0 /\ useful' = 0 /\ events' = 0
    /\ log' = Append(log, was_useful)

Next == \E was_useful \in BOOLEAN : Count(was_useful) \/ Adjust(was_useful)

Spec == Init /\ [][Next]_vars

\* The useful ones of the reports l from..to.
Hits(l, from, to) == Cardinality({i \in from..to : l[i]})

\* The depth after a whole window with that many useful ones: one more when it was good, one
\* less when it was bad.
After(before, hits) ==
    IF 100 * hits > High * Interval THEN (IF before = MaxDepth THEN before ELSE before + 1)
    ELSE IF 100 * hits < Low * Interval THEN (IF before = MinDepth THEN before ELSE before - 1)
    ELSE before

\* The depth is what the windows of all reported prefetches make of it, one by one, and the
\* counters are those of the window that has begun.
DepthFollowsWindows ==
    \E windows \in 0..Len(log) :
        /\ Len(log) = windows * Interval + total /\ total < Interval
        /\ useful = Hits(log, windows * Interval + 1, Len(log))
        /\ \E depths \in [0..windows -> MinDepth..MaxDepth] :
              /\ depths[0] = InitialDepth /\ depths[windows] = depth
              /\ \A w \in 1..windows :
                    depths[w] = After(depths[w - 1], Hits(log, (w - 1) * Interval + 1, w * Interval))
=============================================================================
