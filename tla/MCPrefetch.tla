----------------------------- MODULE MCPrefetch -----------------------------
(***************************************************************************)
(* What brings blocks into the faster levels and out of them: session and  *)
(* adaptive prefetch decide, PrefetchBatch loads, the eviction policy      *)
(* names victims.  They share ids but no state: one moves while the others *)
(* are in their initial state.                                             *)
(***************************************************************************)
EXTENDS PrefetchBatch, Integers, FiniteSets, TLC

CONSTANTS
    i1, i2,
    Blocks, b1, b2, b3, a1, a2, Steps, s1, s2,
    Traits, Distances, MaxSharers, MaxClock, Unit,                      \* of Eviction
    Sessions, Prompts, Spans, HistorySize, TopK, MaxRequests, MaxChanges,   \* of SessionPrefetch
    InitialDepth, MinDepth, MaxDepth, Interval, Low, High, MaxUses      \* of AdaptivePrefetch

Agents == {Traits[b].agent : b \in Blocks} \ {None}

ASSUME EvictionAssumption == MaxClock \in Nat /\ MaxSharers \in Nat \ {0} /\ DOMAIN Traits = Blocks

\* Rounding keeps two different recencies apart.
ASSUME UnitAssumption == Unit \in Nat /\ Unit >= MaxClock * (MaxClock + 1)

ASSUME MetadataAssumption ==
    /\ Traits \in [Blocks -> [agent : Agents \cup {None}, expected : Int \cup {None}, reuse : Nat, size : Nat,
                              latency : Nat \cup {None}, tag : Nat]]
    /\ \A s \in Steps, a \in Agents : Distances[s][a] \in Nat \cup {None}

ASSUME SessionAssumption ==
    /\ HistorySize \in Nat \ {0} /\ Spans \subseteq Seq(Nat) \ {<<>>}
    /\ None \notin Sessions \cup Spans /\ IsFiniteSet(Ids)

ASSUME AdaptiveAssumption ==
    /\ Interval \in Nat \ {0}
    /\ MinDepth \in Int /\ MaxDepth \in Int /\ InitialDepth \in MinDepth..MaxDepth

VARIABLES
    policy, l2, meta, sharers, current, order, times, counts, max_shared, clock, since, uses,
    histories, tree, asking, left, best, decisions, log, recent, seen, always, requests, changes,
    depth, total, useful, events, reported

\* Two decisions about two ids, and a third about the other id.
BatchTypes == {"kv_cache", "rag", "tool_artifact", "unknown"}
BatchObjects == {<<"kv_cache", i1>>, <<"rag", i1>>, <<"tool_artifact", i1>>, <<"kv_cache", i2>>}
Of(i) == {d \in Decisions : d.id = i}
BatchRequests ==
    [1..2 -> Decisions] \cup {<<d, e, [id |-> i2, type |-> "kv_cache"]>> : d \in Of(i1), e \in Of(i1)}

\* Sizes, reuse scores and costs in sixtieths.  The blocks of one agent, and a block that says
\* itself when it is used next.
About(a, e, r, z, l, t) == [agent |-> a, expected |-> e, reuse |-> r, size |-> z, latency |-> l, tag |-> t]
BlockTraits ==
    b1 :> About(a1, None, 60, 30, 90, 0) @@ b2 :> About(a2, None, 60, 30, None, 90)
    @@ b3 :> About(a1, 1, 0, 90, None, 0)
StepDistances == s1 :> (a1 :> 1 @@ a2 :> 0) @@ s2 :> (a1 :> 0 @@ a2 :> None)

SessionPrompts == {<<1, 2>>, <<1, 3>>}
BlockSpans == {<<1>>, <<1, 2>>, <<1, 3>>}

Eviction == INSTANCE Eviction
Session  == INSTANCE SessionPrefetch WITH Objects <- Ids, during <- seen, throughout <- always
Adaptive == INSTANCE AdaptivePrefetch WITH log <- reported

eviction == <<policy, l2, meta, sharers, current, order, times, counts, max_shared, clock, since, uses>>
session  == <<histories, tree, asking, left, best, decisions, log, recent, seen, always, requests, changes>>
adaptive == <<depth, total, useful, events, reported>>

\* Initial states are many; the others wait in one of them.
NoBatch    == Init /\ kept = {}
NoEviction == Eviction!Init /\ policy = "lru"

PrefetchInit == Init /\ Eviction!Init /\ Session!Init /\ Adaptive!Init

PrefetchNext ==
    \/ /\ NoEviction /\ Session!Init /\ Adaptive!Init
       /\ Next /\ UNCHANGED <<eviction, session, adaptive>>
    \/ /\ NoBatch /\ Session!Init /\ Adaptive!Init
       /\ Eviction!Next /\ UNCHANGED <<vars, session, adaptive>>
    \/ /\ NoBatch /\ NoEviction /\ Adaptive!Init
       /\ Session!Next /\ UNCHANGED <<vars, eviction, adaptive>>
    \/ /\ NoBatch /\ NoEviction /\ Session!Init
       /\ Adaptive!Next /\ UNCHANGED <<vars, eviction, session>>

\* While a batch is under way the others are where it may take its steps.
PrefetchSpec == PrefetchInit /\ [][PrefetchNext]_<<vars, eviction, session, adaptive>> /\ Fairness

\* The type invariants: the order of LRU names a block once and no block in L2 is without its
\* entry; a session's history keeps to its size; the counters of a window stay below its length.
PrefetchTypeOK == TypeOK /\ Eviction!TypeOK /\ Session!TypeOK /\ Adaptive!TypeOK

\* Eviction: LRU names no victim that was used later than another candidate, and the scoring
\* policies none that is worse in no respect than another candidate and was used later.
VictimIsWorst == Eviction!LeastRecentGoes /\ Eviction!BetterBlockStays

\* SessionPrefetch: what a prediction names matches a recent prompt of the session it is for, and
\* a match is left out only for top_k that are as long.
PredictionsFollowHistory == Session!PredictsOwnHistory /\ Session!LongestMatchesWin

\* AdaptivePrefetch: the depth is what the windows of reported prefetches make of it.
DepthFollowsWindows == Adaptive!DepthFollowsWindows
=============================================================================
