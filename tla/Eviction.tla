------------------------------ MODULE Eviction ------------------------------
(***************************************************************************)
(* The eviction policies (policies/eviction) of a runtime that keeps KV    *)
(* blocks in L2.  The runtime gets one policy from the registry and tells  *)
(* it when a block comes in, is used and goes out; when it needs room it   *)
(* asks for a victim among the blocks that are not in use.  A request that *)
(* finishes late may report a block that is already gone.  The clock moves *)
(* with each notice.  The weights of the scores are hundredths.            *)
(***************************************************************************)
EXTENDS Integers, Sequences, FiniteSets, SequencesExt

CONSTANTS
    Blocks,
    Traits,         \* what the metadata of a block says: agent, next use, sizes, costs
    Steps,          \* steps of the workflow
    Distances,      \* Distances[s][a]: AgentStepGraph.steps_to_execution, None if it never runs
    MaxSharers,     \* bound: sessions that share a block
    MaxClock,       \* bound: notices
    Unit,           \* what a score of 1 is; quotients are rounded down to whole parts of it
    None

VARIABLES
    policy,
    l2,             \* blocks in L2
    meta,           \* their metadata, as the block object in L2 has it
    sharers,        \* how many sessions share each block
    current,        \* current step of the workflow
    order,          \* _access_order of LRU
    times, counts,  \* _access_times and _access_counts, 0 for no entry
    max_shared,
    clock,
    since,          \* history: when a block was last used, or brought in if no use was reported
    uses            \* history: uses of a block since it came in

blocks  == <<l2, meta, sharers>>
history == <<since, uses>>
vars    == <<policy, blocks, current, order, times, counts, max_shared, clock, history>>

TypeOK ==
    /\ policy \in {"lru", "prefix_reuse", "workflow_aware"}
    /\ l2 \subseteq Blocks /\ DOMAIN meta = Blocks
    /\ sharers \in [Blocks -> 0..MaxSharers]
    /\ current \in Steps \cup {None}
    /\ ToSet(order) \subseteq Blocks /\ IsInjective(order)
    /\ times \in [Blocks -> 0..MaxClock] /\ counts \in [Blocks -> 0..MaxClock]
    /\ max_shared \in 1..MaxSharers
    /\ clock \in 1..(MaxClock + 1)
    /\ IF policy = "lru" THEN l2 \subseteq ToSet(order) ELSE \A b \in l2 : times[b] # 0 /\ counts[b] # 0

Init ==
    /\ policy \in {"lru", "prefix_reuse", "workflow_aware"}
    /\ l2 = {} /\ meta = Traits
    /\ sharers = [b \in Blocks |-> 0]
    /\ current = None
    /\ order = <<>>
    /\ times = [b \in Blocks |-> 0] /\ counts = [b \in Blocks |-> 0]
    /\ max_shared = 1
    /\ clock = 1
    /\ since = [b \in Blocks |-> 0] /\ uses = [b \in Blocks |-> 0]

Tick == clock <= MaxClock /\ clock' = clock + 1

-----------------------------------------------------------------------------
(* Signals and scores *)

Lesser(m, n) == IF m <= n THEN m ELSE n
Greater(m, n) == IF m >= n THEN m ELSE n

\* An access time of 0 stands for the epoch (PrefixReuse) or none (WorkflowAware).
Recency(b)   == IF times[b] = 0 THEN 0 ELSE Unit \div (1 + clock - times[b])
Frequency(b) == (Unit * Lesser(10, IF counts[b] = 0 THEN 1 ELSE counts[b])) \div 10
Shared(b)    == (Unit * sharers[b]) \div Greater(1, max_shared)

ReuseScore(b) == 30 * Recency(b) + 30 * Frequency(b) + 40 * Shared(b)

\* Steps until the block is used: what its metadata says, else the graph; None for never.
NextUse(b) ==
    IF meta[b].expected # None THEN (IF meta[b].expected < 0 THEN None ELSE meta[b].expected)
    ELSE IF current = None \/ meta[b].agent = None THEN None
    ELSE Distances[current][meta[b].agent]

\* A bug, the wrong sign: the farther the next use, the higher the score.
FarUseScore(b) == IF NextUse(b) = None THEN 0 ELSE Unit - Unit \div (1 + NextUse(b))

NextUseScore(b) == IF NextUse(b) = None THEN 0 ELSE Unit \div (1 + NextUse(b))

\* The predicted latency of a tool call stands for the cost of a reload; else a tag may name it.
ReloadCost(b) == IF meta[b].latency # None THEN meta[b].latency ELSE meta[b].tag

RetentionScore(b) ==
    25 * Recency(b) + 20 * Frequency(b) + 20 * Shared(b) + 15 * Lesser(Unit, meta[b].reuse)
    + 30 * NextUseScore(b) - 5 * Lesser(Unit, meta[b].size) - 5 * Lesser(Unit, ReloadCost(b))

Score(b) == IF policy = "prefix_reuse" THEN ReuseScore(b) ELSE RetentionScore(b)

\* The least recent candidate LRU knows, else the first of the list, which may be any.
LeastRecent(C) ==
    LET first == SelectInSeq(order, LAMBDA b : b \in C) IN
    IF first = 0 THEN C ELSE {order[first]}

\* The first of the candidates with the lowest score.
LowestScore(C) == {b \in C : \A c \in C : Score(b) <= Score(c)}

\* select_victim: the blocks it may name, depending on the order of the list.
Victims(C) == IF policy = "lru" THEN LeastRecent(C) ELSE LowestScore(C)

-----------------------------------------------------------------------------
(* Notices *)

\* The fields of ObjectMeta that have none in ObjectMetaProto are lost on the way.
OverGrpc(m) == [m EXCEPT !.agent = None, !.expected = None, !.latency = None]

OnAdded(b) ==
    IF policy = "lru"
    THEN /\ order' = IF b \in ToSet(order) THEN order ELSE Append(order, b)
         /\ UNCHANGED <<times, counts>>
    ELSE /\ times' = [times EXCEPT ![b] = clock]
         /\ counts' = [counts EXCEPT ![b] = 1]
         /\ UNCHANGED order

\* Bugs: a used block is dropped from the order, or keeps its place in it.
AccessedDrops(b) ==
    IF policy = "lru"
    THEN order' = RemoveFirst(order, b) /\ UNCHANGED <<times, counts>>
    ELSE /\ times' = [times EXCEPT ![b] = clock]
         /\ counts' = [counts EXCEPT ![b] = @ + 1]
         /\ UNCHANGED order

AccessedInPlace(b) ==
    IF policy = "lru"
    THEN /\ order' = IF b \in ToSet(order) THEN order ELSE Append(order, b)
         /\ UNCHANGED <<times, counts>>
    ELSE /\ times' = [times EXCEPT ![b] = clock]
         /\ counts' = [counts EXCEPT ![b] = @ + 1]
         /\ UNCHANGED order

OnAccessed(b) ==
    IF policy = "lru"
    THEN /\ order' = Append(RemoveFirst(order, b), b)
         /\ UNCHANGED <<times, counts>>
    ELSE /\ times' = [times EXCEPT ![b] = clock]
         /\ counts' = [counts EXCEPT ![b] = @ + 1]
         /\ UNCHANGED order

OnEvicted(b) ==
    /\ order' = RemoveFirst(order, b)
    /\ times' = [times EXCEPT ![b] = 0]
    /\ counts' = [counts EXCEPT ![b] = 0]

\* _track_shared: PrefixReuse does it for used blocks only, LRU never.
TrackShared(n, who) == max_shared' = IF policy \in who THEN Greater(max_shared, n) ELSE max_shared

Add(b, remote, n) ==
    /\ b \notin l2 /\ Tick
    /\ l2' = l2 \cup {b}
    /\ meta' = [meta EXCEPT ![b] = IF remote THEN OverGrpc(Traits[b]) ELSE Traits[b]]
    /\ sharers' = [sharers EXCEPT ![b] = n]
    /\ OnAdded(b)
    /\ TrackShared(n, {"workflow_aware"})
    /\ since' = [since EXCEPT ![b] = IF @ = 0 \/ policy # "lru" THEN clock ELSE @]
    /\ uses' = [uses EXCEPT ![b] = 1]
    /\ UNCHANGED <<policy, current>>

\* Also of a block that has been evicted in the meantime.
Access(b, n) ==
    /\ uses[b] > 0 /\ n >= sharers[b] /\ Tick
    /\ sharers' = [sharers EXCEPT ![b] = n]
    /\ OnAccessed(b)
    /\ TrackShared(n, {"prefix_reuse", "workflow_aware"})
    /\ since' = [since EXCEPT ![b] = clock]
    /\ uses' = [uses EXCEPT ![b] = @ + 1]
    /\ UNCHANGED <<policy, l2, meta, current>>

\* The runtime follows the decision.
Evict(b, C) ==
    /\ b \in Victims(C)
    /\ l2' = l2 \ {b}
    /\ OnEvicted(b)
    /\ since' = [since EXCEPT ![b] = 0]
    /\ UNCHANGED <<policy, meta, sharers, current, max_shared, clock, uses>>

SetCurrentStep(s) ==
    /\ policy = "workflow_aware" /\ s # current
    /\ current' = s
    /\ UNCHANGED <<policy, blocks, order, times, counts, max_shared, clock, history>>

Next ==
    \/ \E b \in Blocks, n \in 0..MaxSharers : Access(b, n) \/ (\E remote \in BOOLEAN : Add(b, remote, n))
    \/ \E C \in SUBSET l2 : \E b \in C : Evict(b, C)
    \/ \E s \in Steps : SetCurrentStep(s)

Spec == Init /\ [][Next]_vars

\* LRU: no victim has been used later than another candidate.  A block that is brought in counts
\* as used then, unless a late use of it was reported while it was out (lru.py, on_block_added):
\* it keeps the place of that report.
LeastRecentGoes ==
    policy = "lru" =>
        \A C \in SUBSET l2 : \A v \in Victims(C), c \in C : since[v] <= since[c]

Sooner(b, c) ==
    \/ NextUse(c) = None
    \/ NextUse(b) # None /\ NextUse(b) <= NextUse(c)

\* A victim loses to each other candidate in some respect: none has been used later and no less
\* often since it came in, is shared by as many, and, for the policy that knows workflows, is
\* needed as soon, as reusable, no larger and no dearer to reload.
BetterBlockStays ==
    policy # "lru" =>
        \A C \in SUBSET l2 : \A v \in Victims(C), c \in C :
            ~ /\ since[v] > since[c] /\ uses[v] >= uses[c] /\ sharers[v] >= sharers[c]
              /\ \/ policy = "prefix_reuse"
                 \/ /\ Sooner(v, c)
                    /\ meta[v].reuse >= meta[c].reuse
                    /\ meta[v].size <= meta[c].size
                    /\ ReloadCost(v) <= ReloadCost(c)
=============================================================================
