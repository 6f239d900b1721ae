----------------------------- MODULE MCPlanCache -----------------------------
(***************************************************************************)
(* The plan cache and the retention policy of an agent runtime.  They      *)
(* share no state, so their interleavings tell no more than the behaviours *)
(* of each: one moves while the other is in its initial state.             *)
(***************************************************************************)
EXTENDS PlanCache, TLC

CONSTANTS Steps, Calls, Blocks, Tools, Classes, Default     \* of AgentTTL

VARIABLES
    ema, decision_of_step, decision_of_call, profile_of_call, triggered, pinned, offloaded,
    scheduled, trigger_count, observed

Retention == INSTANCE AgentTTL

retention == <<ema, decision_of_step, decision_of_call, profile_of_call, triggered, pinned,
               offloaded, scheduled, trigger_count, observed>>

RuntimeInit == Init /\ Retention!Init

RuntimeNext ==
    \/ Retention!Init /\ Next /\ UNCHANGED retention
    \/ Init /\ Retention!Next /\ UNCHANGED vars

RuntimeSpec == RuntimeInit /\ [][RuntimeNext]_<<vars, retention>>

Symmetric == Permutations(Threads) \cup Permutations(Plans)

\* The type invariants; the one of the retention policy prefetches only for offloaded calls.
RuntimeTypeOK == TypeOK /\ Retention!TypeOK

\* AgentTTL: no offloaded or pinned block is without the decision that tells when it comes back,
\* and no more blocks are prefetched than were offloaded, however often the runtime polls.
HeldBlocksComeBack == Retention!HeldBlocksAreDecided /\ Retention!PrefetchesAreScheduled

\* AgentTTL: a predicted latency follows those observed for the tool and the class of arguments.
PredictionFollowsObservations == Retention!PredictionFollowsObservations
=============================================================================
