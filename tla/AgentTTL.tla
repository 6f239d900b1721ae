------------------------------ MODULE AgentTTL ------------------------------
(***************************************************************************)
(* AgentTTLPolicy (policies/retention/agent_ttl.py) with the               *)
(* ToolLatencyEstimator it asks (policies/agent/tool_latency_estimator.py):*)
(* what becomes of the KV blocks of a step while its tool call runs.  One  *)
(* runtime calls both, in any order; each method is a step.  A latency is  *)
(* only short or long, at most or above ttl_threshold_ms; floats are read  *)
(* as reals.                                                               *)
(***************************************************************************)
EXTENDS Naturals, FiniteSets

CONSTANTS
    Steps, Calls, Blocks,
    Tools, Classes,         \* tool names, and classes of their arguments
    Default,                \* default_latency_ms
    None

Latencies == {"short", "long"}
Profiles  == Tools \X (Classes \cup {None})

VARIABLES
    ema,                \* ema_latency_ms of each profile, None: not observed
    decision_of_step, decision_of_call,
    profile_of_call,    \* _tool_profiles
    triggered,          \* _prefetch_triggered
    pinned, offloaded,
    scheduled,          \* _prefetch_scheduled, and _kv_evicted
    trigger_count,      \* _prefetch_trigger_count
    observed            \* history: latencies recorded for each profile since the reset

estimator == <<ema, observed>>
decisions == <<decision_of_step, decision_of_call, profile_of_call>>
held      == <<pinned, offloaded>>
prefetch  == <<triggered, trigger_count>>
vars      == <<ema, decision_of_step, decision_of_call, profile_of_call, triggered, pinned,
               offloaded, scheduled, trigger_count, observed>>

Unknown == [action |-> "none", blocks |-> {}, call |-> None]

Decisions == [action : {"none", "retain", "pin", "offload"},
              blocks : SUBSET Blocks, call : Calls \cup {None}]

Init ==
    /\ ema = [p \in Profiles |-> None]
    /\ observed = [p \in Profiles |-> {}]
    /\ decision_of_step = [s \in Steps |-> Unknown]
    /\ decision_of_call = [c \in Calls |-> Unknown]
    /\ profile_of_call = [c \in Calls |-> <<None, None>>]
    /\ triggered = {}
    /\ pinned = {} /\ offloaded = {}
    /\ scheduled = 0 /\ trigger_count = 0

-----------------------------------------------------------------------------
(* ToolLatencyEstimator *)

\* A bug: the profile of the arguments is not looked up.
PredictByTool(t, k) == IF ema[<<t, None>>] # None THEN ema[<<t, None>>] ELSE Default

PredictLatency(t, k) ==
    LET specific == ema[<<t, k>>]
        overall  == ema[<<t, None>>]
    IN  CASE specific # None -> specific
          [] specific = None /\ overall # None -> overall
          [] OTHER -> Default

\* The moving average lies between its last value and the new latency.
Averages(p, latency) == IF ema[p] \in {None, latency} THEN {latency} ELSE Latencies

RecordLatency(t, k, latency) ==
    /\ \E overall \in Averages(<<t, None>>, latency), specific \in Averages(<<t, k>>, latency) :
          ema' = [ema EXCEPT ![<<t, None>>] = overall, ![<<t, k>>] = specific]
    /\ observed' = [p \in Profiles |-> IF p \in {<<t, None>>, <<t, k>>}
                                       THEN observed[p] \cup {latency} ELSE observed[p]]

Reset ==
    /\ ema' = [p \in Profiles |-> None]
    /\ observed' = [p \in Profiles |-> {}]
    /\ UNCHANGED <<decisions, held, prefetch, scheduled>>

-----------------------------------------------------------------------------
(* AgentTTLPolicy *)

\* A bug: a step that is decided again keeps its decision, and the new call has none.
StoreFirstDecision(s, d) ==
    IF decision_of_step[s] = Unknown
    THEN /\ decision_of_step' = [decision_of_step EXCEPT ![s] = d]
         /\ decision_of_call' = [c \in Calls |-> IF c = d.call THEN d ELSE decision_of_call[c]]
    ELSE UNCHANGED <<decision_of_step, decision_of_call>>

StoreDecision(s, d) ==
    /\ decision_of_step' = [decision_of_step EXCEPT ![s] = d]
    /\ decision_of_call' = [c \in Calls |-> IF c = d.call THEN d ELSE decision_of_call[c]]

Retain(s, blocks) ==
    /\ StoreDecision(s, [action |-> "retain", blocks |-> blocks, call |-> None])
    /\ UNCHANGED <<estimator, profile_of_call, held, prefetch, scheduled>>

\* The runtime gives each tool call an id of its own; a step can make several.
NewCall(c) == decision_of_call[c] = Unknown

Pin(s, blocks, c, t, k) ==
    /\ NewCall(c)
    /\ PredictLatency(t, k) = "short"
    /\ StoreDecision(s, [action |-> "pin", blocks |-> blocks, call |-> c])
    /\ profile_of_call' = [profile_of_call EXCEPT ![c] = <<t, k>>]
    /\ pinned' = pinned \cup blocks
    /\ UNCHANGED <<estimator, offloaded, prefetch, scheduled>>

Offload(s, blocks, c, t, k) ==
    /\ NewCall(c)
    /\ PredictLatency(t, k) = "long"
    /\ StoreDecision(s, [action |-> "offload", blocks |-> blocks, call |-> c])
    /\ profile_of_call' = [profile_of_call EXCEPT ![c] = <<t, k>>]
    /\ scheduled' = scheduled + Cardinality(blocks)
    /\ offloaded' = offloaded \cup blocks
    /\ UNCHANGED <<estimator, pinned, prefetch>>

\* A bug: each poll after the delay prefetches again.
PrefetchEachPoll(c) ==
    /\ decision_of_call[c].action = "offload"
    /\ triggered' = triggered \cup {c}
    /\ trigger_count' = trigger_count + Cardinality(decision_of_call[c].blocks)
    /\ UNCHANGED <<estimator, decisions, held, scheduled>>

\* A bug: a pinned call has its blocks prefetched as well.
PrefetchPinned(c) ==
    /\ c \notin triggered
    /\ decision_of_call[c] # Unknown
    /\ triggered' = triggered \cup {c}
    /\ trigger_count' = trigger_count + Cardinality(decision_of_call[c].blocks)
    /\ UNCHANGED <<estimator, decisions, held, scheduled>>

\* The runtime asks at any time, also after the reload; before the delay has passed nothing happens.
PrefetchDue(c) ==
    /\ c \notin triggered
    /\ decision_of_call[c].action = "offload"
    /\ triggered' = triggered \cup {c}
    /\ trigger_count' = trigger_count + Cardinality(decision_of_call[c].blocks)
    /\ UNCHANGED <<estimator, decisions, held, scheduled>>

\* What the caller does not say, None, is taken from the profile of the call; a call without
\* a tool name is refused.
OnToolCompleted(c, tool, class, latency) ==
    LET t == IF tool # None THEN tool ELSE profile_of_call[c][1]
        k == IF class # None THEN class ELSE profile_of_call[c][2]
    IN  /\ t # None
        /\ RecordLatency(t, k, latency)
        /\ UNCHANGED <<decisions, held, prefetch, scheduled>>

OnKvReloaded(blocks) ==
    /\ offloaded' = offloaded \ blocks
    /\ UNCHANGED <<estimator, decisions, pinned, prefetch, scheduled>>

OnPinnedKvReleased(blocks) ==
    /\ pinned' = pinned \ blocks
    /\ UNCHANGED <<estimator, decisions, offloaded, prefetch, scheduled>>

Next ==
    \/ \E s \in Steps, blocks \in SUBSET Blocks : Retain(s, blocks)
    \/ \E s \in Steps, blocks \in SUBSET Blocks, c \in Calls, t \in Tools, k \in Classes \cup {None} :
          Pin(s, blocks, c, t, k) \/ Offload(s, blocks, c, t, k)
    \/ \E c \in Calls : PrefetchDue(c)
    \/ \E c \in Calls, t \in Tools \cup {None}, k \in Classes \cup {None}, latency \in Latencies :
          OnToolCompleted(c, t, k, latency)
    \/ \E blocks \in SUBSET Blocks : OnKvReloaded(blocks) \/ OnPinnedKvReleased(blocks)
    \/ Reset

Spec == Init /\ [][Next]_vars

-----------------------------------------------------------------------------
\* Type invariant; prefetches have been triggered only for calls that offloaded their blocks.
TypeOK ==
    /\ ema \in [Profiles -> Latencies \cup {None}]
    /\ observed \in [Profiles -> SUBSET Latencies]
    /\ decision_of_step \in [Steps -> Decisions]
    /\ decision_of_call \in [Calls -> Decisions]
    /\ profile_of_call \in [Calls -> Profiles \cup {<<None, None>>}]
    /\ pinned \subseteq Blocks /\ offloaded \subseteq Blocks
    /\ scheduled \in Nat /\ trigger_count \in Nat
    /\ triggered \subseteq {c \in Calls : decision_of_call[c].action = "offload"}

Decided(b, action) ==
    \E c \in Calls : decision_of_call[c].action = action /\ b \in decision_of_call[c].blocks

\* No block is forgotten: one that counts as offloaded is named by the offload decision of a
\* call, which is what brings it back, and one that counts as pinned by a pin decision; also when
\* its step has been decided again since, with another tool call or none.
HeldBlocksAreDecided ==
    /\ \A b \in offloaded : Decided(b, "offload")
    /\ \A b \in pinned : Decided(b, "pin")

\* However often and late the runtime polls, no more blocks are prefetched than were offloaded.
PrefetchesAreScheduled == trigger_count <= scheduled

\* The estimate follows what was observed: when all latencies of a class of arguments were short
\* (long), a call of that class counts as short (long), whatever other classes of the tool do;
\* one of a class not seen yet, when all latencies of the tool were.
PredictionFollowsObservations ==
    \A t \in Tools, k \in Classes \cup {None}, latency \in Latencies :
        LET relevant == IF observed[<<t, k>>] # {} THEN observed[<<t, k>>] ELSE observed[<<t, None>>]
        IN  relevant = {latency} => PredictLatency(t, k) = latency
=============================================================================
