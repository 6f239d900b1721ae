----------------------------- MODULE AgentSteps -----------------------------
(***************************************************************************)
(* AgentStepGraph (metadata/agent_step_graph.py), the steps of agent       *)
(* workflows, and AgentPrefetchPolicy (policies/prefetch/agent_prefetch.py)*)
(* which prefetches the objects of the steps the graph predicts.  One      *)
(* runtime calls both, in any order; each method is a step.                *)
(***************************************************************************)
EXTENDS Naturals, Sequences, FiniteSets, FiniteSetsExt, SequencesExt

CONSTANTS
    Workflows, Agents, Steps,
    Objects,        \* (prefetch type, object id) pairs
    ObjectSets,     \* bound: what is registered for a step
    Weight,         \* _TYPE_WEIGHTS of the type of each object, in percent
    TopK,           \* next_step_top_k
    MaxDecisions,   \* max_decisions
    MaxRequests,    \* bound: predict_prefetch and on_objects_requested calls
    None

\* Priorities are fractions Weight / (1 + rank); times Scale they are whole for TopK <= 6.
Scale == 60

ASSUME StepsAssumption ==
    /\ ObjectSets \subseteq SUBSET Objects
    /\ Weight \in [Objects -> 1..100]
    /\ IsFiniteSet(Objects)
    /\ TopK \in 1..6 /\ MaxDecisions \in Nat \ {0} /\ MaxRequests \in Nat
    /\ None \notin Workflows \cup Agents \cup Steps \cup Nat

VARIABLES
    workflow, agent, parent,    \* AgentStepNode of each step, None: no such step
    completed,                  \* the completed steps
    child_step_ids,
    workflow_steps, agent_steps,
    current,                    \* the policy: _current_step_id
    step_objects,               \* what is registered for each step
    predicted, used,    \* object ids
    prefetch_count,             \* _agent_prefetch_count
    expected, recalled,         \* _expected_object_count, _recall_hit_count
    requests                    \* bounded number of requests

lists  == <<workflow_steps, agent_steps>>
graph  == <<workflow, agent, parent, completed, child_step_ids, workflow_steps, agent_steps>>
setup  == <<current, step_objects>>
counts == <<predicted, used, prefetch_count, expected, recalled>>
vars   == <<workflow, agent, parent, completed, child_step_ids, workflow_steps, agent_steps,
            current, step_objects, predicted, used, prefetch_count, expected,
            recalled, requests>>

Init ==
    /\ workflow = [s \in Steps |-> None]
    /\ agent = [s \in Steps |-> None]
    /\ parent = [s \in Steps |-> None]
    /\ completed = {}
    /\ child_step_ids = [s \in Steps |-> <<>>]
    /\ workflow_steps = [w \in Workflows |-> <<>>]
    /\ agent_steps = [a \in Agents |-> <<>>]
    /\ current = None
    /\ step_objects = [s \in Steps |-> {}]
    /\ predicted = {} /\ used = {}
    /\ prefetch_count = 0 /\ expected = 0 /\ recalled = 0
    /\ requests = 0

Known(s) == workflow[s] # None
KnownSteps == {s \in Steps : Known(s)}

-----------------------------------------------------------------------------
(* AgentStepGraph *)

\* A bug: a parent of another workflow is accepted.
ParentExists(w, p) == p # None => Known(p)

ParentFits(w, p) == p # None => Known(p) /\ workflow[p] = w

\* A bug: a step is listed right behind its parent.
ListBehindParent(steps, s) == InsertAt(steps, SelectInSeq(steps, LAMBDA x : x = parent'[s]) + 1, s)

List(steps, s) == Append(steps, s)

AddStep(w, s, a, p) ==
    /\ ~Known(s)
    /\ ParentFits(w, p)
    /\ workflow' = [workflow EXCEPT ![s] = w]
    /\ agent' = [agent EXCEPT ![s] = a]
    /\ parent' = [parent EXCEPT ![s] = p]
    /\ workflow_steps' = [workflow_steps EXCEPT ![w] = List(@, s)]
    /\ agent_steps' = [agent_steps EXCEPT ![a] = List(@, s)]
    /\ child_step_ids' = IF p = None THEN child_step_ids ELSE [child_step_ids EXCEPT ![p] = List(@, s)]
    /\ UNCHANGED <<completed, setup, counts, requests>>

\* A bug: a step nobody added is marked.
MarkAnyStep(s) ==
    /\ completed' = completed \cup {s}
    /\ UNCHANGED <<workflow, agent, parent, child_step_ids, lists, setup, counts, requests>>

MarkStepCompleted(s) ==
    /\ Known(s)
    /\ completed' = completed \cup {s}
    /\ UNCHANGED <<workflow, agent, parent, child_step_ids, lists, setup, counts, requests>>

PendingAfter(steps, p) == {i \in (p + 1)..Len(steps) : steps[i] \notin completed}

\* The steps at some positions of a list, in their order: SelectSeq without its recursion, which
\* is out of the provers' reach.
Nth(P, n) == CHOOSE i \in P : Cardinality({j \in P : j <= i}) = n
StepsAt(steps, P) == [n \in 1..Cardinality(P) |-> steps[Nth(P, n)]]

StepsOf(s) == workflow_steps[workflow[s]]
Future(s)  == PendingAfter(StepsOf(s), SelectInSeq(StepsOf(s), LAMBDA x : x = s))

FutureUncompletedSteps(s) == StepsAt(StepsOf(s), Future(s))

PendingChildren(s) == StepsAt(child_step_ids[s], PendingAfter(child_step_ids[s], 0))

FirstOf(seq, n) == SubSeq(seq, 1, IF Len(seq) < n THEN Len(seq) ELSE n)

\* A bug: no fallback to the rest of the workflow once the children are done.
OnlyChildren(s) == FirstOf(PendingChildren(s), TopK)

\* predict_next_steps of a step and its own workflow.
PredictNextSteps(s) ==
    LET children == PendingChildren(s)
    IN  FirstOf(IF children = <<>> THEN FutureUncompletedSteps(s) ELSE children, TopK)

\* The place of the agent's first step among those to come.
StepsToExecution(a, s) ==
    LET turns == {i \in Future(s) : agent[StepsOf(s)[i]] = a}
    IN  IF turns = {} THEN None ELSE Cardinality({i \in Future(s) : i <= Min(turns)})

-----------------------------------------------------------------------------
(* AgentPrefetchPolicy *)

\* Any id, also one the graph does not know.
SetCurrentStep(s) ==
    /\ current' = s
    /\ UNCHANGED <<graph, step_objects, counts, requests>>

\* Replaces what was registered before; the order within one type is not kept.
RegisterStepObjects(s, objects) ==
    /\ step_objects' = [step_objects EXCEPT ![s] = objects]
    /\ UNCHANGED <<graph, current, counts, requests>>

Candidates(next) == UNION {step_objects[next[i]] : i \in DOMAIN next}

\* The positions in next of the steps that need o.
RanksOf(next, o) == {i \in DOMAIN next : o \in step_objects[next[i]]}

\* A bug: the last step that names an object decides its priority.
LastPriority(next, o) == Weight[o] * (Scale \div Max(RanksOf(next, o)))

\* The best over the steps; enumerate counts ranks from 0, hence 1 + rank is i.
Priority(next, o) == Max({Weight[o] * (Scale \div i) : i \in RanksOf(next, o)})

\* The decisions sorted by priority and cut: those of equal priority come in any order.
PossibleDecisions(next) ==
    {chosen \in SUBSET Candidates(next) :
        /\ \/ Cardinality(chosen) = MaxDecisions
           \/ chosen = Candidates(next) /\ Cardinality(chosen) < MaxDecisions
        /\ \A o \in chosen, q \in Candidates(next) \ chosen : Priority(next, o) >= Priority(next, q)}

PredictPrefetch ==
    /\ requests < MaxRequests
    /\ requests' = requests + 1
    /\ \/ /\ current \notin KnownSteps
          /\ UNCHANGED counts
       \/ /\ current \in KnownSteps
          /\ \E decisions \in PossibleDecisions(PredictNextSteps(current)) :
                /\ prefetch_count' = prefetch_count + Cardinality(decisions)
                /\ predicted' = predicted \cup decisions
          /\ UNCHANGED <<used, expected, recalled>>
    /\ UNCHANGED <<graph, setup>>

\* A bug: what was requested without a prediction counts as a used prefetch.
UseAnything(o) ==
    /\ used' = used \cup {o}
    /\ UNCHANGED <<graph, setup, predicted, prefetch_count, expected, recalled, requests>>

OnPrefetchUsed(o) ==
    /\ used' = used \cup ({o} \cap predicted)
    /\ UNCHANGED <<graph, setup, predicted, prefetch_count, expected, recalled, requests>>

OnObjectsRequested(objects) ==
    /\ expected < MaxRequests
    /\ expected' = expected + Cardinality(objects)
    /\ recalled' = recalled + Cardinality(objects \cap predicted)
    /\ UNCHANGED <<graph, setup, predicted, used, prefetch_count, requests>>

Next ==
    \/ \E w \in Workflows, s \in Steps, a \in Agents, p \in Steps \cup {None} : AddStep(w, s, a, p)
    \/ \E s \in Steps : MarkStepCompleted(s)
    \/ \E s \in Steps \cup {None} : SetCurrentStep(s)
    \/ \E s \in Steps, objects \in ObjectSets : RegisterStepObjects(s, objects)
    \/ PredictPrefetch
    \/ \E o \in Objects : OnPrefetchUsed(o)
    \/ \E objects \in SUBSET Objects \ {{}} : OnObjectsRequested(objects)

Spec == Init /\ [][Next]_vars

-----------------------------------------------------------------------------
\* The reported precision and recall are ratios: no more prefetches are used than were made, and
\* no more objects recalled than requested, whatever callbacks come and however often.
StatsAreRatios ==
    /\ Cardinality(used) <= prefetch_count
    /\ recalled <= expected

\* Type invariant; a known step is listed once for its workflow and once for its agent.
TypeOK ==
    /\ workflow \in [Steps -> Workflows \cup {None}]
    /\ agent \in [Steps -> Agents \cup {None}]
    /\ parent \in [Steps -> Steps \cup {None}]
    /\ completed \subseteq KnownSteps
    /\ child_step_ids \in [Steps -> Seq(KnownSteps)]
    /\ workflow_steps \in [Workflows -> Seq(KnownSteps)] /\ agent_steps \in [Agents -> Seq(KnownSteps)]
    /\ \A w \in Workflows : /\ IsInjective(workflow_steps[w])
                             /\ ToSet(workflow_steps[w]) = {s \in KnownSteps : workflow[s] = w}
    /\ \A a \in Agents : /\ IsInjective(agent_steps[a])
                          /\ ToSet(agent_steps[a]) = {s \in KnownSteps : agent[s] = a}
    /\ current \in Steps \cup {None}
    /\ step_objects \in [Steps -> SUBSET Objects]
    /\ predicted \subseteq Objects /\ used \subseteq Objects
    /\ {prefetch_count, expected, recalled, requests} \subseteq Nat
    /\ StatsAreRatios

\* The predicted steps of a step belong to its workflow, come after it there, are not done and
\* are at most top_k distinct steps, whatever the order in which steps were added and completed.
PredictionIsAhead ==
    \A s \in KnownSteps :
        LET next  == PredictNextSteps(s)
            steps == workflow_steps[workflow[s]]
        IN  /\ Len(next) <= TopK /\ IsInjective(next)
            /\ \A i \in DOMAIN next :
                  /\ next[i] \notin completed
                  /\ \E j, k \in DOMAIN steps : j < k /\ steps[j] = s /\ steps[k] = next[i]

\* As long as a later step of the workflow is not done, something is predicted, also when all
\* children of the current step are done, out of order or before it.
PredictsWhileWorkRemains ==
    \A s \in KnownSteps :
        PredictNextSteps(s) = <<>> =>
            LET steps == workflow_steps[workflow[s]]
            IN  \A j, k \in DOMAIN steps : j < k /\ steps[j] = s => steps[k] \in completed

\* The prediction follows the work that is left: what lies ahead and is not done, and something
\* as long as there is any (agent_step_graph.py, predict_next_steps).
PredictionsFollowWork == PredictionIsAhead /\ PredictsWhileWorkRemains

\* An agent's turn does not recede: the distance from a step to the agent's next step only grows
\* when that next step is done, which makes the one after it the next.
TurnsComeCloser ==
    [][UNCHANGED graph \/ \A s \in KnownSteps, a \in Agents :
          LET before == StepsToExecution(a, s)
              after  == StepsToExecution(a, s)'
          IN  before # None /\ FutureUncompletedSteps(s)[before] \notin completed' =>
                  after # None /\ after <= before]_vars

\* The cut to max_decisions never keeps an object of a later step and drops one an earlier step
\* needs, for the weights and the top_k of the source (3).
NearestStepFirst ==
    \A s \in KnownSteps :
        LET next == PredictNextSteps(s)
        IN  \A decisions \in PossibleDecisions(next) :
                \A o \in decisions, q \in Candidates(next) \ decisions :
                    Min(RanksOf(next, o)) <= Min(RanksOf(next, q))
=============================================================================
