--------------------------- MODULE SessionPrefetch ---------------------------
(***************************************************************************)
(* SessionPrefetchPolicy (policies/prefetch/session_prefetch.py) over a    *)
(* prefix tree that other threads change: a prediction searches the tree   *)
(* once for each recent prompt of its session, a step per search.  The     *)
(* tree is taken for what PrefixTree promises when no block is registered  *)
(* a second time: a search finds the blocks whose tokens begin the prompt. *)
(***************************************************************************)
EXTENDS Naturals, FiniteSets, SequencesExt

CONSTANTS
    Sessions, Objects,
    Prompts,        \* token lists of requests
    Spans,          \* token lists blocks are registered with
    HistorySize,
    TopK,           \* top_k, or the depth of an AdaptivePrefetchPolicy around it if that is less
    MaxRequests,    \* bound: completed requests
    MaxChanges,     \* bound: registrations and removals
    None

VARIABLES
    histories,      \* recent prompts of each session, the oldest first
    tree,           \* the prefix each block is registered with, or None
    asking,         \* the session of the prediction that is being made, or None
    left,           \* prompts it has still to search for, the next one last
    best,           \* decisions_by_id: the longest match of each block, 0 for none
    decisions,      \* blocks the last prediction named
    log,            \* history: all prompts of each session
    recent,         \*   its last prompts when the prediction began
    during,         \*   what was in the tree at some moment of the prediction
    throughout,     \*   and what was there all the time
    requests, changes

history == <<log, recent, during, throughout>>
vars == <<histories, tree, asking, left, best, decisions, history, requests, changes>>

Registered == {r \in Objects \X Spans : tree[r[1]] = r[2]}

TypeOK ==
    /\ histories \in [Sessions -> BoundedSeq(Prompts, HistorySize)]
    /\ tree \in [Objects -> Spans \cup {None}]
    /\ asking \in Sessions \cup {None}
    /\ ToSet(left) \subseteq Prompts
    /\ DOMAIN best = Objects /\ \A o \in Objects : best[o] \in {0} \cup {Len(p) : p \in Spans}
    /\ decisions \subseteq Objects
    /\ \A o \in decisions : best[o] # 0

Init ==
    /\ histories = [s \in Sessions |-> <<>>]
    /\ tree = [o \in Objects |-> None]
    /\ asking = None /\ left = <<>>
    /\ best = [o \in Objects |-> 0] /\ decisions = {}
    /\ log = [s \in Sessions |-> <<>>] /\ recent = {}
    /\ during = {} /\ throughout = {}
    /\ requests = 0 /\ changes = 0

-----------------------------------------------------------------------------
(* Other threads *)

\* Bugs: a list without a limit; a list that is full once and for all.
RememberedAll(h, p) == Append(h, p)

RememberedFirst(h, p) == IF Len(h) = HistorySize THEN h ELSE Append(h, p)

\* A deque with a maximal length drops its oldest prompt.
Remembered(h, p) == IF Len(h) = HistorySize THEN Append(Tail(h), p) ELSE Append(h, p)

\* on_request_completed.  A prediction of the same session that has prompts left raises
\* RuntimeError at the next one: the deque was mutated during iteration.
Complete(s, p) ==
    /\ requests < MaxRequests
    /\ histories' = [histories EXCEPT ![s] = Remembered(@, p)]
    /\ log' = [log EXCEPT ![s] = Append(@, p)]
    /\ requests' = requests + 1
    /\ IF s = asking /\ left # <<>>
       THEN asking' = None /\ left' = <<>> /\ best' = [o \in Objects |-> 0]
       ELSE UNCHANGED <<asking, left, best>>
    /\ UNCHANGED <<tree, decisions, recent, during, throughout, changes>>

Register(o, p) ==
    /\ tree[o] = None /\ changes < MaxChanges
    /\ tree' = [tree EXCEPT ![o] = p]
    /\ during' = during \cup {<<o, p>>}
    /\ changes' = changes + 1
    /\ UNCHANGED <<histories, asking, left, best, decisions, log, recent, throughout, requests>>

Unregister(o) ==
    /\ tree[o] # None /\ changes < MaxChanges
    /\ tree' = [tree EXCEPT ![o] = None]
    /\ throughout' = throughout \ {<<o, tree[o]>>}
    /\ changes' = changes + 1
    /\ UNCHANGED <<histories, asking, left, best, decisions, log, recent, during, requests>>

-----------------------------------------------------------------------------
(* predict_prefetch *)

\* The last prompts of a session, told from all of them.
Recent(s) == {log[s][j] : j \in {i \in DOMAIN log[s] : i > Len(log[s]) - HistorySize}}

\* The dictionary and the list of decisions are new.
BeginPredict(s) ==
    /\ asking = None /\ histories[s] # <<>>
    /\ asking' = s
    /\ left' = histories[s]
    /\ best' = [o \in Objects |-> 0] /\ decisions' = {}
    /\ recent' = Recent(s) /\ during' = Registered /\ throughout' = Registered
    /\ UNCHANGED <<histories, tree, log, requests, changes>>

\* The length of the match of a block with a prompt, 0 if it has none.
Match(o, p) == IF tree[o] # None /\ IsPrefix(tree[o], p) THEN Len(tree[o]) ELSE 0

\* A bug: the search for the newest prompt only.
SearchNewest ==
    /\ asking # None /\ left # <<>>
    /\ best' = [o \in Objects |-> Match(o, Last(left))]
    /\ left' = <<>>
    /\ UNCHANGED <<histories, tree, asking, decisions, history, requests, changes>>

Search ==
    /\ asking # None /\ left # <<>>
    /\ best' = [o \in Objects |-> IF Match(o, Last(left)) > best[o] THEN Match(o, Last(left)) ELSE best[o]]
    /\ left' = Front(left)
    /\ UNCHANGED <<histories, tree, asking, decisions, history, requests, changes>>

\* The tree changes while it is searched, here at some moment of the prediction: RuntimeError, a set
\* changed during iteration.
SearchRaises ==
    /\ asking # None /\ left # <<>>
    /\ during # throughout
    /\ asking' = None /\ left' = <<>> /\ best' = [o \in Objects |-> 0]
    /\ UNCHANGED <<histories, tree, decisions, history, requests, changes>>

\* The first top_k after sorting by length; equal lengths come in any order.
TopMatches ==
    LET found == {o \in Objects : best[o] > 0} IN
    {D \in SUBSET found :
        /\ Cardinality(D) = (IF Cardinality(found) < TopK THEN Cardinality(found) ELSE TopK)
        /\ \A o \in D, n \in found \ D : best[o] >= best[n]}

Predict ==
    /\ asking # None /\ left = <<>>
    /\ decisions' \in TopMatches
    /\ asking' = None
    /\ UNCHANGED <<histories, tree, left, best, history, requests, changes>>

-----------------------------------------------------------------------------

Next ==
    \/ \E s \in Sessions : BeginPredict(s) \/ (\E p \in Prompts : Complete(s, p))
    \/ \E o \in Objects : Unregister(o) \/ (\E p \in Spans : Register(o, p))
    \/ Search \/ SearchRaises
    \/ Predict

Spec == Init /\ [][Next]_vars

\* The lengths at which a block of R matches the session that was asked for.
Matches(R, o) == {Len(r[2]) : r \in {q \in R : q[1] = o /\ \E p \in recent : IsPrefix(q[2], p)}}

\* A block a prediction names was registered, at some moment of it, with a prefix of a recent
\* prompt of that session, of the length the block is ranked by.
PredictsOwnHistory ==
    [][asking # None /\ decisions' # {} =>
          \A o \in decisions' : best[o] \in Matches(during, o)]_vars

\* A block that was registered all the time with a prefix of a recent prompt is left out only for
\* top_k others with matches at least as long.
LongestMatchesWin ==
    [][asking # None /\ left = <<>> /\ asking' = None =>
          \A o \in Objects \ decisions' : \A n \in Matches(throughout, o) :
              Cardinality(decisions') = TopK /\ \A d \in decisions' : best[d] >= n]_vars
=============================================================================
