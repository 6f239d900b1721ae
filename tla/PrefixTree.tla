----------------------------- MODULE PrefixTree -----------------------------
(***************************************************************************)
(* PrefixTree (metadata/prefix_tree.py): a trie over token ids that finds  *)
(* KV blocks by prefix, shared by threads without a lock.  A thread can    *)
(* lose the interpreter at a call or at the end of a turn of a loop; what  *)
(* runs between two such points is a step.                                 *)
(***************************************************************************)
EXTENDS Naturals, Sequences, FiniteSets, SequencesExt

CONSTANTS
    Threads,
    Writers,        \* the threads that insert and remove; the others search
    Objects,        \* KV block ids
    Tokens,
    Strings,        \* the token ids of blocks and queries
    MaxLength,      \* bound: the longest of them
    NumNodes,       \* bound: nodes alive at a time
    Overlap,        \* inserts overlap with other inserts and removes
    Rewrites,       \* blocks are inserted again with other tokens
    None

Nodes   == 1..NumNodes
Root    == 1
Matches == Objects \X (1..MaxLength)

ASSUME TreeAssumption ==
    /\ Writers \subseteq Threads
    /\ \A s \in Strings : s \in Seq(Tokens) /\ Len(s) \in 1..MaxLength
    /\ MaxLength \in Nat \ {0} /\ NumNodes \in Nat \ {0}
    /\ Overlap \in BOOLEAN /\ Rewrites \in BOOLEAN
    /\ None \notin Nodes /\ None \notin Objects /\ None \notin Strings

VARIABLES
    children,       \* the children of each node by token
    object_ids,     \* the blocks that end at each node
    tokens,         \* _object_to_tokens
    pc,             \* where each thread is
    object,         \* locals of its call: the block,
    string,         \*   its tokens or those of the query,
    depth,          \*   the turns of the loop over them,
    node,           \*   the node reached,
    path,           \*   the parents passed by remove,
    seen,           \*   object_ids of the node when its iteration began,
    found,          \*   and the matches
    must, may       \* history: what a search has to find and may find

tree    == <<children, object_ids>>
call    == <<object, string, depth, node, path, seen, found>>
history == <<must, may>>
vars    == <<children, object_ids, tokens, pc, object, string, depth, node,
             path, seen, found, must, may>>

Places == {"idle", "insert", "attach", "register", "descend", "step", "prune", "search", "collect"}

TypeOK ==
    /\ children \in [Nodes -> [Tokens -> Nodes \cup {None}]]
    /\ object_ids \in [Nodes -> SUBSET Objects]
    /\ tokens \in [Objects -> Strings \cup {None}]
    /\ pc \in [Threads -> Places]
    /\ object \in [Threads -> Objects \cup {None}]
    /\ string \in [Threads -> Strings \cup {<<>>}]
    /\ depth \in [Threads -> 0..MaxLength]
    /\ node \in [Threads -> Nodes]
    /\ path \in [Threads -> Seq(Nodes)] /\ \A t \in Threads : Len(path[t]) <= depth[t] + 1
    /\ seen \in [Threads -> SUBSET Objects]
    /\ found \in [Threads -> SUBSET Matches]
    /\ must \in [Threads -> SUBSET Matches] /\ may \in [Threads -> SUBSET Matches]

Init ==
    /\ children = [n \in Nodes |-> [k \in Tokens |-> None]]
    /\ object_ids = [n \in Nodes |-> {}]
    /\ tokens = [o \in Objects |-> None]
    /\ pc = [t \in Threads |-> "idle"]
    /\ object = [t \in Threads |-> None]
    /\ string = [t \in Threads |-> <<>>]
    /\ depth = [t \in Threads |-> 0]
    /\ node = [t \in Threads |-> Root]
    /\ path = [t \in Threads |-> <<>>]
    /\ seen = [t \in Threads |-> {}]
    /\ found = [t \in Threads |-> {}]
    /\ must = [t \in Threads |-> {}]
    /\ may = [t \in Threads |-> {}]

-----------------------------------------------------------------------------
Begin(t, place, o, s) ==
    /\ pc[t] = "idle"
    /\ pc' = [pc EXCEPT ![t] = place]
    /\ object' = [object EXCEPT ![t] = o]
    /\ string' = [string EXCEPT ![t] = s]
    /\ UNCHANGED <<depth, node, path, seen, found>>

Goto(t, place) == pc' = [pc EXCEPT ![t] = place] /\ UNCHANGED call

\* The loop over the tokens goes on at the child.
Move(t, n, place) ==
    /\ node' = [node EXCEPT ![t] = n]
    /\ depth' = [depth EXCEPT ![t] = @ + 1]
    /\ pc' = [pc EXCEPT ![t] = place]
    /\ UNCHANGED <<object, string>>

\* The call ends, by return or by an exception, and its locals go.
Return(t) ==
    /\ pc' = [pc EXCEPT ![t] = "idle"]
    /\ object' = [object EXCEPT ![t] = None]
    /\ string' = [string EXCEPT ![t] = <<>>]
    /\ depth' = [depth EXCEPT ![t] = 0]
    /\ node' = [node EXCEPT ![t] = Root]
    /\ path' = [path EXCEPT ![t] = <<>>]
    /\ seen' = [seen EXCEPT ![t] = {}]
    /\ found' = [found EXCEPT ![t] = {}]

AtEnd(t) == depth[t] = Len(string[t])
Token(t) == string[t][depth[t] + 1]
Child(t) == children[node[t]][Token(t)]

\* A node is free unless it is reachable from the root or from a thread's locals: a set that
\* holds these and the children of its nodes can do without it.
Held == {Root} \cup UNION {{node[t]} \cup Range(path[t]) : t \in Threads}
Closed(S) == Held \subseteq S /\ \A n \in S, k \in Tokens : children[n][k] \in S \cup {None}
Free  == UNION {Nodes \ S : S \in {T \in SUBSET Nodes : Closed(T)}}

-----------------------------------------------------------------------------
(* insert; no id is inserted or removed by two threads at a time *)

Undisturbed(o, places) == \A u \in Writers : pc[u] \notin places /\ object[u] # o

BeginInsert(t, o, s) ==
    /\ Undisturbed(o, IF Overlap THEN {} ELSE Places \ {"idle"})
    /\ Rewrites \/ tokens[o] \in {None, s}
    /\ Begin(t, "insert", o, s)
    /\ may' = [u \in Threads |-> IF pc[u] \in {"search", "collect"} /\ IsPrefix(s, string[u])
                                 THEN may[u] \cup {<<o, Len(s)>>} ELSE may[u]]
    /\ UNCHANGED <<tree, tokens, must>>

InsertMove(t) ==
    /\ pc[t] = "insert" /\ ~AtEnd(t)
    /\ Child(t) # None
    /\ Move(t, Child(t), "insert")
    /\ UNCHANGED <<tree, tokens, path, seen, found, history>>

\* The token has no child; the call of _Node comes before the assignment.
NewNode(t) ==
    /\ pc[t] = "insert" /\ ~AtEnd(t)
    /\ Child(t) = None
    /\ Goto(t, "attach")
    /\ UNCHANGED <<tree, tokens, history>>

Attach(t) ==
    /\ pc[t] = "attach"
    /\ Free # {}
    /\ LET new == CHOOSE n \in Free : \A m \in Free : n <= m IN
          /\ children' = [children EXCEPT ![new] = [k \in Tokens |-> None],
                                          ![node[t]][Token(t)] = new]
          /\ object_ids' = [object_ids EXCEPT ![new] = {}]
          /\ Move(t, new, "insert")
    /\ UNCHANGED <<tokens, path, seen, found, history>>

AddId(t) ==
    /\ pc[t] = "insert" /\ AtEnd(t)
    /\ object_ids' = [object_ids EXCEPT ![node[t]] = @ \cup {object[t]}]
    /\ Goto(t, "register")
    /\ UNCHANGED <<children, tokens, history>>

Register(t) ==
    /\ pc[t] = "register"
    /\ tokens' = [tokens EXCEPT ![object[t]] = string[t]]
    /\ Return(t)
    /\ UNCHANGED <<tree, history>>

-----------------------------------------------------------------------------
(* remove *)

BeginRemove(t, o) ==
    /\ Undisturbed(o, IF Overlap THEN {} ELSE {"insert", "attach", "register"})
    /\ tokens[o] # None
    /\ Begin(t, "descend", o, tokens[o])
    /\ tokens' = [tokens EXCEPT ![o] = None]
    /\ must' = [u \in Threads |-> {m \in must[u] : m[1] # o}]
    /\ UNCHANGED <<tree, may>>

\* Mutant: The child goes on the path with its parent.
DescendTwice(t) ==
    /\ pc[t] = "descend" /\ ~AtEnd(t)
    /\ Child(t) # None
    /\ path' = [path EXCEPT ![t] = @ \o <<node[t], Child(t)>>]
    /\ pc' = [pc EXCEPT ![t] = "step"]
    /\ UNCHANGED <<tree, tokens, object, string, depth, node, seen, found, history>>

\* The node is appended to the path, a call, before the child is read again.
Descend(t) ==
    /\ pc[t] = "descend" /\ ~AtEnd(t)
    /\ Child(t) # None
    /\ path' = [path EXCEPT ![t] = Append(@, node[t])]
    /\ pc' = [pc EXCEPT ![t] = "step"]
    /\ UNCHANGED <<tree, tokens, object, string, depth, node, seen, found, history>>

Step(t) ==
    /\ pc[t] = "step"
    /\ Child(t) # None
    /\ Move(t, Child(t), "descend")
    /\ UNCHANGED <<tree, tokens, path, seen, found, history>>

\* Mutant: The block stays at its node.
DiscardNothing(t) ==
    /\ pc[t] = "descend" /\ AtEnd(t)
    /\ Goto(t, "prune")
    /\ UNCHANGED <<tree, tokens, history>>

Discard(t) ==
    /\ pc[t] = "descend" /\ AtEnd(t)
    /\ object_ids' = [object_ids EXCEPT ![node[t]] = @ \ {object[t]}]
    /\ Goto(t, "prune")
    /\ UNCHANGED <<children, tokens, history>>

\* Mutant: A node without children is taken for empty.
Childless(n) == \A k \in Tokens : children[n][k] = None

Empty(n) == object_ids[n] = {} /\ \A k \in Tokens : children[n][k] = None

\* The token between the last parent on the path and its child.
LastToken(t) == string[t][Len(path[t])]
LastChild(t) == children[Last(path[t])][LastToken(t)]

\* Mutant: Only the last node is looked at.
PruneLeaf(t) ==
    /\ pc[t] = "prune" /\ path[t] # <<>>
    /\ LastChild(t) # None /\ Empty(LastChild(t))
    /\ children' = [children EXCEPT ![Last(path[t])][LastToken(t)] = None]
    /\ path' = [path EXCEPT ![t] = <<>>]
    /\ UNCHANGED <<object_ids, tokens, pc, object, string, depth, node, seen, found, history>>

Prune(t) ==
    /\ pc[t] = "prune" /\ path[t] # <<>>
    /\ LastChild(t) # None /\ Empty(LastChild(t))
    /\ children' = [children EXCEPT ![Last(path[t])][LastToken(t)] = None]
    /\ path' = [path EXCEPT ![t] = Front(@)]
    /\ UNCHANGED <<object_ids, tokens, pc, object, string, depth, node, seen, found, history>>

\* The walk or the pruning stops: at the end of the path, at a node in use, or
\* because another thread has taken the child away (a KeyError, or False).
EndRemove(t) ==
    /\ \/ pc[t] \in {"descend", "step"} /\ ~AtEnd(t) /\ Child(t) = None
       \/ pc[t] = "prune" /\ path[t] = <<>>
       \/ pc[t] = "prune" /\ path[t] # <<>> /\ LastChild(t) = None
       \/ pc[t] = "prune" /\ path[t] # <<>> /\ LastChild(t) # None /\ ~Empty(LastChild(t))
    /\ Return(t)
    /\ UNCHANGED <<tree, tokens, history>>

-----------------------------------------------------------------------------
(* search *)

Match(o) == <<o, Len(tokens[o])>>

BeginSearch(t, s) ==
    /\ Begin(t, "search", None, s)
    /\ LET matches == {Match(o) : o \in {p \in Objects : tokens[p] # None /\ IsPrefix(tokens[p], s)}}
           begun   == {<<object[u], Len(string[u])>> :
                         u \in {w \in Writers : object[w] # None /\ IsPrefix(string[w], s)}}
       IN  must' = [must EXCEPT ![t] = matches] /\ may' = [may EXCEPT ![t] = matches \cup begun]
    /\ UNCHANGED <<tree, tokens>>

SearchMove(t) ==
    /\ pc[t] = "search" /\ ~AtEnd(t)
    /\ Child(t) # None
    /\ seen' = [seen EXCEPT ![t] = object_ids[Child(t)]]
    /\ Move(t, Child(t), IF object_ids[Child(t)] = {} THEN "search" ELSE "collect")
    /\ UNCHANGED <<tree, tokens, path, found, history>>

\* The blocks of the node that are still to be visited.
Rest(t) == {o \in object_ids[node[t]] : <<o, depth[t]>> \notin found[t]}

SameSize(t) == Cardinality(object_ids[node[t]]) = Cardinality(seen[t])

Collect(t) ==
    /\ pc[t] = "collect" /\ SameSize(t)
    /\ \E o \in Rest(t) : found' = [found EXCEPT ![t] = @ \cup {<<o, depth[t]>>}]
    /\ UNCHANGED <<tree, tokens, pc, object, string, depth, node, path, seen, history>>

CollectEnd(t) ==
    /\ pc[t] = "collect" /\ SameSize(t)
    /\ Rest(t) \cap seen[t] = {}
    /\ Goto(t, "search")
    /\ UNCHANGED <<tree, tokens, history>>

\* Mutant: An iteration that a writer disturbed starts over.
CollectAgain(t) ==
    /\ pc[t] = "collect" /\ ~SameSize(t)
    /\ seen' = [seen EXCEPT ![t] = object_ids[node[t]]]
    /\ found' = [found EXCEPT ![t] = {m \in @ : m[2] # depth[t]}]
    /\ UNCHANGED <<tree, tokens, pc, object, string, depth, node, path, history>>

\* RuntimeError: the set changed its size during the iteration.
CollectRaises(t) ==
    /\ pc[t] = "collect" /\ ~SameSize(t)
    /\ Return(t)
    /\ UNCHANGED <<tree, tokens, history>>

EndSearch(t) ==
    /\ pc[t] = "search"
    /\ ~AtEnd(t) => Child(t) = None
    /\ Return(t)
    /\ UNCHANGED <<tree, tokens, history>>

-----------------------------------------------------------------------------
Inserting(t) == InsertMove(t) \/ NewNode(t) \/ Attach(t) \/ AddId(t) \/ Register(t)
Removing(t) == Descend(t) \/ Step(t) \/ Discard(t) \/ Prune(t) \/ EndRemove(t)
Searching(t) == SearchMove(t) \/ Collect(t) \/ CollectEnd(t) \/ CollectRaises(t) \/ EndSearch(t)

Turn(t) == Inserting(t) \/ Removing(t) \/ Searching(t)

Next ==
    \/ \E t \in Writers, o \in Objects, s \in Strings : BeginInsert(t, o, s)
    \/ \E t \in Writers, o \in Objects : BeginRemove(t, o)
    \/ \E t \in Threads \ Writers, s \in Strings : BeginSearch(t, s)
    \/ \E t \in Threads : Turn(t)

Spec == Init /\ [][Next]_vars

-----------------------------------------------------------------------------
(* Properties. *)

\* The ways of a string through the tree, one at most: the root, then a node for each token.
Ways(s) ==
    {way \in [0..Len(s) -> Nodes] :
        way[0] = Root /\ \A d \in 1..Len(s) : children[way[d - 1]][s[d]] = way[d]}
Ends(s) == {way[Len(s)] : way \in Ways(s)}

Quiet == \A t \in Writers : pc[t] = "idle"

\* Between inserts and removes a block is at no node but that of its tokens:
\* search finds only blocks whose token ids are a prefix of the query.
FoundIsRegistered ==
    Quiet => \A s \in Strings : \A n \in Ends(s) : \A o \in object_ids[n] : tokens[o] = s

\* Between inserts and removes search finds every registered block.
RegisteredIsFound ==
    Quiet => \A o \in Objects : tokens[o] # None =>
                 \E n \in Ends(tokens[o]) : o \in object_ids[n]

\* Between inserts and removes every node but the root leads to a block: remove
\* prunes what it empties, at any depth, and nothing that is in use.
NoDeadNodes == Quiet => \A s \in Strings : \A n \in Ends(s) : ~Empty(n)

\* Between inserts and removes the tree holds the registered blocks exactly,
\* each under its tokens, and nothing else.
TreeIsExact == FoundIsRegistered /\ RegisteredIsFound /\ NoDeadNodes

\* A search that returns found the blocks that were registered all through the
\* call, and only blocks registered, or being inserted or removed, in its time.
SearchIsCorrect ==
    [][\A t \in Threads : EndSearch(t) => must[t] \subseteq found[t] /\ found[t] \subseteq may[t]]_vars

\* What is left of a turn at each place.
Stage == [p \in Places |-> IF p = "idle" THEN 0 ELSE IF p \in {"insert", "descend", "collect"} THEN 2 ELSE 1]

\* The call has a token less to read, or less of its turn before it, or one node less to look
\* at on its way back, or one block less to visit at its node.
GetsOn(t) ==
    /\ string'[t] = string[t]
    /\ \/ depth[t] < depth'[t] /\ depth'[t] <= Len(string[t])
       \/ /\ depth'[t] = depth[t]
          /\ \/ Stage[pc'[t]] < Stage[pc[t]]
             \/ /\ pc'[t] = pc[t]
                /\ \/ Len(path'[t]) < Len(path[t]) /\ found'[t] = found[t]
                   \/ path'[t] = path[t] /\ found[t] \subseteq found'[t] /\ found'[t] # found[t]

\* Insert, search and remove are wait-free: each step of a call ends it or brings it closer to
\* its end, however the tree changes under it, and no other thread sends it back.
WalksGetOn ==
    [][\A t \in Threads : pc[t] # "idle" =>
          \/ pc'[t] = "idle" \/ GetsOn(t)
          \/ ~Turn(t) /\ UNCHANGED <<pc[t], object[t], string[t], depth[t], node[t], path[t], seen[t], found[t]>>]_vars
=============================================================================
