-------------------------- MODULE PrefixTreeProofs --------------------------
(***************************************************************************)
(* Proofs about PrefixTree: the calls stay well formed, and while inserts  *)
(* do not overlap with other writers the tree holds the registered blocks  *)
(* exactly and a search that runs beside the writers finds what it has to  *)
(* and nothing else, for any number of threads, blocks, tokens and strings.*)
(***************************************************************************)
EXTENDS PrefixTree, WellFoundedInduction, TLAPS

-----------------------------------------------------------------------------
(* The inductive invariant.                                                 *)

Inserts == {"insert", "attach", "register"}
Removes == {"descend", "step", "prune"}

\* What the place of a call says about its locals.
CallOK(t) ==
    /\ IF t \in Writers THEN pc[t] \in {"idle"} \cup Inserts \cup Removes
       ELSE pc[t] \in {"idle", "search", "collect"}
    /\ IF pc[t] = "idle"
       THEN /\ object[t] = None /\ string[t] = <<>> /\ depth[t] = 0
            /\ node[t] = Root /\ path[t] = <<>> /\ found[t] = {}
       ELSE string[t] \in Strings /\ depth[t] <= Len(string[t])
    /\ pc[t] \in Inserts \cup Removes => object[t] \in Objects
    /\ pc[t] \in {"attach", "step"} => depth[t] < Len(string[t])
    /\ pc[t] = "collect" => depth[t] > 0
    /\ pc[t] \in {"search", "collect"} \cup Inserts => path[t] = <<>>
    /\ pc[t] = "descend" => Len(path[t]) = depth[t]
    /\ pc[t] = "step" => Len(path[t]) = depth[t] + 1
    /\ pc[t] = "prune" => depth[t] = Len(string[t]) /\ Len(path[t]) <= depth[t]

CallsOK == \A t \in Threads : CallOK(t)

\* An insert is alone among the writers, and no two writers have one block.
Apart ==
    \A t, u \in Writers : t # u =>
        /\ pc[t] \in Inserts => pc[u] = "idle"
        /\ object[t] # None => object[t] # object[u]

\* The way of the first d tokens of s.
Way(s, d, w) ==
    /\ w \in [0..d -> Nodes] /\ w[0] = Root
    /\ \A i \in 1..d : children[w[i - 1]][s[i]] = w[i]

Linked(n) == \E m \in Nodes, k \in Tokens : children[m][k] = n

\* The nodes form a tree of ways of the strings; what was cut off is empty.
Forest ==
    /\ \A m, n \in Nodes, j, k \in Tokens :
          children[m][j] # None /\ children[m][j] = children[n][k] => m = n /\ j = k
    /\ ~Linked(Root)
    /\ \A n \in Nodes \ {Root} : ~Linked(n) => Empty(n)
    /\ \A n \in Nodes : Linked(n) =>
          \E s \in Strings : \E d \in 1..Len(s) : \E w \in [0..d -> Nodes] : Way(s, d, w) /\ w[d] = n

\* The block o is found under s.
Stored(o, s) == \E w \in [0..Len(s) -> Nodes] : Way(s, Len(s), w) /\ o \in object_ids[w[Len(s)]]

\* A block under s is registered with s, or a call is about to see to that or to take it away.
Owned(o, s) ==
    \/ tokens[o] = s
    \/ \E t \in Writers : object[t] = o /\ string[t] = s /\ pc[t] \in {"register", "descend", "step"}

BlocksOwned == \A o \in Objects, s \in Strings : Stored(o, s) => Owned(o, s)

BlocksStored == \A o \in Objects : tokens[o] # None => Stored(o, tokens[o])

\* An insert has come as far as its depth, and its block was not registered with other tokens.
InsertOK(t) ==
    /\ \E w \in [0..depth[t] -> Nodes] : Way(string[t], depth[t], w) /\ w[depth[t]] = node[t]
    /\ pc[t] = "attach" => Child(t) = None
    /\ pc[t] = "register" => depth[t] = Len(string[t]) /\ object[t] \in object_ids[node[t]]
    /\ tokens[object[t]] \in {None, string[t]}

\* A remove goes down to its block and comes back; others may have cut its path on its way back.
RemoveOK(t) ==
    /\ tokens[object[t]] = None
    /\ pc[t] \in {"descend", "step"} =>
          \E w \in [0..Len(string[t]) -> Nodes] :
              /\ Way(string[t], Len(string[t]), w)
              /\ object[t] \in object_ids[w[Len(string[t])]]
              /\ node[t] = w[depth[t]]
              /\ \A i \in DOMAIN path[t] : path[t][i] = w[i - 1]
    /\ pc[t] = "prune" /\ path[t] # <<>> =>
          /\ path[t][1] = Root
          /\ \A i \in 1..(Len(path[t]) - 1) :
                Linked(path[t][i + 1]) => children[path[t][i]][string[t][i]] = path[t][i + 1]

WritesOK ==
    \A t \in Writers : /\ pc[t] \in Inserts => InsertOK(t)
                       /\ pc[t] \in Removes => RemoveOK(t)

\* A node that is empty is new to its insert, or a remove is about to prune it.
Minded(n) ==
    \E t \in Writers : \/ pc[t] \in {"insert", "attach"} /\ node[t] = n
                       \/ pc[t] = "prune" /\ path[t] # <<>> /\ LastChild(t) = n

DeadMinded == \A n \in Nodes : Linked(n) /\ Empty(n) => Minded(n)

Shape == TypeOK /\ CallsOK
TInv == Shape /\ Apart /\ Forest /\ BlocksOwned /\ BlocksStored /\ WritesOK /\ DeadMinded

-----------------------------------------------------------------------------
(* Ways.                                                                    *)

\* A set of numbers has a least one.
LEMMA Least == ASSUME NEW T \in SUBSET Nat, T # {} PROVE \E i \in T : \A j \in T : i <= j
<1>1. \E i \in T : \A j \in T : ~(<<j, i>> \in OpToRel(<, Nat))
  BY NatLessThanWellFounded, WFMin
<1>2. \A i, j \in T : ~(<<j, i>> \in OpToRel(<, Nat)) => i <= j
  BY DEF OpToRel
<1>3. QED
  BY <1>1, <1>2

\* Two ways of one string agree as far as both go.
LEMMA WaysAgree ==
    ASSUME NEW s, NEW d \in Nat, NEW e \in Nat, NEW w, NEW v, Way(s, d, w), Way(s, e, v), d <= e
    PROVE  \A i \in 0..d : w[i] = v[i]
<1> DEFINE T == {i \in 0..d : w[i] # v[i]}
<1>1. SUFFICES ASSUME T # {} PROVE FALSE
  OBVIOUS
<1>2. PICK i \in T : \A j \in T : i <= j
  <2>1. T \in SUBSET Nat
    OBVIOUS
  <2> HIDE DEF T
  <2>2. QED
    BY <1>1, <2>1, Least
<1>3. i \in 1..d
  BY DEF Way
<1>4. w[i - 1] = v[i - 1]
  BY <1>2, <1>3
<1>5. children[w[i - 1]][s[i]] = w[i] /\ children[v[i - 1]][s[i]] = v[i]
  <2>1. i \in 1..e
    BY <1>3
  <2>2. QED
    BY <1>3, <2>1 DEF Way
<1>6. w[i] # v[i]
  BY <1>2
<1>7. QED
  BY <1>4, <1>5, <1>6

\* The longer way passes the end of the shorter one.
LEMMA WaysPass ==
    ASSUME NEW s, NEW d \in Nat, NEW e \in Nat, NEW w, NEW v, Way(s, d, w), Way(s, e, v), d <= e
    PROVE  v[d] = w[d]
<1>1. \A i \in 0..d : w[i] = v[i]
  BY WaysAgree
<1>2. d \in 0..d
  OBVIOUS
<1>3. QED
  BY <1>1, <1>2

\* Two ways to one node come from the root by the same tokens.
LEMMA WaysMeet ==
    ASSUME TreeAssumption, Forest, NEW d \in Nat, NEW e \in Nat, d <= e,
           NEW s \in [1..d -> Tokens], NEW r \in [1..e -> Tokens],
           NEW w \in [0..d -> Nodes], NEW v \in [0..e -> Nodes],
           Way(s, d, w), Way(r, e, v), w[d] = v[e]
    PROVE  d = e /\ s = r
<1>1. \A i \in 1..d : children[w[i - 1]][s[i]] = w[i] /\ w[i] # None /\ w[i - 1] \in Nodes /\ s[i] \in Tokens
  BY DEF Way, TreeAssumption
<1>2. \A i \in 1..e : children[v[i - 1]][r[i]] = v[i] /\ v[i] # None /\ v[i - 1] \in Nodes /\ r[i] \in Tokens
  BY DEF Way, TreeAssumption
<1>3. ASSUME NEW i \in 1..d, NEW j \in 1..e, w[i] = v[j] PROVE w[i - 1] = v[j - 1] /\ s[i] = r[j]
  <2>1. \A m, n \in Nodes, x, y \in Tokens :
           children[m][x] # None /\ children[m][x] = children[n][y] => m = n /\ x = y
    BY DEF Forest
  <2> HIDE DEF Forest
  <2>2. children[w[i - 1]][s[i]] = w[i] /\ w[i] # None /\ w[i - 1] \in Nodes /\ s[i] \in Tokens
    BY <1>1
  <2>3. children[v[j - 1]][r[j]] = v[j] /\ v[j - 1] \in Nodes /\ r[j] \in Tokens
    BY <1>2
  <2>4. QED
    BY <1>3, <2>1, <2>2, <2>3
<1> DEFINE T == {i \in Nat : i <= d /\ w[d - i] # v[e - i]}
<1>4. T = {}
  <2>1. SUFFICES ASSUME T # {} PROVE FALSE
    OBVIOUS
  <2>2. PICK i \in T : \A j \in T : i <= j
    <3>1. T \in SUBSET Nat
      OBVIOUS
    <3> HIDE DEF T
    <3>2. QED
      BY <2>1, <3>1, Least
  <2>3. i # 0
    OBVIOUS
  <2>4. i - 1 \in Nat /\ i - 1 <= d /\ i - 1 \notin T
    <3>1. i \in Nat /\ i <= d
      OBVIOUS
    <3> HIDE DEF T
    <3>2. QED
      BY <2>2, <2>3, <3>1
  <2>5. w[d - (i - 1)] = v[e - (i - 1)]
    BY <2>4
  <2>6. PICK a \in 1..d, b \in 1..e : a = d - (i - 1) /\ b = e - (i - 1)
    BY <2>3
  <2>7. a - 1 = d - i /\ b - 1 = e - i
    BY <2>6
  <2>8. QED
    BY <1>3, <2>5, <2>6, <2>7
<1>5. \A i \in Nat : i <= d => w[d - i] = v[e - i]
  BY <1>4
<1>6. d = e
  <2>1. SUFFICES ASSUME d < e PROVE FALSE
    OBVIOUS
  <2>2. v[e - d] = Root
    BY <1>5 DEF Way
  <2>3. e - d \in 1..e
    BY <2>1
  <2>4. \E m \in Nodes, k \in Tokens : children[m][k] = Root
    BY <1>2, <2>2, <2>3
  <2>5. QED
    BY <2>4 DEF Forest, Linked
<1>7. ASSUME NEW i \in 1..d PROVE s[i] = r[i]
  <2>1. d - i \in Nat /\ d - i <= d /\ d - (d - i) = i
    OBVIOUS
  <2>2. w[i] = v[i]
    BY <1>5, <1>6, <2>1
  <2>3. QED
    BY <1>3, <1>6, <2>2
<1>8. QED
  BY <1>6, <1>7

\* A node is at the end of one way only.
LEMMA OneWay ==
    ASSUME TreeAssumption, Forest, NEW s \in Strings, NEW r \in Strings, NEW w, NEW v,
           Way(s, Len(s), w), Way(r, Len(r), v), w[Len(s)] = v[Len(r)]
    PROVE  s = r
<1>1. /\ Len(s) \in Nat /\ Len(r) \in Nat /\ s \in [1..Len(s) -> Tokens] /\ r \in [1..Len(r) -> Tokens]
      /\ w \in [0..Len(s) -> Nodes] /\ v \in [0..Len(r) -> Nodes]
  BY DEF Way, TreeAssumption
<1>2. CASE Len(s) <= Len(r)
  BY <1>1, <1>2, WaysMeet
<1>3. CASE Len(r) <= Len(s)
  BY <1>1, <1>3, WaysMeet
<1>4. QED
  BY <1>1, <1>2, <1>3

\* What a way passes is not free.
LEMMA WayIsKept ==
    ASSUME NEW s \in Seq(Tokens), NEW d \in 0..Len(s), NEW w, Way(s, d, w), NEW S \in SUBSET Nodes, Closed(S),
           None \notin Nodes
    PROVE  \A i \in 0..d : w[i] \in S
<1> DEFINE T == {i \in 0..d : w[i] \notin S}
<1>0. d \in Nat
  OBVIOUS
<1>1. SUFFICES ASSUME T # {} PROVE FALSE
  OBVIOUS
<1>2. PICK i \in T : \A j \in T : i <= j
  <2>1. T \in SUBSET Nat
    BY <1>0
  <2> HIDE DEF T
  <2>2. QED
    BY <1>1, <2>1, Least
<1>3. i \in 1..d
  BY DEF Way, Closed, Held
<1>4. w[i - 1] \in S /\ s[i] \in Tokens
  BY <1>2, <1>3
<1>5. w[i] \in Nodes /\ children[w[i - 1]][s[i]] = w[i]
  BY <1>3 DEF Way
<1>6. QED
  BY <1>4, <1>5 DEF Closed
-----------------------------------------------------------------------------
(* The types, for overlapping inserts too.                                  *)

LEMMA ShapeInit == Init => Shape
BY TreeAssumption DEF Init, Shape, TypeOK, CallsOK, CallOK, Root, Nodes, Inserts, Removes, Places

\* A call that has tokens left has a next one.
LEMMA NextToken ==
    ASSUME Shape, NEW t \in Threads, pc[t] # "idle", ~AtEnd(t)
    PROVE  /\ depth[t] < Len(string[t]) /\ depth[t] + 1 \in 1..Len(string[t])
           /\ Len(string[t]) \in 1..MaxLength
           /\ Token(t) \in Tokens /\ node[t] \in Nodes /\ Child(t) \in Nodes \cup {None}
<1>1. string[t] \in Strings /\ depth[t] \in 0..MaxLength /\ depth[t] <= Len(string[t]) /\ node[t] \in Nodes
  BY DEF Shape, TypeOK, CallsOK, CallOK
<1>2. string[t] \in Seq(Tokens) /\ Len(string[t]) \in 1..MaxLength
  BY <1>1, TreeAssumption
<1>3. depth[t] < Len(string[t]) /\ depth[t] + 1 \in 1..Len(string[t])
  BY <1>1, <1>2 DEF AtEnd
<1>4. Token(t) \in Tokens
  BY <1>2, <1>3 DEF Token
<1>5. QED
  BY <1>1, <1>2, <1>3, <1>4 DEF Child, Shape, TypeOK

\* The node a thread gets is neither held nor the child of one that is not free.
LEMMA FreeNode ==
    ASSUME Free # {}, TreeAssumption
    PROVE  LET new == CHOOSE n \in Free : \A m \in Free : n <= m IN new \in Free /\ new \in Nodes
<1>1. Free \in SUBSET Nat /\ Free \subseteq Nodes
  BY DEF Free, Nodes
<1>2. PICK n \in Free : \A m \in Free : n <= m
  BY <1>1, Least
<1>3. QED
  BY <1>1, <1>2

\* A path without its last node.
LEMMA FrontOf ==
    ASSUME NEW S, NEW p \in Seq(S), p # <<>>
    PROVE  /\ Front(p) \in Seq(S) /\ Len(Front(p)) = Len(p) - 1 /\ Len(p) \in Nat \ {0}
           /\ Last(p) = p[Len(p)] /\ Last(p) \in S
           /\ \A i \in 1..(Len(p) - 1) : Front(p)[i] = p[i]
<1>1. PICK n \in Nat \ {0} : n = Len(p)
  OBVIOUS
<1>2. Last(p) = p[n] /\ Front(p) = SubSeq(p, 1, n - 1)
  BY <1>1 DEF Front, Last
<1>3. n - 1 \in Nat /\ n - 1 <= n /\ n \in 1..n /\ p \in [1..n -> S]
  BY <1>1
<1>4. Len(SubSeq(p, 1, n - 1)) = n - 1 /\ \A i \in 1..(n - 1) : SubSeq(p, 1, n - 1)[i] = p[i] /\ p[i] \in S
  BY <1>1, <1>3
<1>5. SubSeq(p, 1, n - 1) \in Seq(S)
  BY <1>1, <1>3
<1>6. QED
  BY <1>1, <1>2, <1>3, <1>4, <1>5

\* The calls keep well formed.
LEMMA ShapeStep == Shape /\ [Next]_vars => Shape'
<1> SUFFICES ASSUME Shape, [Next]_vars PROVE Shape'
  OBVIOUS
<1> USE TreeAssumption DEF Shape, TypeOK, CallsOK, CallOK, Inserts, Removes, Places, tree, call, history
<1>0. Root \in Nodes
  BY DEF Root, Nodes
<1>1. CASE UNCHANGED vars
  BY <1>1 DEF vars
<1>2. ASSUME NEW t \in Writers, NEW o \in Objects, NEW s \in Strings, BeginInsert(t, o, s) PROVE Shape'
  <2>1. Len(s) \in 1..MaxLength /\ <<o, Len(s)>> \in Matches
    BY DEF Matches
  <2>2. may' \in [Threads -> SUBSET Matches]
    BY <1>2, <2>1 DEF BeginInsert
  <2>3. TypeOK'
    BY <1>2, <2>2 DEF BeginInsert, Begin
  <2>4. ASSUME NEW u \in Threads PROVE CallOK(u)'
    BY <1>2, <2>1 DEF BeginInsert, Begin
  <2>5. QED
    BY <2>3, <2>4
<1>3. ASSUME NEW t \in Threads, InsertMove(t) PROVE Shape'
  <2>1. ~AtEnd(t) /\ pc[t] = "insert" /\ Child(t) \in Nodes /\ depth[t] + 1 \in 1..Len(string[t])
        /\ Len(string[t]) \in 1..MaxLength
    BY <1>3, NextToken DEF InsertMove
  <2>2. TypeOK'
    <3>1. /\ depth' = [depth EXCEPT ![t] = depth[t] + 1] /\ node' = [node EXCEPT ![t] = Child(t)]
          /\ pc' = [pc EXCEPT ![t] = "insert"]
          /\ UNCHANGED <<children, object_ids, tokens, object, string, path, seen, found, must, may>>
      BY <1>3 DEF InsertMove, Move
    <3>2. \A u \in Threads : Len(path[u]) \in Nat /\ Len(path'[u]) <= depth'[u] + 1
      BY <3>1
    <3>3. depth' \in [Threads -> 0..MaxLength] /\ node' \in [Threads -> Nodes] /\ pc' \in [Threads -> Places]
      BY <2>1, <3>1
    <3>4. QED
      BY <3>1, <3>2, <3>3
  <2>3. ASSUME NEW u \in Threads PROVE CallOK(u)'
    BY <1>3, <2>1 DEF InsertMove, Move
  <2>4. QED
    BY <2>2, <2>3
<1>4. ASSUME NEW t \in Threads, NewNode(t) PROVE Shape'
  BY <1>4, NextToken DEF NewNode, Goto
<1>5. ASSUME NEW t \in Threads, Attach(t) PROVE Shape'
  <2> DEFINE new == CHOOSE n \in Free : \A m \in Free : n <= m
  <2>1. new \in Nodes
    BY <1>5, FreeNode DEF Attach
  <2>2. Token(t) \in Tokens /\ node[t] \in Nodes /\ depth[t] + 1 \in 1..Len(string[t])
        /\ Len(string[t]) \in 1..MaxLength
    <3>1. pc[t] = "attach" /\ ~AtEnd(t)
      BY <1>5 DEF Attach, AtEnd
    <3> HIDE DEF Shape, TypeOK, CallsOK, CallOK
    <3>2. QED
      BY <3>1, NextToken
  <2> HIDE DEF new
  <2>3. /\ pc[t] = "attach" /\ Move(t, new, "insert") /\ UNCHANGED <<tokens, path, seen, found, must, may>>
        /\ children' = [children EXCEPT ![new] = [k \in Tokens |-> None], ![node[t]][Token(t)] = new]
        /\ object_ids' = [object_ids EXCEPT ![new] = {}]
    BY <1>5 DEF Attach, new
  <2>4. children' \in [Nodes -> [Tokens -> Nodes \cup {None}]]
    BY <2>1, <2>2, <2>3
  <2>5. TypeOK'
    <3>1. depth' = [depth EXCEPT ![t] = depth[t] + 1] /\ depth' \in [Threads -> 0..MaxLength]
      BY <2>2, <2>3 DEF Move
    <3>2. \A u \in Threads : path'[u] \in Seq(Nodes) /\ Len(path'[u]) <= depth'[u] + 1
      BY <2>3, <3>1
    <3>3. QED
      BY <2>1, <2>3, <2>4, <3>1, <3>2 DEF Move
  <2>6. ASSUME NEW u \in Threads PROVE CallOK(u)'
    BY <2>2, <2>3 DEF Move
  <2>7. QED
    BY <2>5, <2>6
<1>6. ASSUME NEW t \in Threads, AddId(t) PROVE Shape'
  <2>1. TypeOK'
    BY <1>6 DEF AddId, Goto
  <2>2. ASSUME NEW u \in Threads PROVE CallOK(u)'
    BY <1>6 DEF AddId, Goto, AtEnd
  <2>3. QED
    BY <2>1, <2>2
<1>7. ASSUME NEW t \in Threads, Register(t) PROVE Shape'
  <2>1. string[t] \in Strings
    BY <1>7 DEF Register
  <2>2. tokens' \in [Objects -> Strings \cup {None}] /\ UNCHANGED <<tree, history>>
    BY <1>7, <2>1 DEF Register
  <2>3. Return(t)
    BY <1>7 DEF Register
  <2>4. TypeOK'
    BY <1>0, <2>2, <2>3 DEF Return
  <2>5. ASSUME NEW u \in Threads PROVE CallOK(u)'
    BY <2>3 DEF Return
  <2>6. QED
    BY <2>4, <2>5
<1>8. ASSUME NEW t \in Writers, NEW o \in Objects, BeginRemove(t, o) PROVE Shape'
  <2>1. tokens[o] \in Strings
    BY <1>8 DEF BeginRemove
  <2>2. tokens' \in [Objects -> Strings \cup {None}] /\ must' \in [Threads -> SUBSET Matches]
    BY <1>8 DEF BeginRemove
  <2>3. TypeOK'
    BY <1>8, <2>1, <2>2 DEF BeginRemove, Begin
  <2>4. ASSUME NEW u \in Threads PROVE CallOK(u)'
    BY <1>8, <2>1 DEF BeginRemove, Begin
  <2>5. QED
    BY <2>3, <2>4
<1>9. ASSUME NEW t \in Threads, Descend(t) PROVE Shape'
  <2>1. pc[t] = "descend" /\ depth[t] < Len(string[t]) /\ node[t] \in Nodes
    BY <1>9, NextToken DEF Descend
  <2>2. path[t] \in Seq(Nodes) /\ Len(path[t]) = depth[t]
    BY <2>1
  <2>3. Append(path[t], node[t]) \in Seq(Nodes) /\ Len(Append(path[t], node[t])) = depth[t] + 1
    BY <2>1, <2>2
  <2>4. TypeOK'
    BY <1>9, <2>1, <2>3 DEF Descend
  <2>5. ASSUME NEW u \in Threads PROVE CallOK(u)'
    <3>1. CASE u = t
      <4>1. /\ pc'[t] = "step" /\ path'[t] = Append(path[t], node[t]) /\ string' = string /\ depth' = depth
            /\ object' = object
        BY <1>9 DEF Descend
      <4>2. QED
        BY <2>1, <2>3, <3>1, <4>1
    <3>2. CASE u # t
      BY <1>9, <3>2 DEF Descend
    <3>3. QED
      BY <3>1, <3>2
  <2>6. QED
    BY <2>4, <2>5
<1>10. ASSUME NEW t \in Threads, Step(t) PROVE Shape'
  <2>1. pc[t] = "step" /\ ~AtEnd(t)
    BY <1>10 DEF Step, AtEnd
  <2>2. Child(t) \in Nodes /\ depth[t] + 1 \in 1..Len(string[t]) /\ Len(string[t]) \in 1..MaxLength
    BY <1>10, <2>1, NextToken DEF Step
  <2>3. TypeOK'
    BY <1>10, <2>1, <2>2 DEF Step, Move
  <2>4. ASSUME NEW u \in Threads PROVE CallOK(u)'
    BY <1>10, <2>1, <2>2 DEF Step, Move
  <2>5. QED
    BY <2>3, <2>4
<1>11. ASSUME NEW t \in Threads, Discard(t) PROVE Shape'
  <2>1. TypeOK'
    BY <1>11 DEF Discard, Goto
  <2>2. ASSUME NEW u \in Threads PROVE CallOK(u)'
    BY <1>11 DEF Discard, Goto, AtEnd
  <2>3. QED
    BY <2>1, <2>2
<1>12. ASSUME NEW t \in Threads, Prune(t) PROVE Shape'
  <2>1. path[t] \in Seq(Nodes) /\ path[t] # <<>>
    BY <1>12 DEF Prune
  <2>2. /\ Front(path[t]) \in Seq(Nodes) /\ Len(Front(path[t])) = Len(path[t]) - 1
        /\ Len(path[t]) \in Nat \ {0} /\ Last(path[t]) \in Nodes
    <3> HIDE DEF Shape, TypeOK, CallsOK, CallOK
    <3>2. QED
      BY <2>1, FrontOf
  <2>3. string[t] \in Seq(Tokens) /\ Len(path[t]) <= Len(string[t]) /\ LastToken(t) \in Tokens
    BY <1>12, <2>2 DEF Prune, LastToken
  <2>4. children' \in [Nodes -> [Tokens -> Nodes \cup {None}]]
    BY <1>12, <2>2, <2>3 DEF Prune
  <2>5. QED
    BY <1>12, <2>1, <2>2, <2>4 DEF Prune
<1>13. ASSUME NEW t \in Threads, EndRemove(t) PROVE Shape'
  <2>1. Return(t) /\ UNCHANGED <<tree, tokens, history>>
    BY <1>13 DEF EndRemove
  <2>2. TypeOK'
    BY <1>0, <2>1 DEF Return
  <2>3. ASSUME NEW u \in Threads PROVE CallOK(u)'
    BY <2>1 DEF Return
  <2>4. QED
    BY <2>2, <2>3
<1>14. ASSUME NEW t \in Threads \ Writers, NEW s \in Strings, BeginSearch(t, s) PROVE Shape'
  <2>1. \A o \in Objects : tokens[o] # None => Match(o) \in Matches
    BY DEF Match, Matches
  <2>2. \A u \in Writers : object[u] # None => <<object[u], Len(string[u])>> \in Matches
    BY DEF Matches
  <2>3. must' \in [Threads -> SUBSET Matches] /\ may' \in [Threads -> SUBSET Matches]
    BY <1>14, <2>1, <2>2 DEF BeginSearch
  <2>4. TypeOK'
    BY <1>14, <2>3 DEF BeginSearch, Begin
  <2>5. ASSUME NEW u \in Threads PROVE CallOK(u)'
    BY <1>14 DEF BeginSearch, Begin
  <2>6. QED
    BY <2>4, <2>5
<1>15. ASSUME NEW t \in Threads, SearchMove(t) PROVE Shape'
  <2>1. ~AtEnd(t) /\ pc[t] = "search" /\ Child(t) \in Nodes /\ depth[t] + 1 \in 1..Len(string[t])
        /\ Len(string[t]) \in 1..MaxLength
    BY <1>15, NextToken DEF SearchMove
  <2>2. TypeOK'
    <3>1. /\ pc' \in [Threads -> Places] /\ UNCHANGED <<tree, object, string>>
          /\ depth' = [depth EXCEPT ![t] = depth[t] + 1] /\ node' = [node EXCEPT ![t] = Child(t)]
      BY <1>15 DEF SearchMove, Move, Places
    <3>2. depth' \in [Threads -> 0..MaxLength] /\ node' \in [Threads -> Nodes]
      BY <2>1, <3>1
    <3>3. QED
      BY <1>15, <3>1, <3>2 DEF SearchMove, Move
  <2>3. ASSUME NEW u \in Threads PROVE CallOK(u)'
    BY <1>15, <2>1 DEF SearchMove, Move
  <2>4. QED
    BY <2>2, <2>3
<1>16. ASSUME NEW t \in Threads, Collect(t) PROVE Shape'
  <2>1. \A o \in Rest(t) : <<o, depth[t]>> \in Matches
    BY <1>16 DEF Collect, Rest, Matches
  <2>2. found' \in [Threads -> SUBSET Matches]
    BY <1>16, <2>1 DEF Collect
  <2>3. QED
    BY <1>16, <2>2 DEF Collect
<1>17. ASSUME NEW t \in Threads, CollectEnd(t) PROVE Shape'
  BY <1>17 DEF CollectEnd, Goto
<1>18. ASSUME NEW t \in Threads, CollectRaises(t) PROVE Shape'
  <2>1. Return(t) /\ UNCHANGED <<tree, tokens, history>>
    BY <1>18 DEF CollectRaises
  <2>2. TypeOK'
    BY <1>0, <2>1 DEF Return
  <2>3. ASSUME NEW u \in Threads PROVE CallOK(u)'
    BY <2>1 DEF Return
  <2>4. QED
    BY <2>2, <2>3
<1>19. ASSUME NEW t \in Threads, EndSearch(t) PROVE Shape'
  <2>1. Return(t) /\ UNCHANGED <<tree, tokens, history>>
    BY <1>19 DEF EndSearch
  <2>2. TypeOK'
    BY <1>0, <2>1 DEF Return
  <2>3. ASSUME NEW u \in Threads PROVE CallOK(u)'
    BY <2>1 DEF Return
  <2>4. QED
    BY <2>2, <2>3
<1>20. QED
  BY <1>1, <1>2, <1>3, <1>4, <1>5, <1>6, <1>7, <1>8, <1>9, <1>10, <1>11, <1>12, <1>13, <1>14, <1>15, <1>16,
     <1>17, <1>18, <1>19 DEF Next, Turn, Inserting, Removing, Searching

\* Every state of the tree and its calls is well formed, also when inserts overlap.
THEOREM TypeCorrect == Spec => []TypeOK
<1>1. Shape => TypeOK
  BY DEF Shape
<1>2. QED
  BY <1>1, ShapeInit, ShapeStep, PTL DEF Spec
-----------------------------------------------------------------------------
(* The steps that leave the tree alone.                                     *)

\* The ends of ways.
LEMMA RootIsNode == Root \in Nodes
BY TreeAssumption DEF Root, Nodes

LEMMA EndIsNode == ASSUME NEW s \in Strings, NEW w \in [0..Len(s) -> Nodes] PROVE w[Len(s)] \in Nodes
<1>1. Len(s) \in 0..Len(s)
  BY TreeAssumption
<1>2. QED
  BY <1>1

\* t has a call that writes, and which one.
LEMMA WriterOf ==
    ASSUME Shape, NEW t \in Threads, pc[t] \in Inserts \cup Removes
    PROVE  /\ t \in Writers /\ object[t] \in Objects /\ string[t] \in Strings /\ node[t] \in Nodes
           /\ string[t] \in Seq(Tokens) /\ Len(string[t]) \in Nat \ {0} /\ depth[t] \in Nat
           /\ depth[t] <= Len(string[t])
<1>1. t \in Writers /\ object[t] \in Objects /\ string[t] \in Strings /\ node[t] \in Nodes /\ depth[t] \in Nat
      /\ depth[t] <= Len(string[t])
  <2>1. t \in Writers
    BY DEF Shape, CallsOK, CallOK, Inserts, Removes
  <2>2. object[t] \in Objects /\ string[t] \in Strings /\ depth[t] <= Len(string[t])
    BY DEF Shape, CallsOK, CallOK, Inserts, Removes
  <2>3. node[t] \in Nodes /\ depth[t] \in 0..MaxLength
    BY DEF Shape, TypeOK
  <2>4. QED
    BY <2>1, <2>2, <2>3, TreeAssumption
<1>2. QED
  BY <1>1, TreeAssumption

\* A tree that is the same has the same ways.
LEMMA SameTree ==
    ASSUME UNCHANGED children
    PROVE  /\ \A s, d, w : Way(s, d, w)' <=> Way(s, d, w)
           /\ \A n : Linked(n)' <=> Linked(n)
BY DEF Way, Linked

\* With the same blocks too it is the same tree.
LEMMA SameBlocks ==
    ASSUME UNCHANGED tree
    PROVE  /\ Forest => Forest'
           /\ \A o, s : Stored(o, s)' <=> Stored(o, s)
           /\ \A n : Empty(n)' <=> Empty(n)
<1>1. children' = children /\ object_ids' = object_ids
  BY DEF tree
<1>2. Forest => Forest'
  <2>1. /\ \A s, d, w : Way(s, d, w)' <=> Way(s, d, w)
        /\ \A n : Linked(n)' <=> Linked(n)
        /\ \A n : Empty(n)' <=> Empty(n)
    BY <1>1 DEF Way, Linked, Empty
  <2>2. QED
    BY <1>1, <2>1 DEF Forest
<1>3. \A o, s : Stored(o, s)' <=> Stored(o, s)
  BY <1>1 DEF Stored, Way
<1>4. \A n : Empty(n)' <=> Empty(n)
  BY <1>1 DEF Empty
<1>5. QED
  BY <1>2, <1>3, <1>4

\* A writer that keeps its locals, in a tree that is the same, is where it was.
LEMMA SameLocals ==
    ASSUME NEW u, UNCHANGED <<tree, tokens>>, pc'[u] = pc[u], object'[u] = object[u], string'[u] = string[u],
           depth'[u] = depth[u], node'[u] = node[u], path'[u] = path[u]
    PROVE  (InsertOK(u) => InsertOK(u)') /\ (RemoveOK(u) => RemoveOK(u)')
<1>1. children' = children /\ object_ids' = object_ids /\ tokens' = tokens
  BY DEF tree
<1>2. InsertOK(u) => InsertOK(u)'
  BY <1>1 DEF InsertOK, Way, Child, Token
<1>3. RemoveOK(u) => RemoveOK(u)'
  BY <1>1 DEF RemoveOK, Way, Linked
<1>4. QED
  BY <1>2, <1>3

\* A step that changes neither the tree nor a writer's call.
LEMMA OthersStep ==
    ASSUME TInv, Shape', UNCHANGED <<tree, tokens>>,
           \A u \in Writers : /\ pc'[u] = pc[u] /\ object'[u] = object[u] /\ string'[u] = string[u]
                              /\ depth'[u] = depth[u] /\ node'[u] = node[u] /\ path'[u] = path[u]
    PROVE  TInv'
<1>1. Apart'
  BY DEF TInv, Apart
<1>2. Forest'
  BY SameBlocks DEF TInv
<1>3. BlocksOwned' /\ BlocksStored'
  BY SameBlocks DEF TInv, BlocksOwned, BlocksStored, Owned
<1>4. WritesOK'
  <2>1. ASSUME NEW u \in Writers PROVE (InsertOK(u) => InsertOK(u)') /\ (RemoveOK(u) => RemoveOK(u)')
    BY SameLocals
  <2>2. QED
    BY <2>1 DEF TInv, WritesOK
<1>5. DeadMinded'
  BY SameTree, SameBlocks DEF TInv, DeadMinded, Minded, LastChild, LastToken, tree
<1>6. QED
  BY <1>1, <1>2, <1>3, <1>4, <1>5 DEF TInv

\* A step of an insert is the only one that goes on among the writers.
LEMMA InsertAlone ==
    ASSUME TInv, NEW t \in Threads, pc[t] \in Inserts
    PROVE  /\ t \in Writers /\ InsertOK(t) /\ \A u \in Writers \ {t} : pc[u] = "idle" /\ object[u] = None
           /\ \A n \in Nodes : Minded(n) => pc[t] \in {"insert", "attach"} /\ node[t] = n
           /\ \A o \in Objects, s \in Strings : Owned(o, s) =>
                 tokens[o] = s \/ (pc[t] = "register" /\ object[t] = o /\ string[t] = s)
<1>1. t \in Writers /\ InsertOK(t)
  BY WriterOf DEF TInv, WritesOK
<1>2. \A u \in Writers \ {t} : pc[u] = "idle"
  BY <1>1 DEF TInv, Apart
<1>3. Writers \subseteq Threads
  BY TreeAssumption
<1>4. \A u \in Writers \ {t} : object[u] = None
  BY <1>2, <1>3 DEF TInv, Shape, CallsOK, CallOK
<1>5. QED
  BY <1>1, <1>2, <1>4 DEF Minded, Owned, Inserts

\* A way goes on at a child.
LEMMA WayOn ==
    ASSUME NEW s, NEW d \in Nat, NEW w, Way(s, d, w), NEW c \in Nodes, children[w[d]][s[d + 1]] = c
    PROVE  \E v \in [0..(d + 1) -> Nodes] : Way(s, d + 1, v) /\ v[d + 1] = c
<1> DEFINE v == [i \in 0..(d + 1) |-> IF i <= d THEN w[i] ELSE c]
<1>1. v \in [0..(d + 1) -> Nodes] /\ v[0] = Root /\ v[d + 1] = c
  BY DEF Way
<1>2. ASSUME NEW i \in 1..(d + 1) PROVE children[v[i - 1]][s[i]] = v[i]
  <2>1. CASE i <= d
    BY <2>1 DEF Way
  <2>2. CASE i = d + 1
    BY <2>2
  <2>3. QED
    BY <2>1, <2>2
<1>3. QED
  BY <1>1, <1>2 DEF Way

-----------------------------------------------------------------------------
(* insert: its writer is alone, so it finds the tree as it left it.         *)

LEMMA BeginInsertStep ==
    ASSUME ~Overlap, ~Rewrites, TInv, Shape', NEW t \in Writers, NEW o \in Objects, NEW s \in Strings,
           BeginInsert(t, o, s)
    PROVE  TInv'
<1>0. t \in Threads /\ Writers \subseteq Threads
  BY TreeAssumption
<1>1. /\ \A u \in Writers : pc[u] = "idle" /\ object[u] = None /\ object[u] # o
      /\ node[t] = Root /\ depth[t] = 0
  BY <1>0 DEF BeginInsert, Undisturbed, Places, TInv, Shape, TypeOK, CallsOK, CallOK
<1>2. /\ UNCHANGED <<tree, tokens, depth, node, path>> /\ tokens[o] \in {None, s}
      /\ pc' = [pc EXCEPT ![t] = "insert"] /\ object' = [object EXCEPT ![t] = o]
      /\ string' = [string EXCEPT ![t] = s]
  BY DEF BeginInsert, Begin
<1>3. pc \in [Threads -> Places] /\ object \in [Threads -> Objects \cup {None}]
      /\ string \in [Threads -> Strings \cup {<<>>}]
  BY DEF TInv, Shape, TypeOK
<1>4. pc'[t] = "insert" /\ object'[t] = o /\ string'[t] = s /\ \A u \in Writers \ {t} : pc'[u] = "idle"
      /\ object'[u] = None
  BY <1>0, <1>1, <1>2, <1>3
<1>5. Apart'
  BY <1>1, <1>4, TreeAssumption DEF Apart, Inserts
<1>6. Forest'
  BY <1>2, SameBlocks DEF TInv
<1>7. BlocksOwned' /\ BlocksStored'
  <2>1. \A p \in Objects, r \in Strings : Owned(p, r) => tokens[p] = r
    BY <1>1 DEF Owned
  <2>2. QED
    BY <1>2, <2>1, SameBlocks DEF TInv, BlocksOwned, BlocksStored, Owned
<1>8. WritesOK'
  <2> DEFINE w == [i \in 0..0 |-> Root]
  <2>1. Way(s, 0, w)' /\ w \in [0..0 -> Nodes] /\ w[0] = Root
    BY RootIsNode DEF Way
  <2>2. InsertOK(t)'
    <3>1. depth'[t] = 0 /\ node'[t] = Root /\ string'[t] = s /\ object'[t] = o /\ pc'[t] = "insert"
          /\ tokens' = tokens
      BY <1>1, <1>2, <1>4
    <3> HIDE DEF w
    <3>2. QED
      BY <1>2, <2>1, <3>1 DEF InsertOK
  <2>3. QED
    BY <1>4, <2>2 DEF WritesOK, Inserts, Removes
<1>9. DeadMinded'
  <2>1. \A n \in Nodes : ~Minded(n)
    BY <1>1 DEF Minded
  <2>2. QED
    BY <1>2, <2>1, SameTree, SameBlocks DEF TInv, DeadMinded, tree
<1>10. QED
  BY <1>5, <1>6, <1>7, <1>8, <1>9 DEF TInv

LEMMA InsertMoveStep == ASSUME TInv, Shape', NEW t \in Threads, InsertMove(t) PROVE TInv'
<1>0. /\ pc[t] = "insert" /\ ~AtEnd(t) /\ Child(t) # None /\ pc' = [pc EXCEPT ![t] = "insert"]
      /\ node' = [node EXCEPT ![t] = Child(t)] /\ depth' = [depth EXCEPT ![t] = @ + 1]
      /\ UNCHANGED <<tree, tokens, path, object, string>>
  BY DEF InsertMove, Move
<1>1. pc \in [Threads -> Places] /\ depth \in [Threads -> 0..MaxLength] /\ node \in [Threads -> Nodes]
  BY DEF TInv, Shape, TypeOK
<1>2. pc' = pc /\ depth'[t] = depth[t] + 1 /\ node'[t] = Child(t)
      /\ \A u \in Threads \ {t} : depth'[u] = depth[u] /\ node'[u] = node[u]
  BY <1>0, <1>1
<1>3. /\ t \in Writers /\ InsertOK(t) /\ (\A u \in Writers \ {t} : pc[u] = "idle" /\ object[u] = None)
      /\ \A n \in Nodes : Minded(n) => node[t] = n
  BY <1>0, InsertAlone DEF Inserts
<1>4. Child(t) \in Nodes /\ depth[t] \in Nat /\ Token(t) = string[t][depth[t] + 1] /\ Token(t) \in Tokens
  BY <1>0, <1>1, NextToken DEF TInv, Token
<1>5. Apart' /\ Forest'
  BY <1>0, <1>2, SameBlocks DEF TInv, Apart
<1>6. BlocksOwned' /\ BlocksStored'
  BY <1>0, <1>2, SameBlocks DEF TInv, BlocksOwned, BlocksStored, Owned
<1>7. InsertOK(t)'
  <2>1. PICK w \in [0..depth[t] -> Nodes] : Way(string[t], depth[t], w) /\ w[depth[t]] = node[t]
    BY <1>3 DEF InsertOK
  <2>2. children[w[depth[t]]][string[t][depth[t] + 1]] = Child(t)
    BY <1>4, <2>1 DEF Child
  <2>3. PICK v \in [0..(depth[t] + 1) -> Nodes] : Way(string[t], depth[t] + 1, v)
             /\ v[depth[t] + 1] = Child(t)
    <3> DEFINE c == Child(t)
               s == string[t]
               d == depth[t]
    <3>1. d \in Nat /\ c \in Nodes /\ Way(s, d, w) /\ children[w[d]][s[d + 1]] = c
      BY <1>4, <2>1, <2>2
    <3> HIDE DEF c, s, d
    <3>2. \E v \in [0..(d + 1) -> Nodes] : Way(s, d + 1, v) /\ v[d + 1] = c
      BY <3>1, WayOn
    <3>3. QED
      BY <3>2 DEF c, s, d
  <2>4. (\E x \in [0..depth[t] -> Nodes] : Way(string[t], depth[t], x) /\ x[depth[t]] = node[t])'
    <3>1. depth'[t] = depth[t] + 1 /\ node'[t] = Child(t) /\ string' = string /\ children' = children
      BY <1>0, <1>2 DEF tree
    <3>2. QED
      BY <2>3, <3>1 DEF Way
  <2>5. QED
    BY <1>0, <1>2, <1>3, <2>4 DEF InsertOK
<1>8. WritesOK'
  BY <1>0, <1>2, <1>3, <1>7 DEF WritesOK, Inserts, Removes
<1>9. DeadMinded'
  <2>1. ~Empty(node[t])
    BY <1>0, <1>4 DEF Empty, Child
  <2>2. QED
    BY <1>0, <1>3, <2>1, SameTree, SameBlocks DEF TInv, DeadMinded, tree
<1>10. QED
  BY <1>5, <1>6, <1>8, <1>9 DEF TInv

LEMMA NewNodeStep == ASSUME TInv, Shape', NEW t \in Threads, NewNode(t) PROVE TInv'
<1>0. /\ pc[t] = "insert" /\ Child(t) = None /\ pc' = [pc EXCEPT ![t] = "attach"]
      /\ UNCHANGED <<tree, tokens, path, object, string, node, depth>>
  BY DEF NewNode, Goto, call
<1>1. pc \in [Threads -> Places]
  BY DEF TInv, Shape, TypeOK
<1>2. pc'[t] = "attach" /\ \A u \in Threads \ {t} : pc'[u] = pc[u]
  BY <1>0, <1>1
<1>3. /\ t \in Writers /\ InsertOK(t) /\ (\A u \in Writers \ {t} : pc[u] = "idle" /\ object[u] = None)
      /\ Writers \subseteq Threads /\ \A n \in Nodes : Minded(n) => node[t] = n
  BY <1>0, InsertAlone, TreeAssumption DEF Inserts
<1>4. Apart' /\ Forest'
  BY <1>0, <1>2, <1>3, SameBlocks DEF TInv, Apart, Inserts
<1>5. BlocksOwned' /\ BlocksStored'
  BY <1>0, <1>2, <1>3, SameBlocks DEF TInv, BlocksOwned, BlocksStored, Owned
<1>6. InsertOK(t)'
  BY <1>0, <1>2, <1>3, SameTree DEF InsertOK, Child, Token, tree
<1>7. WritesOK'
  BY <1>0, <1>2, <1>3, <1>6 DEF WritesOK, Inserts, Removes
<1>8. DeadMinded'
  <2>1. \A n \in Nodes : Linked(n)' /\ Empty(n)' => node[t] = n
    BY <1>0, <1>3, SameTree, SameBlocks DEF TInv, DeadMinded, tree
  <2>2. QED
    BY <1>0, <1>2, <1>3, <2>1 DEF DeadMinded, Minded
<1>9. QED
  BY <1>4, <1>5, <1>7, <1>8 DEF TInv

\* A way ends at the root or at a child of one.
LEMMA WayEnd ==
    ASSUME NEW s \in Seq(Tokens), NEW d \in 0..Len(s), NEW w, Way(s, d, w)
    PROVE  /\ w[d] \in Nodes /\ (d = 0 => w[d] = Root) /\ (d > 0 => Linked(w[d]))
           /\ \A i \in 1..d : w[i - 1] \in Nodes /\ w[i] \in Nodes /\ s[i] \in Tokens /\ w[i] # None
<1>1. d \in Nat
  OBVIOUS
<1>2. \A i \in 1..d : w[i - 1] \in Nodes /\ w[i] \in Nodes /\ s[i] \in Tokens /\ w[i] # None
  BY <1>1, TreeAssumption DEF Way
<1>3. w[d] \in Nodes /\ (d = 0 => w[d] = Root)
  BY <1>1 DEF Way
<1>4. ASSUME d > 0 PROVE Linked(w[d])
  <2>1. d \in 1..d /\ children[w[d - 1]][s[d]] = w[d]
    BY <1>1, <1>4 DEF Way
  <2>2. QED
    BY <1>2, <2>1 DEF Linked
<1>5. QED
  BY <1>2, <1>3, <1>4

\* A node that is linked is at the end of a way.
LEMMA LinkedWay ==
    ASSUME Forest, NEW n \in Nodes, Linked(n)
    PROVE  \E s \in Strings : \E d \in 1..Len(s) : \E w \in [0..d -> Nodes] : Way(s, d, w) /\ w[d] = n
BY DEF Forest

\* The node an insert gets is one that nothing leads to, and so one that is empty.
LEMMA NewIsEmpty ==
    ASSUME TInv, NEW t \in Threads, NEW new \in Free
    PROVE  /\ new \in Nodes /\ new # Root /\ new # node[t] /\ ~Linked(new)
           /\ object_ids[new] = {} /\ \A k \in Tokens : children[new][k] = None
<1>1. PICK S \in SUBSET Nodes : Closed(S) /\ new \in Nodes \ S
  BY DEF Free
<1>2. Root \in S /\ node[t] \in S
  BY <1>1 DEF Closed, Held
<1>3. ~Linked(new)
  <2>1. SUFFICES ASSUME Linked(new) PROVE FALSE
    OBVIOUS
  <2>2. PICK s \in Strings : \E d \in 1..Len(s) : \E w \in [0..d -> Nodes] : Way(s, d, w) /\ w[d] = new
    BY <1>1, <2>1, LinkedWay DEF TInv
  <2>3. PICK d \in 1..Len(s) : \E w \in [0..d -> Nodes] : Way(s, d, w) /\ w[d] = new
    BY <2>2
  <2>31. PICK w \in [0..d -> Nodes] : Way(s, d, w) /\ w[d] = new
    BY <2>3
  <2>4. s \in Seq(Tokens) /\ Len(s) \in Nat /\ d \in 0..Len(s) /\ d \in 0..d /\ None \notin Nodes
    BY TreeAssumption
  <2>5. w[d] \in S
    BY <1>1, <2>31, <2>4, WayIsKept
  <2>6. QED
    BY <1>1, <2>31, <2>5
<1>4. Empty(new)
  BY <1>1, <1>2, <1>3 DEF TInv, Forest
<1>5. QED
  BY <1>1, <1>2, <1>3, <1>4 DEF Empty

\* The new node extends the way of the insert and no other.
LEMMA AttachStep == ASSUME TInv, Shape', NEW t \in Threads, Attach(t) PROVE TInv'
<1>0. pc[t] = "attach" /\ ~AtEnd(t) /\ node[t] \in Nodes /\ Free # {}
  BY DEF TInv, Shape, TypeOK, CallsOK, CallOK, AtEnd, Attach
<1>1. PICK new \in Free :
         /\ UNCHANGED <<tokens, path, object, string>>
         /\ children' = [children EXCEPT ![new] = [j \in Tokens |-> None], ![node[t]][Token(t)] = new]
         /\ object_ids' = [object_ids EXCEPT ![new] = {}]
         /\ node' = [node EXCEPT ![t] = new] /\ depth' = [depth EXCEPT ![t] = @ + 1]
         /\ pc' = [pc EXCEPT ![t] = "insert"]
  BY <1>0, FreeNode, TreeAssumption DEF Attach, Move
<1>2. PICK n \in Nodes : n = node[t]
  BY <1>0
<1>3. /\ t \in Writers /\ InsertOK(t) /\ (\A u \in Writers \ {t} : pc[u] = "idle" /\ object[u] = None)
      /\ (\A m \in Nodes : Minded(m) => m = n)
      /\ \A o \in Objects, r \in Strings : Owned(o, r) => tokens[o] = r
  BY <1>0, <1>2, InsertAlone DEF Inserts
<1>4. PICK s \in Strings, d \in Nat, k \in Tokens :
         /\ s = string[t] /\ d = depth[t] /\ k = Token(t) /\ k = s[d + 1]
         /\ s \in Seq(Tokens) /\ Len(s) \in Nat /\ d + 1 \in 1..Len(s) /\ children[n][k] = None
  <2>1. string[t] \in Strings /\ string[t] \in Seq(Tokens) /\ depth[t] \in Nat /\ Len(string[t]) \in Nat
    BY <1>0, WriterOf DEF Inserts, TInv
  <2>2. Token(t) \in Tokens /\ depth[t] + 1 \in 1..Len(string[t])
    BY <1>0, NextToken DEF TInv
  <2>3. Child(t) = None
    BY <1>0, <1>3 DEF InsertOK
  <2>4. QED
    BY <1>2, <2>1, <2>2, <2>3 DEF Child, Token
<1>41. /\ new \in Nodes /\ new # Root /\ new # n /\ ~Linked(new)
       /\ object_ids[new] = {} /\ \A j \in Tokens : children[new][j] = None
  BY <1>2, NewIsEmpty
<1>5. /\ children \in [Nodes -> [Tokens -> Nodes \cup {None}]] /\ object_ids \in [Nodes -> SUBSET Objects]
      /\ pc \in [Threads -> Places] /\ node \in [Threads -> Nodes] /\ depth \in [Threads -> 0..MaxLength]
  BY DEF TInv, Shape, TypeOK
<1>6. \A m \in Nodes, j \in Tokens : children'[m][j] = IF m = n /\ j = k THEN new ELSE children[m][j]
  BY <1>1, <1>2, <1>41, <1>4, <1>5
<1>7. object_ids' = object_ids
  BY <1>1, <1>2, <1>41, <1>5
<1>8. /\ pc'[t] = "insert" /\ node'[t] = new /\ depth'[t] = d + 1
      /\ \A u \in Threads \ {t} : pc'[u] = pc[u]
  BY <1>1, <1>4, <1>5
<1>9. \A r \in Strings : r \in Seq(Tokens) /\ Len(r) \in 1..MaxLength /\ Len(r) \in Nat
      /\ Len(r) \in 0..Len(r)
  BY TreeAssumption
<1>10. ASSUME NEW r \in Strings, NEW e \in 0..Len(r), NEW w
       PROVE  /\ Way(r, e, w) => Way(r, e, w)'
              /\ Way(r, e, w)' /\ w[e] # new => Way(r, e, w)
  <2>1. r \in Seq(Tokens) /\ e \in Nat
    BY <1>9
  <2>2. ASSUME Way(r, e, w) PROVE Way(r, e, w)'
    <3>1. \A i \in 1..e : w[i - 1] \in Nodes /\ r[i] \in Tokens /\ w[i] # None
      BY <2>1, <2>2, WayEnd
    <3>2. \A i \in 1..e : children[w[i - 1]][r[i]] = w[i]
      BY <2>2 DEF Way
    <3>3. ASSUME NEW i \in 1..e PROVE children'[w[i - 1]][r[i]] = w[i]
      <4>1. w[i - 1] \in Nodes /\ r[i] \in Tokens /\ w[i] # None /\ children[w[i - 1]][r[i]] = w[i]
        BY <3>1, <3>2
      <4>2. ~(w[i - 1] = n /\ r[i] = k)
        BY <1>4, <4>1
      <4>3. QED
        BY <1>6, <4>1, <4>2
    <3>4. QED
      BY <2>2, <3>3 DEF Way
  <2>3. ASSUME Way(r, e, w)', w[e] # new PROVE Way(r, e, w)
    <3>1. w \in [0..e -> Nodes] /\ w[0] = Root /\ \A i \in 1..e : children'[w[i - 1]][r[i]] = w[i]
      BY <2>3 DEF Way
    <3>2. \A i \in 1..e : w[i - 1] \in Nodes /\ w[i] \in Nodes /\ w[i] # None /\ r[i] \in Tokens
      BY <2>1, <3>1, TreeAssumption
    <3>3. ASSUME NEW i \in 1..e PROVE w[i - 1] # new
      <4>1. r[i] \in Tokens /\ w[i] # None /\ children'[w[i - 1]][r[i]] = w[i]
        BY <3>1, <3>2
      <4>2. children'[new][r[i]] = None
        BY <1>6, <1>41, <4>1
      <4>3. QED
        BY <4>1, <4>2
    <3>4. ASSUME NEW i \in 1..e PROVE w[i] # new
      <4>1. CASE i = e
        BY <2>3, <4>1
      <4>2. CASE i < e
        <5>1. i + 1 \in 1..e /\ (i + 1) - 1 = i
          BY <2>1, <4>2
        <5>2. QED
          BY <3>3, <5>1
      <4>3. QED
        BY <2>1, <4>1, <4>2
    <3>5. \A i \in 1..e : children[w[i - 1]][r[i]] = w[i]
      BY <1>6, <3>1, <3>2, <3>4
    <3>6. QED
      BY <3>1, <3>5 DEF Way
  <2>4. QED
    BY <2>2, <2>3
<1>11. PICK w \in [0..d -> Nodes] : Way(s, d, w) /\ w[d] = n
  <2>1. \E w \in [0..depth[t] -> Nodes] : Way(string[t], depth[t], w) /\ w[depth[t]] = node[t]
    BY <1>3 DEF InsertOK
  <2>2. QED
    BY <1>2, <1>4, <2>1
<1>12. \E v \in [0..(d + 1) -> Nodes] : Way(s, d + 1, v)' /\ v[d + 1] = new
  <2> DEFINE v == [i \in 0..(d + 1) |-> IF i <= d THEN w[i] ELSE new]
  <2>1. v \in [0..(d + 1) -> Nodes] /\ v[0] = Root /\ v[d + 1] = new
    BY <1>2, <1>41, <1>4, <1>11 DEF Way
  <2>2. Way(s, d, w)'
    <3>1. d \in 0..Len(s)
      BY <1>4
    <3>2. QED
      BY <1>4, <1>10, <1>11, <3>1
  <2>3. ASSUME NEW i \in 1..(d + 1) PROVE children'[v[i - 1]][s[i]] = v[i]
    <3>1. CASE i <= d
      BY <1>4, <2>2, <3>1 DEF Way
    <3>2. CASE i = d + 1
      BY <1>4, <1>6, <1>11, <3>2
    <3>3. QED
      BY <1>4, <3>1, <3>2
  <2>4. Way(s, d + 1, v)'
    <3> HIDE DEF v
    <3>1. QED
      BY <2>1, <2>3 DEF Way
  <2> HIDE DEF v
  <2>5. QED
    BY <2>1, <2>4
<1>13. \A m \in Nodes : Linked(m)' <=> Linked(m) \/ m = new
  <2>1. ASSUME NEW m \in Nodes, Linked(m)' PROVE Linked(m) \/ m = new
    BY <1>6, <2>1 DEF Linked
  <2>2. ASSUME NEW m \in Nodes, Linked(m) PROVE Linked(m)'
    <3>1. PICK a \in Nodes, j \in Tokens : children[a][j] = m
      BY <2>2 DEF Linked
    <3>2. children'[a][j] = m
      BY <1>4, <1>6, <3>1, TreeAssumption
    <3>3. QED
      BY <3>2 DEF Linked
  <2>3. Linked(new)'
    BY <1>4, <1>6 DEF Linked
  <2>4. QED
    BY <2>1, <2>2, <2>3
<1>14. \A m \in Nodes : Empty(m)' <=> Empty(m) /\ m # n
  BY <1>2, <1>41, <1>4, <1>6, <1>7, TreeAssumption DEF Empty
<1>15. n = Root \/ Linked(n)
  <2>1. d \in 0..Len(s) /\ d \in Nat
    BY <1>4
  <2>2. (d = 0 => w[d] = Root) /\ (d > 0 => Linked(w[d]))
    BY <1>4, <1>11, <2>1, WayEnd
  <2>3. QED
    BY <1>11, <2>1, <2>2
<1>16. Apart'
  <2>1. Writers \subseteq Threads
    BY TreeAssumption
  <2>2. \A u \in Writers \ {t} : pc'[u] = "idle" /\ object'[u] = None
    BY <1>1, <1>3, <1>8, <2>1
  <2>3. QED
    BY <1>8, <2>2 DEF Apart, Inserts
<1>17. Forest'
  <2>1. ASSUME NEW a \in Nodes, NEW b \in Nodes, NEW i \in Tokens, NEW j \in Tokens,
               children'[a][i] # None, children'[a][i] = children'[b][j]
        PROVE  a = b /\ i = j
    <3>1. children[a][i] # new /\ children[b][j] # new
      BY <1>2, <1>41 DEF Linked
    <3>2. QED
      BY <1>6, <2>1, <3>1 DEF TInv, Forest
  <2>2. ~Linked(Root)'
    BY <1>2, <1>41, <1>13, RootIsNode DEF TInv, Forest
  <2>3. ASSUME NEW m \in Nodes \ {Root}, ~Linked(m)' PROVE Empty(m)'
    BY <1>13, <1>14, <1>15, <2>3 DEF TInv, Forest
  <2>4. ASSUME NEW m \in Nodes, Linked(m)'
        PROVE  \E r \in Strings : \E e \in 1..Len(r) : \E v \in [0..e -> Nodes] : Way(r, e, v)' /\ v[e] = m
    <3>1. CASE m = new
      BY <1>4, <1>12, <3>1
    <3>2. CASE m # new
      <4>1. Linked(m)
        BY <1>13, <2>4, <3>2
      <4>2. PICK r \in Strings : \E e \in 1..Len(r) : \E v \in [0..e -> Nodes] : Way(r, e, v) /\ v[e] = m
        BY <4>1, LinkedWay DEF TInv
      <4>3. PICK e \in 1..Len(r) : \E v \in [0..e -> Nodes] : Way(r, e, v) /\ v[e] = m
        BY <4>2
      <4>4. e \in 0..Len(r)
        BY <1>9
      <4>5. QED
        BY <1>10, <4>3, <4>4
    <3>3. QED
      BY <3>1, <3>2
  <2>5. QED
    BY <2>1, <2>2, <2>3, <2>4 DEF Forest
<1>18. BlocksOwned'
  <2>1. ASSUME NEW o \in Objects, NEW r \in Strings, Stored(o, r)' PROVE Owned(o, r)'
    <3>1. PICK v \in [0..Len(r) -> Nodes] : Way(r, Len(r), v)' /\ o \in object_ids[v[Len(r)]]
      BY <1>7, <2>1 DEF Stored
    <3>2. v[Len(r)] # new
      BY <1>2, <1>41, <3>1
    <3>3. Way(r, Len(r), v)
      BY <1>9, <1>10, <3>1, <3>2
    <3>4. Stored(o, r)
      BY <3>1, <3>3 DEF Stored
    <3>5. tokens[o] = r
      BY <1>3, <3>4 DEF TInv, BlocksOwned
    <3>6. QED
      BY <1>1, <3>5 DEF Owned
  <2>2. QED
    BY <2>1 DEF BlocksOwned
<1>19. BlocksStored'
  <2>1. ASSUME NEW o \in Objects, tokens[o] # None PROVE Stored(o, tokens[o])'
    <3>1. tokens[o] \in Strings
      BY <2>1 DEF TInv, Shape, TypeOK
    <3>2. PICK v \in [0..Len(tokens[o]) -> Nodes] : Way(tokens[o], Len(tokens[o]), v)
               /\ o \in object_ids[v[Len(tokens[o])]]
      BY <2>1 DEF TInv, BlocksStored, Stored
    <3>3. Way(tokens[o], Len(tokens[o]), v)'
      <4>1. \A r \in Strings : Way(r, Len(r), v) => Way(r, Len(r), v)'
        BY <1>9, <1>10
      <4>2. PICK r \in Strings : r = tokens[o]
        BY <3>1
      <4>3. Way(r, Len(r), v)'
        BY <3>2, <4>1, <4>2
      <4>4. tokens' = tokens
        BY <1>1
      <4>5. QED
        BY <4>2, <4>3, <4>4 DEF Way
    <3>4. QED
      BY <1>1, <1>7, <3>2, <3>3 DEF Stored
  <2>2. QED
    BY <1>1, <2>1 DEF BlocksStored
<1>20. WritesOK'
  <2>1. InsertOK(t)'
    <3>1. (\E v \in [0..depth[t] -> Nodes] : Way(string[t], depth[t], v) /\ v[depth[t]] = node[t])'
      <4>1. string'[t] = s /\ depth'[t] = d + 1 /\ node'[t] = new
        BY <1>1, <1>4, <1>8
      <4>2. QED
        BY <1>12, <4>1 DEF Way
    <3>2. tokens[object[t]] \in {None, string[t]}
      BY <1>3 DEF InsertOK
    <3>3. QED
      BY <1>1, <1>8, <3>1, <3>2 DEF InsertOK
  <2>2. \A u \in Writers \ {t} : pc'[u] = "idle"
    BY <1>3, <1>8, TreeAssumption
  <2>3. QED
    BY <1>8, <2>1, <2>2 DEF WritesOK, Inserts, Removes
<1>21. DeadMinded'
  <2>1. ASSUME NEW m \in Nodes, Linked(m)', Empty(m)' PROVE Minded(m)'
    <3>1. CASE m = new
      BY <1>3, <1>8, <3>1 DEF Minded
    <3>2. CASE m # new
      BY <1>3, <1>13, <1>14, <2>1, <3>2 DEF TInv, DeadMinded
    <3>3. QED
      BY <3>1, <3>2
  <2>2. QED
    BY <2>1 DEF DeadMinded
<1>22. QED
  BY <1>16, <1>17, <1>18, <1>19, <1>20, <1>21 DEF TInv

LEMMA AddIdStep == ASSUME TInv, Shape', NEW t \in Threads, AddId(t) PROVE TInv'
<1>0. pc[t] = "insert" /\ depth[t] = Len(string[t]) /\ node[t] \in Nodes
  BY DEF TInv, Shape, TypeOK, AddId, AtEnd
<1>1. /\ object_ids' = [object_ids EXCEPT ![node[t]] = @ \cup {object[t]}]
      /\ pc' = [pc EXCEPT ![t] = "register"]
      /\ UNCHANGED <<children, tokens, object, string, depth, node, path>>
  BY DEF AddId, Goto, call
<1>2. /\ t \in Writers /\ InsertOK(t) /\ (\A u \in Writers \ {t} : pc[u] = "idle" /\ object[u] = None)
      /\ (\A m \in Nodes : Minded(m) => m = node[t])
      /\ \A o \in Objects, r \in Strings : Owned(o, r) => tokens[o] = r
  BY <1>0, InsertAlone DEF Inserts
<1>3. PICK n \in Nodes, s \in Strings, o \in Objects :
         n = node[t] /\ s = string[t] /\ o = object[t] /\ s \in Seq(Tokens) /\ Len(s) \in Nat \ {0}
         /\ depth[t] = Len(s)
  BY <1>0, WriterOf DEF Inserts, TInv
<1>4. object_ids \in [Nodes -> SUBSET Objects] /\ pc \in [Threads -> Places] /\ Writers \subseteq Threads
  BY TreeAssumption DEF TInv, Shape, TypeOK
<1>5. /\ \A m \in Nodes : object_ids'[m] = IF m = n THEN object_ids[n] \cup {o} ELSE object_ids[m]
      /\ pc'[t] = "register" /\ \A u \in Threads \ {t} : pc'[u] = pc[u]
  BY <1>1, <1>3, <1>4
<1>6. PICK w \in [0..Len(s) -> Nodes] : Way(s, Len(s), w) /\ w[Len(s)] = n
  <2>1. \E w \in [0..depth[t] -> Nodes] : Way(string[t], depth[t], w) /\ w[depth[t]] = node[t]
    BY <1>2 DEF InsertOK
  <2>2. QED
    BY <1>3, <2>1
<1>7. /\ \A r, e, v : Way(r, e, v)' <=> Way(r, e, v)
      /\ \A m : Linked(m)' <=> Linked(m)
  BY <1>1, SameTree
<1>8. \A m \in Nodes : Empty(m)' <=> Empty(m) /\ m # n
  <2>1. ASSUME NEW m \in Nodes PROVE Empty(m)' <=> Empty(m) /\ m # n
    <3>1. object_ids'[m] = {} <=> object_ids[m] = {} /\ m # n
      BY <1>5
    <3>2. children' = children
      BY <1>1
    <3>3. QED
      BY <3>1, <3>2 DEF Empty
  <2>2. QED
    BY <2>1
<1>9. Linked(n)
  <2>1. s \in Seq(Tokens) /\ Len(s) \in 0..Len(s) /\ Len(s) > 0
    BY <1>3
  <2>2. QED
    BY <1>6, <2>1, WayEnd
<1>10. Apart'
  BY <1>1, <1>2, <1>4, <1>5 DEF Apart, Inserts
<1>11. Forest'
  <2>1. \A m \in Nodes \ {Root} : ~Linked(m)' => Empty(m)'
    BY <1>7, <1>8, <1>9 DEF TInv, Forest
  <2>2. Forest /\ children' = children
    BY <1>1 DEF TInv
  <2>3. QED
    BY <1>7, <2>1, <2>2 DEF Forest
<1>12. BlocksOwned'
  <2>1. ASSUME NEW p \in Objects, NEW r \in Strings, Stored(p, r)' PROVE Owned(p, r)'
    <3>1. PICK v \in [0..Len(r) -> Nodes] : Way(r, Len(r), v) /\ p \in object_ids'[v[Len(r)]]
      BY <1>7, <2>1 DEF Stored
    <3>2. v[Len(r)] \in Nodes
      BY EndIsNode
    <3>3. CASE p \in object_ids[v[Len(r)]]
      <4>1. tokens[p] = r
        BY <1>2, <3>1, <3>3 DEF TInv, BlocksOwned, Stored
      <4>2. QED
        BY <1>1, <4>1 DEF Owned
    <3>4. CASE p = o /\ v[Len(r)] = n
      <4>1. r = s
        BY <1>3, <1>6, <3>1, <3>4, OneWay, TreeAssumption DEF TInv
      <4>2. object'[t] = p /\ string'[t] = r /\ pc'[t] = "register"
        BY <1>1, <1>3, <1>5, <3>4, <4>1
      <4>3. QED
        BY <1>2, <4>2 DEF Owned
    <3>5. QED
      BY <1>5, <3>1, <3>2, <3>3, <3>4
  <2>2. QED
    BY <2>1 DEF BlocksOwned
<1>13. BlocksStored'
  <2>1. ASSUME NEW p \in Objects, tokens[p] # None PROVE Stored(p, tokens[p])'
    <3>1. PICK r \in Strings : r = tokens[p]
      BY <2>1 DEF TInv, Shape, TypeOK
    <3>2. PICK v \in [0..Len(r) -> Nodes] : Way(r, Len(r), v) /\ p \in object_ids[v[Len(r)]]
      BY <2>1, <3>1 DEF TInv, BlocksStored, Stored
    <3>3. v[Len(r)] \in Nodes
      BY EndIsNode
    <3>4. Way(r, Len(r), v)' /\ p \in object_ids'[v[Len(r)]]
      BY <1>5, <1>7, <3>2, <3>3
    <3>5. r = tokens'[p]
      BY <1>1, <3>1
    <3>6. QED
      BY <3>4, <3>5 DEF Stored, Way
  <2>2. QED
    BY <1>1, <2>1 DEF BlocksStored
<1>14. WritesOK'
  <2>1. InsertOK(t)'
    <3>1. (\E v \in [0..depth[t] -> Nodes] : Way(string[t], depth[t], v) /\ v[depth[t]] = node[t])'
      BY <1>1, <1>2 DEF InsertOK, Way
    <3>2. object'[t] \in object_ids'[node'[t]] /\ depth'[t] = Len(string'[t])
      BY <1>1, <1>3, <1>5
    <3>3. QED
      BY <1>1, <1>2, <1>5, <3>1, <3>2 DEF InsertOK
  <2>2. QED
    BY <1>2, <1>4, <1>5, <2>1 DEF WritesOK, Inserts, Removes
<1>15. DeadMinded'
  BY <1>2, <1>3, <1>7, <1>8 DEF TInv, DeadMinded
<1>16. QED
  BY <1>10, <1>11, <1>12, <1>13, <1>14, <1>15 DEF TInv

LEMMA RegisterStep == ASSUME TInv, Shape', NEW t \in Threads, Register(t) PROVE TInv'
<1>0. pc[t] = "register"
  BY DEF Register
<1>1. /\ tokens' = [tokens EXCEPT ![object[t]] = string[t]] /\ pc' = [pc EXCEPT ![t] = "idle"]
      /\ object' = [object EXCEPT ![t] = None] /\ string' = [string EXCEPT ![t] = <<>>] /\ UNCHANGED tree
  BY DEF Register, Return
<1>2. /\ t \in Writers /\ InsertOK(t) /\ (\A u \in Writers \ {t} : pc[u] = "idle" /\ object[u] = None)
      /\ (\A m \in Nodes : ~Minded(m))
      /\ \A p \in Objects, r \in Strings : Owned(p, r) => tokens[p] = r \/ (p = object[t] /\ r = string[t])
  BY <1>0, InsertAlone DEF Inserts
<1>3. PICK s \in Strings, o \in Objects : s = string[t] /\ o = object[t] /\ depth[t] = Len(s)
  BY <1>0, <1>2, WriterOf DEF Inserts, TInv, InsertOK
<1>4. /\ tokens \in [Objects -> Strings \cup {None}] /\ pc \in [Threads -> Places]
      /\ Writers \subseteq Threads
      /\ object \in [Threads -> Objects \cup {None}]
  BY TreeAssumption DEF TInv, Shape, TypeOK
<1>5. /\ tokens'[o] = s /\ \A p \in Objects \ {o} : tokens'[p] = tokens[p]
      /\ \A u \in Writers : pc'[u] = "idle" /\ object'[u] = None
  BY <1>1, <1>2, <1>3, <1>4
<1>6. tokens[o] \in {None, s} /\ Stored(o, s)
  <2>1. \E w \in [0..depth[t] -> Nodes] : Way(string[t], depth[t], w) /\ w[depth[t]] = node[t]
    BY <1>2 DEF InsertOK
  <2>2. object[t] \in object_ids[node[t]] /\ tokens[object[t]] \in {None, string[t]}
    BY <1>0, <1>2 DEF InsertOK
  <2>3. QED
    BY <1>3, <2>1, <2>2 DEF Stored
<1>7. Apart'
  BY <1>5 DEF Apart, Inserts
<1>8. Forest'
  BY <1>1, SameBlocks DEF TInv
<1>9. BlocksOwned'
  <2>1. ASSUME NEW p \in Objects, NEW r \in Strings, Stored(p, r) PROVE tokens'[p] = r
    BY <1>2, <1>3, <1>5, <1>6, <2>1, TreeAssumption DEF TInv, BlocksOwned
  <2>2. QED
    BY <1>1, <2>1, SameBlocks DEF BlocksOwned, Owned
<1>10. BlocksStored'
  <2>1. ASSUME NEW p \in Objects, tokens'[p] # None PROVE Stored(p, tokens'[p])
    BY <1>5, <1>6, <2>1 DEF TInv, BlocksStored
  <2>2. ASSUME NEW p \in Objects, tokens'[p] # None PROVE Stored(p, tokens[p])'
    <3>1. Stored(p, tokens'[p]) /\ children' = children /\ object_ids' = object_ids
      BY <1>1, <2>1, <2>2 DEF tree
    <3>2. QED
      BY <3>1 DEF Stored, Way
  <2>3. QED
    BY <2>2 DEF BlocksStored
<1>11. WritesOK'
  BY <1>5 DEF WritesOK, Inserts, Removes
<1>12. DeadMinded'
  BY <1>1, <1>2, SameTree, SameBlocks DEF TInv, DeadMinded, tree
<1>13. QED
  BY <1>7, <1>8, <1>9, <1>10, <1>11, <1>12 DEF TInv

-----------------------------------------------------------------------------
(* remove: what another remove cuts is empty, so the way to a block stays.  *)

LEMMA BeginRemoveStep ==
    ASSUME ~Overlap, TInv, Shape', NEW t \in Writers, NEW o \in Objects, BeginRemove(t, o)
    PROVE  TInv'
<1>0. t \in Threads /\ Writers \subseteq Threads
  BY TreeAssumption
<1>1. /\ \A u \in Writers : pc[u] \notin Inserts /\ object[u] # o
      /\ pc[t] = "idle" /\ tokens[o] # None
  BY DEF BeginRemove, Undisturbed, Inserts, Begin
<1>2. /\ UNCHANGED <<tree, depth, node, path>> /\ tokens' = [tokens EXCEPT ![o] = None]
      /\ pc' = [pc EXCEPT ![t] = "descend"] /\ object' = [object EXCEPT ![t] = o]
      /\ string' = [string EXCEPT ![t] = tokens[o]]
  BY DEF BeginRemove, Begin
<1>3. PICK s \in Strings : s = tokens[o] /\ Len(s) \in Nat
  BY <1>1, TreeAssumption DEF TInv, Shape, TypeOK
<1>4. /\ pc \in [Threads -> Places] /\ object \in [Threads -> Objects \cup {None}]
      /\ string \in [Threads -> Strings \cup {<<>>}] /\ tokens \in [Objects -> Strings \cup {None}]
      /\ object[t] = None /\ depth[t] = 0 /\ node[t] = Root /\ path[t] = <<>>
  BY <1>0, <1>1 DEF TInv, Shape, TypeOK, CallsOK, CallOK
<1>5. /\ pc'[t] = "descend" /\ object'[t] = o /\ string'[t] = s
      /\ \A u \in Threads \ {t} : pc'[u] = pc[u] /\ object'[u] = object[u] /\ string'[u] = string[u]
      /\ tokens'[o] = None /\ \A p \in Objects \ {o} : tokens'[p] = tokens[p]
  BY <1>0, <1>2, <1>3, <1>4
<1>6. Apart'
  BY <1>0, <1>1, <1>5, TreeAssumption DEF TInv, Apart, Inserts
<1>7. Forest'
  BY <1>2, SameBlocks DEF TInv
<1>8. BlocksOwned'
  <2>1. ASSUME NEW p \in Objects, NEW r \in Strings, Owned(p, r) PROVE Owned(p, r)'
    <3>1. CASE tokens[p] = r /\ p = o
      BY <1>3, <1>5, <3>1 DEF Owned
    <3>2. CASE tokens[p] = r /\ p # o
      BY <1>5, <3>2 DEF Owned
    <3>3. CASE \E u \in Writers : object[u] = p /\ string[u] = r /\ pc[u] \in {"register", "descend", "step"}
      BY <1>0, <1>1, <1>5, <3>3 DEF Owned
    <3>4. QED
      BY <2>1, <3>1, <3>2, <3>3 DEF Owned
  <2>2. QED
    BY <1>2, <2>1, SameBlocks DEF TInv, BlocksOwned
<1>9. BlocksStored'
  <2>1. ASSUME NEW p \in Objects, tokens'[p] # None PROVE Stored(p, tokens[p])'
    <3>1. tokens'[p] = tokens[p] /\ Stored(p, tokens[p]) /\ children' = children /\ object_ids' = object_ids
      BY <1>2, <1>5, <2>1 DEF TInv, BlocksStored, tree
    <3>2. QED
      BY <3>1 DEF Stored, Way
  <2>2. QED
    BY <2>1 DEF BlocksStored
<1>10. WritesOK'
  <2>1. RemoveOK(t)'
    <3>1. PICK w \in [0..Len(s) -> Nodes] : Way(s, Len(s), w) /\ o \in object_ids[w[Len(s)]]
      BY <1>1, <1>3 DEF TInv, BlocksStored, Stored
    <3>2. (Way(s, Len(s), w) /\ o \in object_ids[w[Len(s)]])' /\ w[0] = Root
      BY <1>2, <3>1 DEF tree, Way
    <3>3. depth'[t] = 0 /\ node'[t] = Root /\ path'[t] = <<>> /\ DOMAIN path'[t] = {}
      BY <1>2, <1>4
    <3>4. string'[t] = s /\ object'[t] = o /\ tokens'[o] = None /\ pc'[t] = "descend"
      BY <1>5
    <3>5. (\E v \in [0..Len(string[t]) -> Nodes] :
              /\ Way(string[t], Len(string[t]), v)
              /\ object[t] \in object_ids[v[Len(string[t])]]
              /\ node[t] = v[depth[t]]
              /\ \A i \in DOMAIN path[t] : path[t][i] = v[i - 1])'
      BY <3>1, <3>2, <3>3, <3>4 DEF Way
    <3>6. QED
      BY <3>4, <3>5 DEF RemoveOK
  <2>2. ASSUME NEW u \in Writers, u # t, pc[u] \in Removes PROVE RemoveOK(u)'
    <3>1. RemoveOK(u) /\ pc'[u] = pc[u] /\ object'[u] = object[u] /\ string'[u] = string[u]
          /\ object[u] \in Objects
      BY <1>0, <1>5, <2>2, WriterOf DEF TInv, WritesOK
    <3>2. tokens'[object[u]] = None
      BY <1>5, <3>1 DEF RemoveOK
    <3>3. children' = children /\ object_ids' = object_ids /\ node' = node /\ path' = path /\ depth' = depth
      BY <1>2 DEF tree
    <3>4. QED
      BY <3>1, <3>2, <3>3 DEF RemoveOK, Way, Linked
  <2>3. QED
    BY <1>0, <1>1, <1>5, <2>1, <2>2 DEF WritesOK, Inserts, Removes
<1>11. DeadMinded'
  <2>1. ASSUME NEW n \in Nodes, Minded(n) PROVE Minded(n)'
    <3>1. PICK u \in Writers : \/ pc[u] \in {"insert", "attach"} /\ node[u] = n
                               \/ pc[u] = "prune" /\ path[u] # <<>> /\ LastChild(u) = n
      BY <2>1 DEF Minded
    <3>2. u # t /\ u \in Threads
      BY <1>0, <1>1, <3>1
    <3>3. QED
      BY <1>2, <1>5, <3>1, <3>2 DEF Minded, LastChild, LastToken, tree
  <2>2. QED
    BY <1>2, <2>1, SameTree, SameBlocks DEF TInv, DeadMinded, tree
<1>12. QED
  BY <1>6, <1>7, <1>8, <1>9, <1>10, <1>11 DEF TInv

\* A remove on its way down is on the way to its block.
LEMMA RemoveWay ==
    ASSUME TInv, NEW t \in Threads, pc[t] \in {"descend", "step"}
    PROVE  /\ t \in Writers /\ tokens[object[t]] = None /\ object[t] \in Objects
           /\ \E s \in Strings : \E w \in [0..Len(s) -> Nodes] :
                 /\ s = string[t] /\ s \in Seq(Tokens) /\ Len(s) \in Nat \ {0}
                 /\ depth[t] \in 0..Len(s) /\ Way(s, Len(s), w) /\ object[t] \in object_ids[w[Len(s)]]
                 /\ node[t] = w[depth[t]] /\ \A i \in DOMAIN path[t] : path[t][i] = w[i - 1]
<1>1. t \in Writers /\ object[t] \in Objects /\ string[t] \in Strings /\ string[t] \in Seq(Tokens)
      /\ Len(string[t]) \in Nat \ {0} /\ depth[t] \in 0..Len(string[t])
  <2>1. pc[t] \in Inserts \cup Removes
    BY DEF Removes
  <2>2. QED
    BY <2>1, WriterOf DEF TInv
<1>2. RemoveOK(t)
  BY <1>1 DEF TInv, WritesOK, Removes
<1>3. QED
  BY <1>1, <1>2 DEF RemoveOK

\* A step of a remove that leaves the tree alone and stays on its way.
LEMMA RemoveMoves ==
    ASSUME TInv, Shape', NEW t \in Threads, UNCHANGED <<tree, tokens, object, string>>,
           pc[t] \in {"descend", "step"}, pc'[t] \in {"descend", "step"}, RemoveOK(t)',
           \A u \in Threads \ {t} : pc'[u] = pc[u] /\ depth'[u] = depth[u] /\ node'[u] = node[u]
                                 /\ path'[u] = path[u]
    PROVE  TInv'
<1>0. t \in Writers /\ Writers \subseteq Threads
  BY RemoveWay, TreeAssumption
<1>1. Apart'
  BY <1>0 DEF TInv, Apart, Inserts
<1>2. Forest'
  BY SameBlocks DEF TInv
<1>3. BlocksOwned' /\ BlocksStored'
  <2>1. ASSUME NEW p \in Objects, NEW r \in Strings, Owned(p, r) PROVE Owned(p, r)'
    BY <1>0, <2>1 DEF Owned
  <2>2. BlocksOwned'
    BY <2>1, SameBlocks DEF TInv, BlocksOwned
  <2>3. BlocksStored'
    BY SameBlocks DEF TInv, BlocksStored
  <2>4. QED
    BY <2>2, <2>3
<1>4. WritesOK'
  <2>1. ASSUME NEW u \in Writers, u # t PROVE (InsertOK(u) => InsertOK(u)') /\ (RemoveOK(u) => RemoveOK(u)')
    BY <1>0, <2>1, SameLocals
  <2>2. QED
    BY <1>0, <2>1 DEF TInv, WritesOK, Inserts
<1>5. DeadMinded'
  <2>1. ASSUME NEW n \in Nodes, Minded(n) PROVE Minded(n)'
    <3>1. PICK u \in Writers : \/ pc[u] \in {"insert", "attach"} /\ node[u] = n
                               \/ pc[u] = "prune" /\ path[u] # <<>> /\ LastChild(u) = n
      BY <2>1 DEF Minded
    <3>2. u # t /\ u \in Threads
      BY <1>0, <3>1
    <3>3. QED
      BY <3>1, <3>2 DEF Minded, LastChild, LastToken, tree
  <2>2. QED
    BY <2>1, SameTree, SameBlocks DEF TInv, DeadMinded, tree
<1>6. QED
  BY <1>1, <1>2, <1>3, <1>4, <1>5 DEF TInv

LEMMA DescendStep == ASSUME TInv, Shape', NEW t \in Threads, Descend(t) PROVE TInv'
<1>1. /\ pc[t] = "descend" /\ ~AtEnd(t) /\ path' = [path EXCEPT ![t] = Append(@, node[t])]
      /\ pc' = [pc EXCEPT ![t] = "step"] /\ UNCHANGED <<tree, tokens, object, string, depth, node>>
  BY DEF Descend
<1>2. /\ pc \in [Threads -> Places] /\ path \in [Threads -> Seq(Nodes)] /\ Len(path[t]) = depth[t]
      /\ depth[t] \in Nat
  BY <1>1, TreeAssumption DEF TInv, Shape, TypeOK, CallsOK, CallOK
<1>3. PICK s \in Strings : \E w \in [0..Len(s) -> Nodes] :
         /\ s = string[t] /\ Way(s, Len(s), w) /\ object[t] \in object_ids[w[Len(s)]]
         /\ node[t] = w[depth[t]] /\ \A i \in DOMAIN path[t] : path[t][i] = w[i - 1]
  BY <1>1, RemoveWay
<1>4. PICK w \in [0..Len(s) -> Nodes] :
         /\ s = string[t] /\ Way(s, Len(s), w) /\ object[t] \in object_ids[w[Len(s)]]
         /\ node[t] = w[depth[t]] /\ \A i \in DOMAIN path[t] : path[t][i] = w[i - 1]
  BY <1>3
<1>5. pc'[t] = "step" /\ \A u \in Threads \ {t} : pc'[u] = pc[u] /\ path'[u] = path[u]
  BY <1>1, <1>2
<1>6. \A i \in DOMAIN path'[t] : path'[t][i] = w[i - 1]
  <2>1. PICK q \in Seq(Nodes) : q = path[t] /\ DOMAIN q = 1..Len(q) /\ Len(q) \in Nat
    BY <1>2
  <2>2. path'[t] = Append(q, node[t])
    BY <1>1, <1>2, <2>1
  <2>3. DOMAIN Append(q, node[t]) = 1..(Len(q) + 1)
    BY <2>1
  <2>4. \A i \in 1..Len(q) : Append(q, node[t])[i] = q[i]
    BY <2>1
  <2>5. Append(q, node[t])[Len(q) + 1] = node[t]
    BY <2>1
  <2>6. ASSUME NEW i \in 1..(Len(q) + 1) PROVE Append(q, node[t])[i] = w[i - 1]
    <3>1. CASE i \in 1..Len(q)
      BY <1>4, <2>1, <2>4, <3>1
    <3>2. CASE i = Len(q) + 1
      BY <1>2, <1>4, <2>1, <2>5, <3>2
    <3>3. QED
      BY <2>1, <3>1, <3>2
  <2>7. QED
    BY <2>2, <2>3, <2>6
<1>7. RemoveOK(t)'
  <2>1. children' = children /\ object_ids' = object_ids /\ tokens' = tokens /\ object' = object
        /\ string'[t] = s
        /\ depth' = depth /\ node' = node
    BY <1>1, <1>4 DEF tree
  <2>2. tokens[object[t]] = None
    BY <1>1, RemoveWay
  <2>3. (\E v \in [0..Len(string[t]) -> Nodes] :
            /\ Way(string[t], Len(string[t]), v)
            /\ object[t] \in object_ids[v[Len(string[t])]]
            /\ node[t] = v[depth[t]]
            /\ \A i \in DOMAIN path[t] : path[t][i] = v[i - 1])'
    BY <1>4, <1>6, <2>1 DEF Way
  <2>4. QED
    BY <1>5, <2>1, <2>2, <2>3 DEF RemoveOK
<1>8. QED
  BY <1>1, <1>5, <1>7, RemoveMoves

LEMMA StepStep == ASSUME TInv, Shape', NEW t \in Threads, Step(t) PROVE TInv'
<1>1. /\ pc[t] = "step" /\ pc' = [pc EXCEPT ![t] = "descend"] /\ node' = [node EXCEPT ![t] = Child(t)]
      /\ depth' = [depth EXCEPT ![t] = @ + 1] /\ UNCHANGED <<tree, tokens, object, string, path>>
  BY DEF Step, Move
<1>2. /\ pc \in [Threads -> Places] /\ node \in [Threads -> Nodes] /\ depth \in [Threads -> 0..MaxLength]
      /\ depth[t] < Len(string[t])
  BY <1>1 DEF TInv, Shape, TypeOK, CallsOK, CallOK
<1>3. PICK s \in Strings : \E w \in [0..Len(s) -> Nodes] :
         /\ s = string[t] /\ s \in Seq(Tokens) /\ Len(s) \in Nat \ {0} /\ depth[t] \in 0..Len(s)
         /\ Way(s, Len(s), w) /\ object[t] \in object_ids[w[Len(s)]]
         /\ node[t] = w[depth[t]] /\ \A i \in DOMAIN path[t] : path[t][i] = w[i - 1]
  BY <1>1, RemoveWay
<1>4. PICK w \in [0..Len(s) -> Nodes] :
         /\ s = string[t] /\ s \in Seq(Tokens) /\ Len(s) \in Nat \ {0} /\ depth[t] \in 0..Len(s)
         /\ Way(s, Len(s), w) /\ object[t] \in object_ids[w[Len(s)]]
         /\ node[t] = w[depth[t]] /\ \A i \in DOMAIN path[t] : path[t][i] = w[i - 1]
  BY <1>3
<1>5. /\ pc'[t] = "descend" /\ node'[t] = Child(t) /\ depth'[t] = depth[t] + 1
      /\ \A u \in Threads \ {t} : pc'[u] = pc[u] /\ node'[u] = node[u] /\ depth'[u] = depth[u]
  BY <1>1, <1>2
<1>6. Child(t) = w[depth[t] + 1]
  <2>1. depth[t] + 1 \in 1..Len(s) /\ (depth[t] + 1) - 1 = depth[t]
    BY <1>2, <1>4
  <2>2. children[w[depth[t]]][s[depth[t] + 1]] = w[depth[t] + 1]
    BY <1>4, <2>1 DEF Way
  <2>3. QED
    BY <1>4, <2>2 DEF Child, Token
<1>7. RemoveOK(t)'
  <2>1. children' = children /\ object_ids' = object_ids /\ tokens' = tokens /\ object' = object
        /\ string'[t] = s
        /\ path' = path
    BY <1>1, <1>4 DEF tree
  <2>2. tokens[object[t]] = None
    BY <1>1, RemoveWay
  <2>3. node'[t] = w[depth'[t]]
    BY <1>5, <1>6
  <2>4. (\E v \in [0..Len(string[t]) -> Nodes] :
            /\ Way(string[t], Len(string[t]), v)
            /\ object[t] \in object_ids[v[Len(string[t])]]
            /\ node[t] = v[depth[t]]
            /\ \A i \in DOMAIN path[t] : path[t][i] = v[i - 1])'
    <3>1. (Way(s, Len(s), w) /\ object[t] \in object_ids[w[Len(s)]])'
      BY <1>4, <2>1 DEF Way
    <3>2. string'[t] = s /\ w \in [0..Len(s) -> Nodes] /\ \A i \in DOMAIN path'[t] : path'[t][i] = w[i - 1]
      BY <1>4, <2>1
    <3>3. QED
      BY <2>3, <3>1, <3>2 DEF Way
  <2>5. QED
    BY <1>5, <2>1, <2>2, <2>4 DEF RemoveOK
<1>8. QED
  BY <1>1, <1>5, <1>7, RemoveMoves

\* The node that is emptied, if it is, is the child the remove prunes next.
LEMMA DiscardStep == ASSUME TInv, Shape', NEW t \in Threads, Discard(t) PROVE TInv'
<1>1. /\ pc[t] = "descend" /\ depth[t] = Len(string[t]) /\ pc' = [pc EXCEPT ![t] = "prune"]
      /\ object_ids' = [object_ids EXCEPT ![node[t]] = @ \ {object[t]}]
      /\ UNCHANGED <<children, tokens, object, string, depth, node, path>>
  BY DEF Discard, Goto, call, AtEnd
<1>2. /\ pc \in [Threads -> Places] /\ object_ids \in [Nodes -> SUBSET Objects] /\ path[t] \in Seq(Nodes)
      /\ Len(path[t]) = depth[t] /\ Writers \subseteq Threads
  BY <1>1, TreeAssumption DEF TInv, Shape, TypeOK, CallsOK, CallOK
<1>3. PICK s \in Strings : \E w \in [0..Len(s) -> Nodes] :
         /\ s = string[t] /\ s \in Seq(Tokens) /\ Len(s) \in Nat \ {0}
         /\ Way(s, Len(s), w) /\ object[t] \in object_ids[w[Len(s)]]
         /\ node[t] = w[depth[t]] /\ \A i \in DOMAIN path[t] : path[t][i] = w[i - 1]
  BY <1>1, RemoveWay
<1>4. PICK w \in [0..Len(s) -> Nodes] :
         /\ s = string[t] /\ s \in Seq(Tokens) /\ Len(s) \in Nat \ {0}
         /\ Way(s, Len(s), w) /\ object[t] \in object_ids[w[Len(s)]]
         /\ node[t] = w[depth[t]] /\ \A i \in DOMAIN path[t] : path[t][i] = w[i - 1]
  BY <1>3
<1>5. PICK o \in Objects, n \in Nodes : o = object[t] /\ n = w[Len(s)] /\ n = node[t]
  <2>1. object[t] \in Objects
    BY <1>1, RemoveWay
  <2>2. w[Len(s)] \in Nodes
    BY <1>4
  <2>3. QED
    BY <1>1, <1>4, <2>1, <2>2
<1>6. t \in Writers /\ tokens[o] = None
  BY <1>1, <1>5, RemoveWay
<1>7. /\ \A m \in Nodes : object_ids'[m] = IF m = n THEN object_ids[n] \ {o} ELSE object_ids[m]
      /\ pc'[t] = "prune" /\ \A u \in Threads \ {t} : pc'[u] = pc[u]
  BY <1>1, <1>2, <1>5
<1>8. /\ \A r, e, v : Way(r, e, v)' <=> Way(r, e, v)
      /\ \A m : Linked(m)' <=> Linked(m)
  BY <1>1, SameTree
<1>9. \A m \in Nodes : (Empty(m) => Empty(m)') /\ (Empty(m)' => Empty(m) \/ m = n)
  BY <1>1, <1>7 DEF Empty
<1>10. Apart'
  BY <1>1, <1>2, <1>7 DEF TInv, Apart, Inserts
<1>11. Forest'
  <2>1. Forest /\ children' = children
    BY <1>1 DEF TInv
  <2>2. QED
    BY <1>8, <1>9, <2>1 DEF Forest
<1>12. BlocksOwned'
  <2>1. ASSUME NEW p \in Objects, NEW r \in Strings, Stored(p, r)' PROVE Owned(p, r)'
    <3>1. PICK v \in [0..Len(r) -> Nodes] : Way(r, Len(r), v) /\ p \in object_ids'[v[Len(r)]]
      BY <1>8, <2>1 DEF Stored
    <3>2. v[Len(r)] \in Nodes
      BY EndIsNode
    <3>3. p \in object_ids[v[Len(r)]] /\ ~(p = o /\ v[Len(r)] = n)
      BY <1>7, <3>1, <3>2
    <3>4. Owned(p, r)
      BY <3>1, <3>3 DEF TInv, BlocksOwned, Stored
    <3>5. ~(p = o /\ r = s)
      <4>1. SUFFICES ASSUME p = o, r = s PROVE FALSE
        OBVIOUS
      <4>2. Way(s, Len(s), v) /\ Len(s) \in Nat /\ Len(s) <= Len(s)
        BY <1>4, <3>1, <4>1
      <4>3. \A i \in 0..Len(s) : w[i] = v[i]
        BY <1>4, <4>2, WaysAgree
      <4>4. w[Len(s)] = v[Len(s)]
        BY <1>4, <4>3
      <4>5. QED
        BY <1>5, <3>3, <4>1, <4>4
    <3>6. CASE tokens[p] = r
      BY <1>1, <3>6 DEF Owned
    <3>7. CASE \E u \in Writers : object[u] = p /\ string[u] = r /\ pc[u] \in {"register", "descend", "step"}
      <4>1. PICK u \in Writers : object[u] = p /\ string[u] = r /\ pc[u] \in {"register", "descend", "step"}
        BY <3>7
      <4>2. u # t
        BY <1>4, <1>5, <3>5, <4>1
      <4>3. object'[u] = p /\ string'[u] = r /\ pc'[u] = pc[u]
        BY <1>1, <1>2, <1>7, <4>1, <4>2
      <4>4. QED
        BY <4>1, <4>3 DEF Owned
    <3>8. QED
      BY <3>4, <3>6, <3>7 DEF Owned
  <2>2. QED
    BY <2>1 DEF BlocksOwned
<1>13. BlocksStored'
  <2>1. ASSUME NEW p \in Objects, tokens[p] # None PROVE Stored(p, tokens[p])'
    <3>1. PICK r \in Strings : r = tokens[p]
      BY <2>1 DEF TInv, Shape, TypeOK
    <3>2. PICK v \in [0..Len(r) -> Nodes] : Way(r, Len(r), v) /\ p \in object_ids[v[Len(r)]]
      BY <2>1, <3>1 DEF TInv, BlocksStored, Stored
    <3>3. v[Len(r)] \in Nodes
      BY EndIsNode
    <3>4. Way(r, Len(r), v)' /\ p \in object_ids'[v[Len(r)]]
      BY <1>6, <1>7, <1>8, <2>1, <3>2, <3>3
    <3>5. r = tokens'[p]
      BY <1>1, <3>1
    <3>6. QED
      BY <3>4, <3>5 DEF Stored, Way
  <2>2. QED
    BY <1>1, <2>1 DEF BlocksStored
<1>14. WritesOK'
  <2>1. RemoveOK(t)'
    <3>1. PICK q \in Seq(Nodes) : q = path[t] /\ q = path'[t] /\ Len(q) = Len(s) /\ DOMAIN q = 1..Len(q)
      BY <1>1, <1>2, <1>4
    <3>2. \A i \in 1..Len(s) : q[i] = w[i - 1]
      BY <1>4, <3>1
    <3>3. q[1] = Root
      BY <1>4, <3>2 DEF Way
    <3>4. ASSUME NEW i \in 1..(Len(q) - 1) PROVE children'[q[i]][s[i]] = q[i + 1]
      <4>1. i \in 1..Len(s) /\ i + 1 \in 1..Len(s) /\ (i + 1) - 1 = i
        BY <1>4, <3>1
      <4>2. children[w[i - 1]][s[i]] = w[i]
        BY <1>4, <4>1 DEF Way
      <4>3. QED
        BY <1>1, <3>2, <4>1, <4>2
    <3>5. tokens'[object'[t]] = None /\ string'[t] = s
      BY <1>1, <1>4, <1>5, <1>6
    <3>6. QED
      BY <1>7, <3>1, <3>3, <3>4, <3>5 DEF RemoveOK
  <2>2. ASSUME NEW u \in Writers, u # t, pc[u] \in Removes PROVE RemoveOK(u)'
    <3>1. RemoveOK(u) /\ pc'[u] = pc[u] /\ u \in Threads
      BY <1>2, <1>7, <2>2 DEF TInv, WritesOK
    <3>2. object[u] # o
      BY <1>5, <1>6, <2>2, TreeAssumption DEF TInv, Apart
    <3>3. CASE pc[u] \in {"descend", "step"}
      <4>1. PICK v \in [0..Len(string[u]) -> Nodes] :
              /\ Way(string[u], Len(string[u]), v)
              /\ object[u] \in object_ids[v[Len(string[u])]]
              /\ node[u] = v[depth[u]]
              /\ \A i \in DOMAIN path[u] : path[u][i] = v[i - 1]
        BY <3>1, <3>3 DEF RemoveOK
      <4>2. v[Len(string[u])] \in Nodes
        <5>1. Len(string[u]) \in 0..Len(string[u])
          BY <3>1, <3>3, WriterOf DEF TInv, Removes
        <5>2. QED
          BY <4>1, <5>1
      <4>3. object[u] \in object_ids'[v[Len(string[u])]]
        BY <1>7, <3>2, <4>1, <4>2
      <4>4. (\E x \in [0..Len(string[u]) -> Nodes] :
                /\ Way(string[u], Len(string[u]), x)
                /\ object[u] \in object_ids[x[Len(string[u])]]
                /\ node[u] = x[depth[u]]
                /\ \A i \in DOMAIN path[u] : path[u][i] = x[i - 1])'
        <5>1. Way(string[u], Len(string[u]), v)'
          BY <1>1, <4>1 DEF Way
        <5>2. string' = string /\ object' = object /\ node' = node /\ depth' = depth /\ path' = path
          BY <1>1
        <5>3. QED
          BY <4>1, <4>3, <5>1, <5>2
      <4>5. tokens'[object'[u]] = None
        BY <1>1, <3>1 DEF RemoveOK
      <4>6. QED
        BY <3>1, <3>3, <4>4, <4>5 DEF RemoveOK
    <3>4. CASE pc[u] = "prune"
      BY <1>1, <1>8, <3>1, <3>4 DEF RemoveOK
    <3>5. QED
      BY <2>2, <3>3, <3>4 DEF Removes
  <2>3. ASSUME NEW u \in Writers PROVE pc'[u] \notin Inserts
    BY <1>1, <1>2, <1>6, <1>7, <2>3 DEF TInv, Apart, Inserts
  <2>4. QED
    BY <1>2, <1>6, <1>7, <2>1, <2>2, <2>3 DEF WritesOK
<1>15. DeadMinded'
  <2>1. ASSUME NEW m \in Nodes, Linked(m)', Empty(m)' PROVE Minded(m)'
    <3>1. CASE m = n
      <4>1. LastChild(t) = n
        <5>1. PICK q \in Seq(Nodes) : q = path[t] /\ Len(q) = Len(s) /\ DOMAIN q = 1..Len(q) /\ q # <<>>
          BY <1>1, <1>2, <1>4
        <5>2. Len(s) \in 1..Len(s) /\ Last(q) = q[Len(s)]
          BY <1>4, <5>1 DEF Last
        <5>3. q[Len(s)] = w[Len(s) - 1]
          BY <1>4, <5>1, <5>2
        <5>4. children[w[Len(s) - 1]][s[Len(s)]] = n
          BY <1>4, <1>5, <5>2 DEF Way
        <5>5. QED
          BY <1>4, <5>1, <5>2, <5>3, <5>4 DEF LastChild, LastToken
      <4>2. LastChild(t)' = n
        BY <1>1, <4>1 DEF LastChild, LastToken
      <4>3. path'[t] # <<>>
        BY <1>1, <1>2, <1>4
      <4>4. QED
        BY <1>6, <1>7, <3>1, <4>2, <4>3 DEF Minded
    <3>2. CASE m # n
      <4>1. Minded(m)
        BY <1>8, <1>9, <2>1, <3>2 DEF TInv, DeadMinded
      <4>2. PICK u \in Writers : \/ pc[u] \in {"insert", "attach"} /\ node[u] = m
                                 \/ pc[u] = "prune" /\ path[u] # <<>> /\ LastChild(u) = m
        BY <4>1 DEF Minded
      <4>3. u # t /\ pc'[u] = pc[u]
        BY <1>1, <1>2, <1>7, <4>2
      <4>4. QED
        BY <1>1, <4>2, <4>3 DEF Minded, LastChild, LastToken
    <3>3. QED
      BY <3>1, <3>2
  <2>2. QED
    BY <2>1 DEF DeadMinded
<1>16. QED
  BY <1>10, <1>11, <1>12, <1>13, <1>14, <1>15 DEF TInv

\* What a remove has in hand when it prunes: the link it cuts, between two nodes of its path.
LEMMA PruneLink ==
    ASSUME TInv, NEW t \in Threads, Prune(t)
    PROVE  \E q \in Seq(Nodes), p \in Nodes, k \in Tokens, c \in Nodes :
              /\ q = path[t] /\ Len(q) \in Nat \ {0} /\ p = q[Len(q)] /\ k = string[t][Len(q)]
              /\ c = LastChild(t) /\ children[p][k] = c /\ Empty(c)
              /\ children' = [children EXCEPT ![p][k] = None]
              /\ path'[t] \in Seq(Nodes) /\ Len(path'[t]) = Len(q) - 1
              /\ \A i \in 1..(Len(q) - 1) : path'[t][i] = q[i]
<1>1. /\ pc[t] = "prune" /\ path[t] # <<>> /\ path[t] \in Seq(Nodes) /\ path \in [Threads -> Seq(Nodes)]
      /\ Len(path[t]) <= depth[t] /\ LastChild(t) # None /\ Empty(LastChild(t))
      /\ children' = [children EXCEPT ![Last(path[t])][LastToken(t)] = None]
      /\ path' = [path EXCEPT ![t] = Front(@)]
  BY DEF Prune, TInv, Shape, TypeOK, CallsOK, CallOK
<1>2. /\ Front(path[t]) \in Seq(Nodes) /\ Len(Front(path[t])) = Len(path[t]) - 1
      /\ Len(path[t]) \in Nat \ {0} /\ Last(path[t]) = path[t][Len(path[t])]
      /\ \A i \in 1..(Len(path[t]) - 1) : Front(path[t])[i] = path[t][i]
  BY <1>1, FrontOf
<1>3. string[t] \in Seq(Tokens) /\ depth[t] <= Len(string[t]) /\ depth[t] \in Nat /\ Len(string[t]) \in Nat
  BY <1>1, WriterOf DEF TInv, Removes
<1>4. LastToken(t) \in Tokens /\ Last(path[t]) \in Nodes /\ LastToken(t) = string[t][Len(path[t])]
  BY <1>1, <1>2, <1>3 DEF LastToken
<1>5. LastChild(t) \in Nodes
  BY <1>1, <1>4 DEF LastChild, TInv, Shape, TypeOK
<1>6. children[Last(path[t])][LastToken(t)] = LastChild(t)
  BY DEF LastChild
<1>7. path'[t] = Front(path[t])
  BY <1>1
<1>8. QED
  BY <1>1, <1>2, <1>4, <1>5, <1>6, <1>7

\* What is cut off is empty; a parent it empties is the child to be pruned next.
LEMMA PruneStep == ASSUME TInv, Shape', NEW t \in Threads, Prune(t) PROVE TInv'
<1>1. PICK q \in Seq(Nodes), p \in Nodes, k \in Tokens, c \in Nodes :
         /\ q = path[t] /\ Len(q) \in Nat \ {0} /\ p = q[Len(q)] /\ k = string[t][Len(q)]
         /\ c = LastChild(t) /\ children[p][k] = c /\ Empty(c)
         /\ children' = [children EXCEPT ![p][k] = None]
         /\ path'[t] \in Seq(Nodes) /\ Len(path'[t]) = Len(q) - 1
         /\ \A i \in 1..(Len(q) - 1) : path'[t][i] = q[i]
  BY PruneLink
<1>2. /\ pc[t] = "prune" /\ \A u \in Threads \ {t} : path'[u] = path[u]
      /\ UNCHANGED <<object_ids, tokens, pc, object, string, depth, node>>
  BY DEF Prune, TInv, Shape, TypeOK
<1>3. t \in Writers /\ Writers \subseteq Threads /\ RemoveOK(t) /\ \A u \in Writers : pc[u] \notin Inserts
  <2>1. t \in Writers
    BY <1>2, WriterOf DEF TInv, Removes
  <2>2. QED
    BY <1>2, <2>1, TreeAssumption DEF TInv, WritesOK, Removes, Inserts, Apart
<1>4. \A m \in Nodes, j \in Tokens : children'[m][j] = IF m = p /\ j = k THEN None ELSE children[m][j]
  BY <1>1 DEF TInv, Shape, TypeOK
<1>5. c # None /\ p # c /\ object_ids[c] = {} /\ \A j \in Tokens : children[c][j] = None
  BY <1>1, TreeAssumption DEF Empty
<1>6. \A m \in Nodes, j \in Tokens : children[m][j] = c => m = p /\ j = k
  BY <1>1, <1>5 DEF TInv, Forest
<1>7. \A m \in Nodes : Linked(m)' <=> Linked(m) /\ m # c
  <2>1. ASSUME NEW m \in Nodes, Linked(m)' PROVE Linked(m) /\ m # c
    <3>1. PICK a \in Nodes, j \in Tokens : children'[a][j] = m
      BY <2>1 DEF Linked
    <3>2. children[a][j] = m /\ ~(a = p /\ j = k)
      BY <1>4, <3>1, TreeAssumption
    <3>3. QED
      BY <1>6, <3>2 DEF Linked
  <2>2. ASSUME NEW m \in Nodes, Linked(m), m # c PROVE Linked(m)'
    <3>1. PICK a \in Nodes, j \in Tokens : children[a][j] = m
      BY <2>2 DEF Linked
    <3>2. children'[a][j] = m
      BY <1>1, <1>4, <2>2, <3>1
    <3>3. QED
      BY <3>2 DEF Linked
  <2>3. QED
    BY <2>1, <2>2
<1>8. \A m \in Nodes : (Empty(m) => Empty(m)') /\ (Empty(m)' => Empty(m) \/ m = p)
  <2>1. ASSUME NEW m \in Nodes PROVE (Empty(m) => Empty(m)') /\ (Empty(m)' => Empty(m) \/ m = p)
    BY <1>2, <1>4 DEF Empty
  <2>2. QED
    BY <2>1
<1>9. \A r \in Strings : r \in Seq(Tokens) /\ Len(r) \in Nat /\ Len(r) \in 0..Len(r)
  BY TreeAssumption
<1>10. ASSUME NEW r \in Strings, NEW e \in 0..Len(r), NEW w
       PROVE  /\ Way(r, e, w)' => Way(r, e, w)
              /\ Way(r, e, w) /\ w[e] # c => Way(r, e, w)'
  <2>1. r \in Seq(Tokens) /\ e \in Nat
    BY <1>9
  <2>2. ASSUME Way(r, e, w)' PROVE Way(r, e, w)
    <3>1. w \in [0..e -> Nodes] /\ w[0] = Root /\ \A i \in 1..e : children'[w[i - 1]][r[i]] = w[i]
      BY <2>2 DEF Way
    <3>2. ASSUME NEW i \in 1..e PROVE children[w[i - 1]][r[i]] = w[i]
      <4>1. w[i - 1] \in Nodes /\ w[i] # None /\ r[i] \in Tokens /\ children'[w[i - 1]][r[i]] = w[i]
        BY <2>1, <3>1, TreeAssumption
      <4>2. QED
        BY <1>4, <4>1
    <3>3. QED
      BY <3>1, <3>2 DEF Way
  <2>3. ASSUME Way(r, e, w), w[e] # c PROVE Way(r, e, w)'
    <3>1. w \in [0..e -> Nodes] /\ w[0] = Root /\ \A i \in 1..e : children[w[i - 1]][r[i]] = w[i]
      BY <2>3 DEF Way
    <3>2. \A i \in 1..e : w[i - 1] \in Nodes /\ w[i] \in Nodes /\ w[i] # None /\ r[i] \in Tokens
      BY <2>1, <3>1, TreeAssumption
    <3>3. ASSUME NEW i \in 1..e PROVE w[i - 1] # c
      <4>1. r[i] \in Tokens /\ w[i] # None /\ children[w[i - 1]][r[i]] = w[i]
        BY <3>1, <3>2
      <4>2. children[c][r[i]] = None
        BY <1>5, <4>1
      <4>3. QED
        BY <4>1, <4>2
    <3>4. ASSUME NEW i \in 1..e PROVE w[i] # c
      <4>1. CASE i = e
        BY <2>3, <4>1
      <4>2. CASE i < e
        <5>1. i + 1 \in 1..e /\ (i + 1) - 1 = i
          BY <2>1, <4>2
        <5>2. QED
          BY <3>3, <5>1
      <4>3. QED
        BY <2>1, <4>1, <4>2
    <3>5. ASSUME NEW i \in 1..e PROVE children'[w[i - 1]][r[i]] = w[i]
      <4>1. w[i - 1] \in Nodes /\ r[i] \in Tokens /\ children[w[i - 1]][r[i]] = w[i] /\ w[i] # c
        BY <3>1, <3>2, <3>4
      <4>2. ~(w[i - 1] = p /\ r[i] = k)
        BY <1>1, <4>1
      <4>3. QED
        BY <1>4, <4>1, <4>2
    <3>6. QED
      BY <3>1, <3>5 DEF Way
  <2>4. QED
    BY <2>2, <2>3
<1>11. Apart'
  BY <1>2 DEF TInv, Apart
<1>12. Forest'
  <2>1. ASSUME NEW a \in Nodes, NEW b \in Nodes, NEW i \in Tokens, NEW j \in Tokens,
               children'[a][i] # None, children'[a][i] = children'[b][j]
        PROVE  a = b /\ i = j
    <3>1. children[a][i] # None /\ children[a][i] = children[b][j]
      BY <1>4, <2>1
    <3>2. QED
      BY <3>1 DEF TInv, Forest
  <2>2. ~Linked(Root)'
    BY <1>7, RootIsNode DEF TInv, Forest
  <2>3. ASSUME NEW m \in Nodes \ {Root}, ~Linked(m)' PROVE Empty(m)'
    BY <1>1, <1>7, <1>8, <2>3 DEF TInv, Forest
  <2>4. ASSUME NEW m \in Nodes, Linked(m)'
        PROVE  \E r \in Strings : \E e \in 1..Len(r) : \E v \in [0..e -> Nodes] : Way(r, e, v)' /\ v[e] = m
    <3>1. Linked(m) /\ m # c
      BY <1>7, <2>4
    <3>2. PICK r \in Strings : \E e \in 1..Len(r) : \E v \in [0..e -> Nodes] : Way(r, e, v) /\ v[e] = m
      BY <3>1, LinkedWay DEF TInv
    <3>3. PICK e \in 1..Len(r) : \E v \in [0..e -> Nodes] : Way(r, e, v) /\ v[e] = m
      BY <3>2
    <3>4. PICK v \in [0..e -> Nodes] : Way(r, e, v) /\ v[e] = m
      BY <3>3
    <3>5. e \in 0..Len(r)
      BY <1>9
    <3>6. QED
      BY <1>10, <3>1, <3>4, <3>5
  <2>5. QED
    BY <2>1, <2>2, <2>3, <2>4 DEF Forest
<1>13. BlocksOwned'
  <2>1. ASSUME NEW o \in Objects, NEW r \in Strings, Stored(o, r)' PROVE Owned(o, r)'
    <3>1. PICK v \in [0..Len(r) -> Nodes] : Way(r, Len(r), v)' /\ o \in object_ids[v[Len(r)]]
      BY <1>2, <2>1 DEF Stored
    <3>2. Way(r, Len(r), v)
      BY <1>9, <1>10, <3>1
    <3>3. Owned(o, r)
      BY <3>1, <3>2 DEF TInv, BlocksOwned, Stored
    <3>4. QED
      BY <1>2, <3>3 DEF Owned
  <2>2. QED
    BY <2>1 DEF BlocksOwned
<1>14. ASSUME NEW r \in Strings, NEW o, NEW v \in [0..Len(r) -> Nodes],
              Way(r, Len(r), v), o \in object_ids[v[Len(r)]]
       PROVE  Way(r, Len(r), v)'
  <2>1. v[Len(r)] # c
    BY <1>5, <1>14
  <2>2. QED
    BY <1>9, <1>10, <1>14, <2>1
<1>15. BlocksStored'
  <2>1. ASSUME NEW o \in Objects, tokens[o] # None PROVE Stored(o, tokens[o])'
    <3>1. PICK r \in Strings : r = tokens[o] /\ r = tokens'[o]
      BY <1>2, <2>1 DEF TInv, Shape, TypeOK
    <3>2. PICK v \in [0..Len(r) -> Nodes] : Way(r, Len(r), v) /\ o \in object_ids[v[Len(r)]]
      BY <2>1, <3>1 DEF TInv, BlocksStored, Stored
    <3>3. Way(r, Len(r), v)' /\ o \in object_ids'[v[Len(r)]]
      BY <1>2, <1>14, <3>2
    <3>4. QED
      BY <3>1, <3>3 DEF Stored, Way
  <2>2. QED
    BY <1>2, <2>1 DEF BlocksStored
<1>16. ASSUME NEW u \in Writers, pc[u] = "prune", path[u] \in Seq(Nodes), Len(path[u]) \in Nat \ {0},
              NEW i \in 1..(Len(path[u]) - 1), NEW a \in Nodes, NEW b \in Nodes,
              a = path[u][i], b = path[u][i + 1], Linked(b)'
       PROVE  children'[a][string[u][i]] = b
  <2>1. Linked(b) /\ b # c /\ path[u] # <<>>
    BY <1>7, <1>16
  <2>2. children[a][string[u][i]] = b
    BY <1>16, <2>1 DEF TInv, WritesOK, Removes, RemoveOK
  <2>3. string[u][i] \in Tokens
    <3>1. string[u] \in Seq(Tokens) /\ Len(string[u]) \in Nat /\ depth[u] <= Len(string[u])
          /\ depth[u] \in Nat
      BY <1>3, <1>16, WriterOf DEF TInv, Removes
    <3>2. Len(path[u]) <= depth[u]
      BY <1>3, <1>16 DEF TInv, Shape, CallsOK, CallOK
    <3>3. i \in 1..Len(string[u])
      BY <1>16, <3>1, <3>2
    <3>4. QED
      BY <3>1, <3>3
  <2>4. ~(a = p /\ string[u][i] = k)
    BY <1>1, <2>1, <2>2
  <2>5. QED
    BY <1>4, <2>2, <2>3, <2>4
<1>20. ASSUME NEW i \in 1..(Len(q) - 1), NEW b \in Nodes, b = q[i + 1], Linked(b)'
       PROVE  children'[q[i]][string[t][i]] = b
  <2>1. q = path[t] /\ path[t] \in Seq(Nodes) /\ Len(path[t]) \in Nat \ {0}
    BY <1>1
  <2>2. PICK j \in 1..(Len(path[t]) - 1), a \in Nodes : j = i /\ a = path[t][j] /\ b = path[t][j + 1]
    BY <1>20, <2>1
  <2>3. children'[a][string[t][j]] = b
    <3> HIDE <1>1
    <3>1. QED
      BY <1>2, <1>3, <1>16, <1>20, <2>1, <2>2
  <2>4. QED
    BY <2>1, <2>2, <2>3
<1>17. WritesOK'
  <2>1. RemoveOK(t)'
    <3>1. tokens'[object'[t]] = None /\ pc'[t] = "prune"
      BY <1>2, <1>3 DEF RemoveOK
    <3>2. ASSUME path'[t] # <<>> PROVE path'[t][1] = Root
      <4>1. Len(path'[t]) \in Nat \ {0}
        BY <1>1, <3>2
      <4>2. 1 \in 1..(Len(q) - 1) /\ q # <<>>
        <5>1. Len(q) \in Nat /\ Len(q) - 1 \in Nat \ {0}
          BY <1>1, <4>1
        <5>2. 1 \in 1..(Len(q) - 1)
          <6>1. \A x \in Nat : x - 1 \in Nat \ {0} => 1 \in 1..(x - 1)
            OBVIOUS
          <6>2. QED
            BY <5>1, <6>1
        <5>3. q # <<>>
          BY <5>1
        <5>4. QED
          BY <5>2, <5>3
      <4>3. q[1] = Root
        BY <1>1, <1>2, <1>3, <4>2 DEF RemoveOK
      <4>4. QED
        BY <1>1, <4>2, <4>3
    <3>3. ASSUME NEW i \in 1..(Len(path'[t]) - 1), NEW b, b = path'[t][i + 1], Linked(b)'
          PROVE  children'[path'[t][i]][string'[t][i]] = b
      <4>1. i \in 1..(Len(q) - 1) /\ i + 1 \in 1..(Len(q) - 1) /\ i \in 1..Len(q) /\ i + 1 \in 1..Len(q)
        <5>1. i \in 1..((Len(q) - 1) - 1) /\ Len(q) \in Nat \ {0}
          BY <1>1
        <5>2. QED
          BY <5>1
      <4>2. path'[t][i] = q[i] /\ b = q[i + 1]
        BY <1>1, <3>3, <4>1
      <4>3. q[i] \in Nodes /\ q[i + 1] \in Nodes
        BY <4>1
      <4>4. children'[q[i]][string[t][i]] = b
        BY <1>20, <3>3, <4>1, <4>2, <4>3
      <4>5. QED
        BY <1>2, <4>2, <4>4
    <3>4. (path[t] # <<>> =>
             /\ path[t][1] = Root
             /\ \A i \in 1..(Len(path[t]) - 1) :
                   Linked(path[t][i + 1]) => children[path[t][i]][string[t][i]] = path[t][i + 1])'
      BY <3>2, <3>3 DEF Linked
    <3>5. QED
      BY <3>1, <3>4 DEF RemoveOK
  <2>2. ASSUME NEW u \in Writers, u # t, pc[u] \in Removes PROVE RemoveOK(u)'
    <3>1. RemoveOK(u) /\ u \in Threads /\ path'[u] = path[u] /\ path[u] \in Seq(Nodes)
      BY <1>2, <1>3, <2>2 DEF TInv, WritesOK, Shape, TypeOK
    <3>2. CASE pc[u] \in {"descend", "step"}
      <4>1. PICK v \in [0..Len(string[u]) -> Nodes] :
              /\ Way(string[u], Len(string[u]), v)
              /\ object[u] \in object_ids[v[Len(string[u])]]
              /\ node[u] = v[depth[u]]
              /\ \A i \in DOMAIN path[u] : path[u][i] = v[i - 1]
        BY <3>1, <3>2 DEF RemoveOK
      <4>2. PICK r \in Strings : r = string[u]
        BY <3>1, <3>2, WriterOf DEF TInv, Removes
      <4>3. Way(r, Len(r), v)'
        BY <1>14, <4>1, <4>2
      <4>4. Way(string[u], Len(string[u]), v)'
        BY <1>2, <4>2, <4>3 DEF Way
      <4>5. (\E x \in [0..Len(string[u]) -> Nodes] :
                /\ Way(string[u], Len(string[u]), x)
                /\ object[u] \in object_ids[x[Len(string[u])]]
                /\ node[u] = x[depth[u]]
                /\ \A i \in DOMAIN path[u] : path[u][i] = x[i - 1])'
        <5>1. /\ string' = string /\ object' = object /\ object_ids' = object_ids /\ node' = node
              /\ depth' = depth
              /\ path'[u] = path[u]
          BY <1>2, <3>1
        <5>2. QED
          BY <4>1, <4>4, <5>1
      <4>6. tokens'[object'[u]] = None
        BY <1>2, <3>1 DEF RemoveOK
      <4>7. pc'[u] = pc[u]
        BY <1>2
      <4>8. QED
        BY <3>2, <4>5, <4>6, <4>7 DEF RemoveOK
    <3>3. CASE pc[u] = "prune"
      <4>1. tokens'[object'[u]] = None /\ pc'[u] = "prune"
        BY <1>2, <3>1, <3>3 DEF RemoveOK
      <4>2. path[u] # <<>> => path'[u][1] = Root
        BY <3>1, <3>3 DEF RemoveOK
      <4>3. ASSUME path[u] # <<>>, NEW i \in 1..(Len(path[u]) - 1), NEW b, b = path[u][i + 1], Linked(b)'
            PROVE  children'[path[u][i]][string[u][i]] = b
        <5>1. Len(path[u]) \in Nat \ {0} /\ i \in 1..Len(path[u]) /\ i + 1 \in 1..Len(path[u])
          <6>1. Len(path[u]) \in Nat \ {0}
            BY <3>1, <4>3
          <6>2. QED
            BY <6>1
        <5>2. path[u][i] \in Nodes /\ path[u][i + 1] \in Nodes
          BY <3>1, <5>1
        <5>3. QED
          BY <1>16, <3>1, <3>3, <4>3, <5>1, <5>2
      <4>4. ASSUME path'[u] # <<>>, NEW i \in 1..(Len(path'[u]) - 1), NEW b, b = path'[u][i + 1], Linked(b)'
            PROVE  children'[path'[u][i]][string'[u][i]] = b
        BY <1>2, <3>1, <4>3, <4>4
      <4>5. path'[u] # <<>> => path'[u][1] = Root
        BY <3>1, <4>2
      <4>6. (path[u] # <<>> =>
               /\ path[u][1] = Root
               /\ \A i \in 1..(Len(path[u]) - 1) :
                     Linked(path[u][i + 1]) => children[path[u][i]][string[u][i]] = path[u][i + 1])'
        BY <4>4, <4>5 DEF Linked
      <4>7. QED
        BY <4>1, <4>6 DEF RemoveOK
    <3>4. QED
      BY <2>2, <3>2, <3>3 DEF Removes
  <2>3. QED
    BY <1>2, <1>3, <2>1, <2>2 DEF WritesOK, Removes
<1>18. DeadMinded'
  <2>1. ASSUME NEW m \in Nodes, Linked(m)', Empty(m)' PROVE Minded(m)'
    <3>1. Linked(m) /\ m # c
      BY <1>7, <2>1
    <3>2. CASE Empty(m)
      <4>1. PICK u \in Writers : pc[u] = "prune" /\ path[u] # <<>> /\ LastChild(u) = m
        BY <1>3, <3>1, <3>2 DEF TInv, DeadMinded, Minded, Inserts
      <4>2. u # t /\ u \in Threads /\ path'[u] = path[u]
        BY <1>1, <1>2, <1>3, <3>1, <4>1
      <4>3. Last(path[u]) \in Nodes /\ LastToken(u) \in Tokens
        <5>1. path[u] \in Seq(Nodes) /\ Len(path[u]) <= depth[u]
          BY <4>1, <4>2 DEF TInv, Shape, TypeOK, CallsOK, CallOK
        <5>2. Len(path[u]) \in Nat \ {0} /\ Last(path[u]) = path[u][Len(path[u])]
          BY <4>1, <5>1, FrontOf
        <5>3. string[u] \in Seq(Tokens) /\ Len(string[u]) \in Nat /\ depth[u] <= Len(string[u])
              /\ depth[u] \in Nat
          BY <4>1, <4>2, WriterOf DEF TInv, Removes
        <5>4. Len(path[u]) \in 1..Len(string[u]) /\ Len(path[u]) \in 1..Len(path[u])
          BY <5>1, <5>2, <5>3
        <5>5. QED
          BY <5>1, <5>2, <5>3, <5>4 DEF LastToken
      <4>4. children'[Last(path[u])][LastToken(u)] = m
        BY <1>1, <1>4, <3>1, <4>1, <4>3 DEF LastChild
      <4>5. LastChild(u)' = m
        BY <1>2, <4>2, <4>4 DEF LastChild, LastToken
      <4>6. QED
        BY <1>2, <4>1, <4>2, <4>5 DEF Minded
    <3>3. CASE ~Empty(m)
      <4>1. m = p
        BY <1>8, <2>1, <3>3
      <4>2. Len(q) # 1
        BY <1>1, <1>2, <1>3, <3>1, <4>1 DEF RemoveOK, TInv, Forest
      <4>3. PICK i \in Nat \ {0} : i = Len(q) - 1 /\ i + 1 = Len(q) /\ i \in 1..(Len(q) - 1)
                 /\ i \in 1..Len(q)
        <5>1. Len(q) \in Nat \ {0, 1}
          BY <1>1, <4>2
        <5>2. PICK i \in Nat \ {0} : i = Len(q) - 1
          <6>1. \A x \in Nat \ {0, 1} : x - 1 \in Nat \ {0}
            OBVIOUS
          <6>2. QED
            BY <5>1, <6>1
        <5>3. i + 1 = Len(q) /\ i \in 1..(Len(q) - 1) /\ i \in 1..Len(q)
          BY <5>1, <5>2
        <5>4. QED
          BY <5>2, <5>3
      <4>4. q[i] \in Nodes /\ q[i] = path[t][i] /\ m = path[t][i + 1]
        BY <1>1, <4>1, <4>3
      <4>5. children'[q[i]][string[t][i]] = m
        BY <1>1, <1>20, <2>1, <4>3, <4>4
      <4>6. LastChild(t)' = m
        <5>1. Last(path'[t]) = q[i] /\ path'[t] # <<>> /\ Len(path'[t]) = i
          BY <1>1, <4>3 DEF Last
        <5>2. QED
          BY <1>2, <4>5, <5>1 DEF LastChild, LastToken
      <4>7. path'[t] # <<>>
        BY <1>1, <4>3
      <4>8. QED
        BY <1>2, <1>3, <4>6, <4>7 DEF Minded
    <3>4. QED
      BY <3>2, <3>3
  <2>2. QED
    BY <2>1 DEF DeadMinded
<1>19. QED
  BY <1>11, <1>12, <1>13, <1>15, <1>17, <1>18 DEF TInv

\* A remove ends at the root, at a node in use or at one another thread has cut off: no empty node
\* is left to it.
LEMMA EndRemoveStep == ASSUME TInv, Shape', NEW t \in Threads, EndRemove(t) PROVE TInv'
<1>1. /\ pc' = [pc EXCEPT ![t] = "idle"] /\ object' = [object EXCEPT ![t] = None]
      /\ string' = [string EXCEPT ![t] = <<>>] /\ depth' = [depth EXCEPT ![t] = 0]
      /\ node' = [node EXCEPT ![t] = Root] /\ path' = [path EXCEPT ![t] = <<>>] /\ UNCHANGED <<tree, tokens>>
  BY DEF EndRemove, Return
<1>2. ~(pc[t] \in {"descend", "step"} /\ ~AtEnd(t) /\ Child(t) = None)
  <2>1. SUFFICES ASSUME pc[t] \in {"descend", "step"}, ~AtEnd(t), Child(t) = None PROVE FALSE
    OBVIOUS
  <2>2. PICK s \in Strings : \E w \in [0..Len(s) -> Nodes] :
           /\ s = string[t] /\ s \in Seq(Tokens) /\ Len(s) \in Nat \ {0} /\ depth[t] \in 0..Len(s)
           /\ Way(s, Len(s), w) /\ node[t] = w[depth[t]]
    BY <2>1, RemoveWay
  <2>3. PICK w \in [0..Len(s) -> Nodes] :
           /\ s = string[t] /\ s \in Seq(Tokens) /\ Len(s) \in Nat \ {0} /\ depth[t] \in 0..Len(s)
           /\ Way(s, Len(s), w) /\ node[t] = w[depth[t]]
    BY <2>2
  <2>4. depth[t] + 1 \in 1..Len(s) /\ (depth[t] + 1) - 1 = depth[t]
    BY <2>1, <2>3 DEF AtEnd
  <2>5. children[w[depth[t]]][s[depth[t] + 1]] = w[depth[t] + 1] /\ w[depth[t] + 1] \in Nodes
    BY <2>3, <2>4 DEF Way
  <2>6. QED
    BY <2>1, <2>3, <2>5, TreeAssumption DEF Child, Token
<1>3. /\ pc[t] = "prune"
      /\ path[t] = <<>> \/ LastChild(t) = None \/ ~Empty(LastChild(t))
  BY <1>2 DEF EndRemove
<1>4. t \in Writers /\ Writers \subseteq Threads
  BY <1>3, WriterOf, TreeAssumption DEF TInv, Removes
<1>5. /\ pc \in [Threads -> Places] /\ object \in [Threads -> Objects \cup {None}]
      /\ string \in [Threads -> Strings \cup {<<>>}] /\ depth \in [Threads -> 0..MaxLength]
      /\ node \in [Threads -> Nodes] /\ path \in [Threads -> Seq(Nodes)]
  BY DEF TInv, Shape, TypeOK
<1>6. /\ pc'[t] = "idle" /\ object'[t] = None
      /\ \A u \in Threads \ {t} : /\ pc'[u] = pc[u] /\ object'[u] = object[u] /\ string'[u] = string[u]
                                  /\ depth'[u] = depth[u] /\ node'[u] = node[u] /\ path'[u] = path[u]
  BY <1>1, <1>5
<1>7. Apart'
  BY <1>4, <1>6 DEF TInv, Apart, Inserts
<1>8. Forest'
  BY <1>1, SameBlocks DEF TInv
<1>9. BlocksOwned'
  <2>1. ASSUME NEW p \in Objects, NEW r \in Strings, Owned(p, r) PROVE Owned(p, r)'
    <3>1. CASE tokens[p] = r
      BY <1>1, <3>1 DEF Owned
    <3>2. CASE \E u \in Writers : object[u] = p /\ string[u] = r /\ pc[u] \in {"register", "descend", "step"}
      BY <1>3, <1>4, <1>6, <3>2 DEF Owned
    <3>3. QED
      BY <2>1, <3>1, <3>2 DEF Owned
  <2>2. QED
    BY <1>1, <2>1, SameBlocks DEF TInv, BlocksOwned
<1>10. BlocksStored'
  BY <1>1, SameBlocks DEF TInv, BlocksStored
<1>11. WritesOK'
  <2>1. ASSUME NEW u \in Writers, u # t PROVE (InsertOK(u) => InsertOK(u)') /\ (RemoveOK(u) => RemoveOK(u)')
    BY <1>1, <1>4, <1>6, <2>1, SameLocals
  <2>2. QED
    BY <1>4, <1>6, <2>1 DEF TInv, WritesOK, Inserts, Removes
<1>12. DeadMinded'
  <2>1. ASSUME NEW n \in Nodes, Minded(n), Empty(n) PROVE Minded(n)'
    <3>1. PICK u \in Writers : \/ pc[u] \in {"insert", "attach"} /\ node[u] = n
                               \/ pc[u] = "prune" /\ path[u] # <<>> /\ LastChild(u) = n
      BY <2>1 DEF Minded
    <3>2. u # t /\ u \in Threads
      BY <1>3, <1>4, <2>1, <3>1, TreeAssumption
    <3>3. QED
      BY <1>1, <1>6, <3>1, <3>2 DEF Minded, LastChild, LastToken, tree
  <2>2. QED
    BY <1>1, <2>1, SameTree, SameBlocks DEF TInv, DeadMinded, tree
<1>13. QED
  BY <1>7, <1>8, <1>9, <1>10, <1>11, <1>12 DEF TInv

-----------------------------------------------------------------------------
(* All steps together.                                                      *)

\* A search writes nothing.
LEMMA SearchStep ==
    ASSUME TInv, Shape', NEW t \in Threads,
           (\E s \in Strings : t \notin Writers /\ BeginSearch(t, s)) \/ Searching(t)
    PROVE  TInv'
<1>1. t \notin Writers
  BY DEF TInv, Shape, CallsOK, CallOK, Searching, SearchMove, Collect, CollectEnd, CollectRaises, EndSearch,
         Inserts, Removes
<1>2. /\ UNCHANGED <<tree, tokens>>
      /\ \A u \in Threads \ {t} : /\ pc'[u] = pc[u] /\ object'[u] = object[u] /\ string'[u] = string[u]
                                  /\ depth'[u] = depth[u] /\ node'[u] = node[u] /\ path'[u] = path[u]
  <2>1. CASE \E s \in Strings : BeginSearch(t, s)
    BY <2>1 DEF BeginSearch, Begin, TInv, Shape, TypeOK
  <2>2. CASE SearchMove(t)
    BY <2>2 DEF SearchMove, Move, TInv, Shape, TypeOK
  <2>3. CASE Collect(t)
    BY <2>3 DEF Collect
  <2>4. CASE CollectEnd(t)
    BY <2>4 DEF CollectEnd, Goto, call, TInv, Shape, TypeOK
  <2>5. CASE CollectRaises(t) \/ EndSearch(t)
    BY <2>5 DEF CollectRaises, EndSearch, Return, TInv, Shape, TypeOK
  <2>6. QED
    BY <2>1, <2>2, <2>3, <2>4, <2>5 DEF Searching
<1>3. Writers \subseteq Threads
  BY TreeAssumption
<1>4. QED
  BY <1>1, <1>2, <1>3, OthersStep

LEMMA TreeInit == Init => TInv
<1> SUFFICES ASSUME Init PROVE TInv
  OBVIOUS
<1>1. /\ \A n \in Nodes : object_ids[n] = {} /\ \A k \in Tokens : children[n][k] = None
      /\ \A t \in Threads : pc[t] = "idle" /\ object[t] = None
      /\ \A o \in Objects : tokens[o] = None
  BY DEF Init
<1>2. \A n \in Nodes : Empty(n) /\ ~Linked(n)
  BY <1>1, TreeAssumption DEF Empty, Linked
<1>3. Writers \subseteq Threads
  BY TreeAssumption
<1>4. Apart /\ WritesOK
  BY <1>1, <1>3 DEF Apart, WritesOK, Inserts, Removes
<1>5. Forest
  BY <1>1, <1>2, RootIsNode DEF Forest
<1>6. BlocksOwned
  <2>1. ASSUME NEW o \in Objects, NEW s \in Strings, Stored(o, s) PROVE FALSE
    <3>1. PICK w \in [0..Len(s) -> Nodes] : o \in object_ids[w[Len(s)]]
      BY <2>1 DEF Stored
    <3>2. w[Len(s)] \in Nodes
      BY TreeAssumption
    <3>3. QED
      BY <1>1, <3>1, <3>2
  <2>2. QED
    BY <2>1 DEF BlocksOwned
<1>7. BlocksStored /\ DeadMinded
  BY <1>1, <1>2 DEF BlocksStored, DeadMinded
<1>8. QED
  BY <1>4, <1>5, <1>6, <1>7, ShapeInit DEF TInv

LEMMA TreeStep == ASSUME ~Overlap, ~Rewrites PROVE TInv /\ [Next]_vars => TInv'
<1> SUFFICES ASSUME TInv, [Next]_vars PROVE TInv'
  OBVIOUS
<1>1. Shape'
  BY ShapeStep DEF TInv
<1>2. CASE UNCHANGED vars
  BY <1>1, <1>2, OthersStep DEF vars, tree
<1>3. ASSUME NEW t \in Threads, Inserting(t) PROVE TInv'
  BY <1>1, <1>3, InsertMoveStep, NewNodeStep, AttachStep, AddIdStep, RegisterStep DEF Inserting
<1>4. ASSUME NEW t \in Threads, Removing(t) PROVE TInv'
  BY <1>1, <1>4, DescendStep, StepStep, DiscardStep, PruneStep, EndRemoveStep DEF Removing
<1>5. ASSUME NEW t \in Threads, Searching(t) PROVE TInv'
  BY <1>1, <1>5, SearchStep
<1>6. ASSUME NEW t \in Threads \ Writers, NEW s \in Strings, BeginSearch(t, s) PROVE TInv'
  BY <1>1, <1>6, SearchStep
<1>7. ASSUME NEW t \in Writers, NEW o \in Objects, NEW s \in Strings, BeginInsert(t, o, s) PROVE TInv'
  BY <1>1, <1>7, BeginInsertStep
<1>8. ASSUME NEW t \in Writers, NEW o \in Objects, BeginRemove(t, o) PROVE TInv'
  BY <1>1, <1>8, BeginRemoveStep
<1>9. QED
  BY <1>2, <1>3, <1>4, <1>5, <1>6, <1>7, <1>8 DEF Next, Turn

\* With no insert or remove under way every block there is is registered and every empty node pruned.
LEMMA QuietTree == TInv => TreeIsExact
<1> SUFFICES ASSUME TInv, Quiet PROVE TreeIsExact
  BY DEF TreeIsExact, FoundIsRegistered, RegisteredIsFound, NoDeadNodes
<1>1. \A s \in Strings : s \in Seq(Tokens) /\ Len(s) \in Nat \ {0} /\ Len(s) \in 0..Len(s)
  BY TreeAssumption
<1>2. \A s \in Strings : \A n \in Ends(s) : \E w \in [0..Len(s) -> Nodes] : Way(s, Len(s), w) /\ n = w[Len(s)]
  BY DEF Ends, Ways, Way
<1>3. \A s \in Strings : \A w \in [0..Len(s) -> Nodes] : Way(s, Len(s), w) => w[Len(s)] \in Ends(s)
  BY DEF Ends, Ways, Way
<1>4. FoundIsRegistered
  <2>1. ASSUME NEW s \in Strings, NEW n \in Ends(s), NEW o \in object_ids[n] PROVE tokens[o] = s
    <3>1. PICK w \in [0..Len(s) -> Nodes] : Way(s, Len(s), w) /\ n = w[Len(s)]
      BY <1>2
    <3>2. n \in Nodes
      BY <1>1, <3>1
    <3>3. o \in Objects
      BY <3>2 DEF TInv, Shape, TypeOK
    <3>4. Owned(o, s)
      BY <3>1, <3>3 DEF TInv, BlocksOwned, Stored
    <3>5. QED
      BY <3>4 DEF Owned, Quiet
  <2>2. QED
    BY <2>1 DEF FoundIsRegistered
<1>5. RegisteredIsFound
  <2>1. ASSUME NEW o \in Objects, tokens[o] # None PROVE \E n \in Ends(tokens[o]) : o \in object_ids[n]
    <3>1. tokens[o] \in Strings
      BY <2>1 DEF TInv, Shape, TypeOK
    <3>2. Stored(o, tokens[o])
      BY <2>1 DEF TInv, BlocksStored
    <3>3. QED
      BY <1>3, <3>1, <3>2 DEF Stored
  <2>2. QED
    BY <2>1 DEF RegisteredIsFound
<1>6. NoDeadNodes
  <2>1. ASSUME NEW s \in Strings, NEW n \in Ends(s) PROVE ~Empty(n)
    <3>1. PICK w \in [0..Len(s) -> Nodes] : Way(s, Len(s), w) /\ n = w[Len(s)]
      BY <1>2
    <3>2. n \in Nodes /\ Linked(n)
      <4>1. Len(s) \in 0..Len(s) /\ Len(s) > 0 /\ s \in Seq(Tokens)
        BY <1>1
      <4>2. QED
        BY <3>1, <4>1, WayEnd
    <3>3. ~Minded(n)
      BY DEF Quiet, Minded
    <3>4. QED
      BY <3>2, <3>3 DEF TInv, DeadMinded
  <2>2. QED
    BY <2>1 DEF NoDeadNodes
<1>7. QED
  BY <1>4, <1>5, <1>6 DEF TreeIsExact

\* When inserts do not overlap with inserts and removes, the tree holds the registered blocks exactly
\* whenever no insert or remove is under way.
THEOREM TreeStaysExact == ASSUME ~Overlap, ~Rewrites PROVE Spec => []TreeIsExact
BY TreeInit, TreeStep, QuietTree, PTL DEF Spec

-----------------------------------------------------------------------------
(* Searches. *)

Lookups == {"search", "collect"}

\* A search has come as far as its depth.
OnWay(t) == \E w \in [0..depth[t] -> Nodes] : Way(string[t], depth[t], w) /\ w[depth[t]] = node[t]

\* The node it stands on was pruned.
CutOff(t) == node[t] # Root /\ ~Linked(node[t])

\* What a search has to find is registered; what is registered or about to be it may find.
HistoryOK(t) ==
    /\ \A m \in must[t] : /\ tokens[m[1]] # None /\ IsPrefix(tokens[m[1]], string[t])
                          /\ m[2] = Len(tokens[m[1]])
    /\ \A o \in Objects : tokens[o] # None /\ IsPrefix(tokens[o], string[t]) => <<o, Len(tokens[o])>> \in may[t]
    /\ \A u \in Writers : object[u] # None /\ IsPrefix(string[u], string[t])
                              => <<object[u], Len(string[u])>> \in may[t]

\* The match m is still to come.
Ahead(t, m) == m[2] > depth[t] \/ (pc[t] = "collect" /\ m[2] = depth[t] /\ m[1] \in seen[t])

\* Where nothing leads to any more, nothing is left to be found.
PlaceOK(t) ==
    /\ found[t] \subseteq may[t]
    /\ OnWay(t) \/ (CutOff(t) /\ must[t] \subseteq found[t])
    /\ \A m \in must[t] : m \in found[t] \/ Ahead(t, m)

SearchesOK == \A t \in Threads : pc[t] \in Lookups => HistoryOK(t) /\ PlaceOK(t)

\* Blocks lie at the ends of strings.
BlocksAtEnds ==
    \A n \in Nodes : \A o \in object_ids[n] :
        \E s \in Strings : \E w \in [0..Len(s) -> Nodes] : Way(s, Len(s), w) /\ w[Len(s)] = n

\* What a step may do to the tree: cut off an empty node, link a new one, and put a block where an
\* insert has come to.
TreeEffect ==
    /\ \A m \in Nodes, k \in Tokens : children[m][k] # None =>
          children'[m][k] = children[m][k] \/ Empty(children[m][k])
    /\ \A m \in Nodes, k \in Tokens : children'[m][k] # None =>
          children'[m][k] = children[m][k] \/ \A u \in Threads : children'[m][k] # node[u]
    /\ \A n \in Nodes : \A o \in object_ids'[n] :
          \/ o \in object_ids[n]
          \/ children' = children /\ \E u \in Threads : pc[u] = "insert" /\ AtEnd(u) /\ node[u] = n

\* Steps that change the blocks of no node and no link.
LEMMA TreeKept == ASSUME UNCHANGED tree PROVE TreeEffect
BY DEF tree, TreeEffect

\* Every step of the tree has such an effect only.
LEMMA TreeSteps == ASSUME TInv, Shape', [Next]_vars PROVE TreeEffect
<1> USE TreeKept
<1>1. ASSUME NEW t \in Threads, Attach(t) PROVE TreeEffect
  <2>1. pc[t] = "attach" /\ ~AtEnd(t) /\ node[t] \in Nodes /\ Free # {}
    BY <1>1 DEF TInv, Shape, TypeOK, CallsOK, CallOK, AtEnd, Attach
  <2>2. PICK new \in Free :
           /\ children' = [children EXCEPT ![new] = [j \in Tokens |-> None], ![node[t]][Token(t)] = new]
           /\ object_ids' = [object_ids EXCEPT ![new] = {}]
    BY <1>1, <2>1, FreeNode, TreeAssumption DEF Attach
  <2>3. /\ new \in Nodes /\ new # node[t] /\ object_ids[new] = {} /\ \A k \in Tokens : children[new][k] = None
    BY NewIsEmpty
  <2>4. \A u \in Threads : new # node[u]
    BY NewIsEmpty
  <2>5. Child(t) = None /\ Token(t) \in Tokens
    BY <2>1, InsertAlone, NextToken DEF InsertOK, Inserts, TInv
  <2>6. children \in [Nodes -> [Tokens -> Nodes \cup {None}]] /\ object_ids \in [Nodes -> SUBSET Objects]
    BY DEF TInv, Shape, TypeOK
  <2>7. PICK n \in Nodes, k \in Tokens : n = node[t] /\ k = Token(t) /\ children[n][k] = None
    BY <2>1, <2>5 DEF Child
  <2>8. \A m \in Nodes, j \in Tokens : children'[m][j] = IF m = n /\ j = k THEN new ELSE children[m][j]
    BY <2>2, <2>3, <2>6, <2>7
  <2>9. object_ids' = object_ids
    BY <2>2, <2>3, <2>6
  <2>10. QED
    BY <2>4, <2>7, <2>8, <2>9 DEF TreeEffect
<1>2. ASSUME NEW t \in Threads, Prune(t) PROVE TreeEffect
  <2>1. PICK p \in Nodes, k \in Tokens, c \in Nodes :
           children[p][k] = c /\ Empty(c) /\ children' = [children EXCEPT ![p][k] = None]
    BY <1>2, PruneLink
  <2>2. \A m \in Nodes, j \in Tokens : children'[m][j] = IF m = p /\ j = k THEN None ELSE children[m][j]
    BY <2>1 DEF TInv, Shape, TypeOK
  <2>3. object_ids' = object_ids
    BY <1>2 DEF Prune
  <2>4. QED
    BY <2>1, <2>2, <2>3 DEF TreeEffect
<1>3. ASSUME NEW t \in Threads, AddId(t) PROVE TreeEffect
  <2>1. /\ pc[t] = "insert" /\ AtEnd(t) /\ children' = children
        /\ object_ids' = [object_ids EXCEPT ![node[t]] = @ \cup {object[t]}]
    BY <1>3 DEF AddId
  <2>2. \A n \in Nodes : n # node[t] => object_ids'[n] = object_ids[n]
    BY <2>1 DEF TInv, Shape, TypeOK
  <2>3. \A n \in Nodes : \A o \in object_ids'[n] : o \in object_ids[n] \/ node[t] = n
    BY <2>2
  <2>4. QED
    BY <2>1, <2>3 DEF TreeEffect
<1>4. ASSUME NEW t \in Threads, Discard(t) PROVE TreeEffect
  <2>1. children' = children /\ object_ids' = [object_ids EXCEPT ![node[t]] = @ \ {object[t]}]
    BY <1>4 DEF Discard
  <2>2. \A n \in Nodes : object_ids'[n] \subseteq object_ids[n]
    BY <2>1 DEF TInv, Shape, TypeOK
  <2>3. QED
    BY <2>1, <2>2 DEF TreeEffect
<1>5. CASE UNCHANGED vars
  BY <1>5 DEF vars, tree
<1>6. ASSUME NEW t \in Threads, Inserting(t) PROVE TreeEffect
  BY <1>1, <1>3, <1>6 DEF Inserting, InsertMove, NewNode, Register
<1>7. ASSUME NEW t \in Threads, Removing(t) PROVE TreeEffect
  BY <1>2, <1>4, <1>7 DEF Removing, Descend, Step, EndRemove
<1>8. ASSUME NEW t \in Threads, Searching(t) PROVE TreeEffect
  BY <1>8 DEF Searching, SearchMove, Collect, CollectEnd, CollectRaises, EndSearch
<1>9. ASSUME NEW t, NEW o, NEW s, BeginInsert(t, o, s) \/ BeginRemove(t, o) \/ BeginSearch(t, s) PROVE TreeEffect
  BY <1>9 DEF BeginInsert, BeginRemove, BeginSearch
<1>10. QED
  BY <1>5, <1>6, <1>7, <1>8, <1>9 DEF Next, Turn

\* A way stays as long as its end is not empty.
LEMMA WayStays ==
    ASSUME TreeEffect, NEW s \in Seq(Tokens), NEW d \in 0..Len(s), NEW w, Way(s, d, w),
           NEW c \in 0..d, c = 0 \/ ~Empty(w[c])
    PROVE  \A i \in 1..c : children'[w[i - 1]][s[i]] = w[i]
<1>1. \A i \in 1..d : w[i - 1] \in Nodes /\ s[i] \in Tokens /\ w[i] # None /\ children[w[i - 1]][s[i]] = w[i]
  <2>1. \A i \in 1..d : w[i - 1] \in Nodes /\ s[i] \in Tokens /\ w[i] # None
    BY WayEnd
  <2>2. QED
    BY <2>1 DEF Way
<1>2. d \in Nat /\ c \in Nat
  OBVIOUS
<1>3. ASSUME NEW i \in 1..c PROVE ~Empty(w[i])
  <2>1. CASE i = c
    BY <1>2, <2>1
  <2>2. CASE i < c
    <3>1. i + 1 \in 1..d /\ (i + 1) - 1 = i
      BY <1>2, <2>2
    <3>2. s[i + 1] \in Tokens /\ children[w[i]][s[i + 1]] # None
      BY <1>1, <3>1
    <3>3. QED
      BY <3>2 DEF Empty
  <2>3. QED
    BY <1>2, <2>1, <2>2
<1>4. ASSUME NEW i \in 1..c PROVE children'[w[i - 1]][s[i]] = w[i]
  <2>1. i \in 1..d
    BY <1>2
  <2>2. w[i - 1] \in Nodes /\ s[i] \in Tokens /\ w[i] # None /\ children[w[i - 1]][s[i]] = w[i]
    BY <1>1, <2>1
  <2>3. QED
    BY <1>3, <2>2 DEF TreeEffect
<1>5. QED
  BY <1>4

\* Blocks stay at the ends of strings.
LEMMA BlocksStayAtEnds == ASSUME TInv, Shape', BlocksAtEnds, TreeEffect PROVE BlocksAtEnds'
<1>1. SUFFICES ASSUME NEW n \in Nodes, NEW o \in object_ids'[n]
      PROVE  \E s \in Strings : \E w \in [0..Len(s) -> Nodes] : Way(s, Len(s), w)' /\ w[Len(s)] = n
  BY DEF BlocksAtEnds
<1>2. \A s \in Strings : s \in Seq(Tokens) /\ Len(s) \in 0..Len(s)
  BY TreeAssumption
<1>3. CASE o \in object_ids[n]
  <2>0. PICK s \in Strings : \E w \in [0..Len(s) -> Nodes] : Way(s, Len(s), w) /\ w[Len(s)] = n
    BY <1>3 DEF BlocksAtEnds
  <2>1. PICK w \in [0..Len(s) -> Nodes] : Way(s, Len(s), w) /\ w[Len(s)] = n
    BY <2>0
  <2>2. ~Empty(w[Len(s)])
    BY <1>3, <2>1 DEF Empty
  <2>3. \A i \in 1..Len(s) : children'[w[i - 1]][s[i]] = w[i]
    <3>1. s \in Seq(Tokens) /\ Len(s) \in 0..Len(s)
      BY <1>2
    <3>2. PICK e \in 0..Len(s) : e = Len(s) /\ e \in 0..e
      BY <3>1
    <3>3. Way(s, e, w) /\ ~Empty(w[e])
      BY <2>1, <2>2, <3>2
    <3>4. \A i \in 1..e : children'[w[i - 1]][s[i]] = w[i]
      BY <3>1, <3>2, <3>3, WayStays
    <3>5. QED
      BY <3>2, <3>4
  <2>4. QED
    BY <2>1, <2>3 DEF Way
<1>4. CASE children' = children /\ \E u \in Threads : pc[u] = "insert" /\ AtEnd(u) /\ node[u] = n
  <2>1. PICK u \in Threads : pc[u] = "insert" /\ AtEnd(u) /\ node[u] = n
    BY <1>4
  <2>2. InsertOK(u) /\ string[u] \in Strings /\ depth[u] = Len(string[u])
    BY <2>1, InsertAlone, WriterOf DEF Inserts, AtEnd, TInv
  <2>3. QED
    BY <1>4, <2>1, <2>2 DEF InsertOK, Way
<1>5. QED
  BY <1>3, <1>4 DEF TreeEffect

\* What is known of the call of a search.
LEMMA LookupOf ==
    ASSUME Shape, NEW t \in Threads, pc[t] \in Lookups
    PROVE  /\ t \notin Writers /\ string[t] \in Strings /\ string[t] \in Seq(Tokens) /\ Len(string[t]) \in Nat
           /\ depth[t] \in Nat /\ depth[t] \in 0..Len(string[t]) /\ node[t] \in Nodes
           /\ must[t] \subseteq Matches /\ (pc[t] = "collect" => depth[t] > 0)
<1>1. /\ t \notin Writers /\ string[t] \in Strings /\ depth[t] <= Len(string[t])
      /\ (pc[t] = "collect" => depth[t] > 0)
  BY DEF Shape, CallsOK, CallOK, Lookups, Inserts, Removes
<1>2. depth[t] \in 0..MaxLength /\ node[t] \in Nodes /\ must[t] \subseteq Matches
  BY DEF Shape, TypeOK
<1>3. string[t] \in Seq(Tokens) /\ Len(string[t]) \in 1..MaxLength /\ MaxLength \in Nat
  BY <1>1, TreeAssumption
<1>4. QED
  BY <1>1, <1>2, <1>3

\* A registered prefix of the query is at the end of its way.
LEMMA MustOnWay ==
    ASSUME TInv, NEW t \in Threads, pc[t] \in Lookups, HistoryOK(t),
           NEW w, Way(string[t], depth[t], w), NEW m \in must[t], m[2] >= depth[t]
    PROVE  /\ m[2] \in depth[t]..Len(string[t])
           /\ \E v : Way(string[t], m[2], v) /\ v[depth[t]] = w[depth[t]] /\ m[1] \in object_ids[v[m[2]]]
<1>1. /\ string[t] \in Seq(Tokens) /\ Len(string[t]) \in Nat /\ depth[t] \in Nat
      /\ m[1] \in Objects /\ tokens[m[1]] # None
      /\ IsPrefix(tokens[m[1]], string[t]) /\ m[2] = Len(tokens[m[1]])
  BY LookupOf DEF TInv, HistoryOK, Matches
<1>2. PICK d \in Nat : d = depth[t]
  BY <1>1
<1>3. PICK s, r : s = string[t] /\ r = tokens[m[1]]
  OBVIOUS
<1>4. r \in Strings /\ Stored(m[1], r)
  BY <1>1, <1>2, <1>3 DEF TInv, Shape, TypeOK, BlocksStored
<1>5. r \in Seq(Tokens) /\ Len(r) \in Nat
  BY <1>4, TreeAssumption
<1>6. PICK v \in [0..Len(r) -> Nodes] : Way(r, Len(r), v) /\ m[1] \in object_ids[v[Len(r)]]
  BY <1>4 DEF Stored
<1>7. Len(r) <= Len(s) /\ \A i \in 1..Len(r) : r[i] = s[i]
  <2>1. Len(r) <= Len(s) /\ SubSeq(r, 1, Len(r)) = SubSeq(s, 1, Len(r))
    BY <1>1, <1>2, <1>3 DEF IsPrefix
  <2>2. \A i \in 1..Len(r) : SubSeq(r, 1, Len(r))[i] = r[i] /\ SubSeq(s, 1, Len(r))[i] = s[i]
    BY <1>1, <1>2, <1>3, <1>5, <2>1
  <2>3. QED
    BY <2>1, <2>2
<1>8. Way(s, Len(r), v)
  BY <1>6, <1>7 DEF Way
<1>9. v[d] = w[d]
  <2>1. d \in Nat /\ Len(r) \in Nat /\ d <= Len(r) /\ Way(s, d, w)
    BY <1>1, <1>2, <1>3, <1>5
  <2>2. PICK e \in Nat : e = Len(r)
    BY <2>1
  <2>3. d \in Nat /\ e \in Nat /\ Way(s, d, w) /\ Way(s, e, v) /\ d <= e
    BY <1>8, <2>1, <2>2
  <2>4. QED
    BY <2>3, WaysPass
<1>10. QED
  BY <1>1, <1>2, <1>3, <1>5, <1>6, <1>7, <1>8, <1>9

\* What is still to come keeps the search's node in the tree.
LEMMA MustAhead ==
    ASSUME TInv, NEW t \in Threads, pc[t] \in Lookups, HistoryOK(t), OnWay(t), NEW m \in must[t], m[2] >= depth[t]
    PROVE  /\ ~Empty(node[t])
           /\ m[2] = depth[t] => m[1] \in object_ids[node[t]]
           /\ m[2] > depth[t] => /\ ~AtEnd(t) /\ Child(t) # None
                                 /\ m[2] = depth[t] + 1 => m[1] \in object_ids[Child(t)]
<1>1. PICK w : Way(string[t], depth[t], w) /\ w[depth[t]] = node[t]
  BY DEF OnWay
<1>2. /\ m[2] \in depth[t]..Len(string[t])
      /\ \E v : Way(string[t], m[2], v) /\ v[depth[t]] = w[depth[t]] /\ m[1] \in object_ids[v[m[2]]]
  BY <1>1, MustOnWay
<1>3. PICK v : Way(string[t], m[2], v) /\ v[depth[t]] = node[t] /\ m[1] \in object_ids[v[m[2]]]
  BY <1>1, <1>2
<1>4. string[t] \in Seq(Tokens) /\ Len(string[t]) \in Nat /\ depth[t] \in Nat
  BY LookupOf DEF TInv
<1>5. CASE m[2] = depth[t]
  BY <1>3, <1>4, <1>5 DEF Empty
<1>6. CASE m[2] > depth[t]
  <2>1. ~AtEnd(t) /\ depth[t] + 1 \in 1..m[2] /\ (depth[t] + 1) - 1 = depth[t] /\ m[2] \in 0..Len(string[t])
    BY <1>2, <1>4, <1>6 DEF AtEnd
  <2>2. children[v[depth[t]]][string[t][depth[t] + 1]] = v[depth[t] + 1]
    BY <1>3, <2>1 DEF Way
  <2>3. Child(t) = v[depth[t] + 1]
    BY <1>3, <2>2 DEF Child, Token
  <2>4. v[depth[t] + 1] # None /\ string[t][depth[t] + 1] \in Tokens
    BY <1>3, <1>4, <2>1, WayEnd
  <2>5. ~Empty(node[t])
    BY <1>3, <2>2, <2>4 DEF Empty
  <2>6. QED
    BY <1>3, <1>4, <1>6, <2>1, <2>3, <2>4, <2>5
<1>7. QED
  BY <1>2, <1>4, <1>5, <1>6

\* Others' steps leave a search on its way or cut it off where nothing is to be found.
LEMMA WayOrCut ==
    ASSUME TInv, TreeEffect, NEW t \in Threads, pc[t] \in Lookups,
           string'[t] = string[t], depth'[t] = depth[t], node'[t] = node[t]
    PROVE  /\ CutOff(t) => CutOff(t)'
           /\ OnWay(t) => OnWay(t)' \/ (CutOff(t)' /\ Empty(node[t]))
<1>1. /\ string[t] \in Seq(Tokens) /\ depth[t] \in Nat /\ depth[t] \in 0..Len(string[t]) /\ node[t] \in Nodes
      /\ Forest
  BY LookupOf DEF TInv
<1>2. \A m \in Nodes, k \in Tokens : children'[m][k] = node[t] => children[m][k] = node[t]
  <2>1. node[t] # None
    BY <1>1, TreeAssumption
  <2>2. QED
    BY <2>1 DEF TreeEffect
<1>3. ASSUME CutOff(t) PROVE CutOff(t)'
  BY <1>2, <1>3 DEF CutOff, Linked
<1>4. ASSUME OnWay(t) PROVE OnWay(t)' \/ (CutOff(t)' /\ Empty(node[t]))
  <2>1. PICK s, d, n : s = string[t] /\ d = depth[t] /\ n = node[t]
    OBVIOUS
  <2>2. PICK w \in [0..d -> Nodes] : Way(s, d, w) /\ w[d] = n
    BY <1>4, <2>1 DEF OnWay
  <2>3. s \in Seq(Tokens) /\ d \in Nat /\ d \in 0..Len(s) /\ n \in Nodes /\ d \in 0..d
    BY <1>1, <2>1
  <2>4. \A i \in 1..d : w[i - 1] \in Nodes /\ w[i] \in Nodes /\ s[i] \in Tokens /\ w[i] # None
    BY <2>2, <2>3, WayEnd
  <2>5. CASE \A i \in 1..d : children'[w[i - 1]][s[i]] = w[i]
    <3>1. Way(s, d, w)'
      BY <2>2, <2>5 DEF Way
    <3>2. QED
      BY <2>1, <2>2, <3>1 DEF OnWay
  <2>6. CASE ~\A i \in 1..d : children'[w[i - 1]][s[i]] = w[i]
    <3>1. d > 0 /\ Empty(n)
      <4>1. d > 0
        BY <2>3, <2>6
      <4>2. ASSUME ~Empty(n) PROVE FALSE
        <5>1. ~Empty(w[d])
          BY <2>2, <4>2
        <5>2. \A i \in 1..d : children'[w[i - 1]][s[i]] = w[i]
          BY <2>2, <2>3, <5>1, WayStays
        <5>3. QED
          BY <2>6, <5>2
      <4>3. QED
        BY <4>1, <4>2
    <3>2. PICK c \in 0..d : c = d - 1
      BY <2>3, <3>1
    <3>3. children[w[c]][s[d]] = n /\ w[c] \in Nodes /\ s[d] \in Tokens /\ d \in 1..d
      BY <2>2, <2>3, <2>4, <3>1, <3>2 DEF Way
    <3>4. c = 0 \/ ~Empty(w[c])
      BY <2>3, <3>3, TreeAssumption DEF Empty
    <3>5. \A i \in 1..c : children'[w[i - 1]][s[i]] = w[i]
      BY <2>2, <2>3, <3>4, WayStays
    <3>6. children'[w[c]][s[d]] # n
      <4>1. PICK i \in 1..d : children'[w[i - 1]][s[i]] # w[i]
        BY <2>6
      <4>2. i = d
        BY <2>3, <3>2, <3>5, <4>1
      <4>3. QED
        BY <2>2, <3>2, <4>1, <4>2
    <3>7. \A m \in Nodes, k \in Tokens : children[m][k] = n => m = w[c] /\ k = s[d]
      <4>1. \A a, b \in Nodes, j, k \in Tokens :
               children[a][j] # None /\ children[a][j] = children[b][k] => a = b /\ j = k
        BY <1>1 DEF Forest
      <4>2. n # None
        BY <2>3, TreeAssumption
      <4>3. QED
        BY <3>3, <4>1, <4>2
    <3>8. \A m \in Nodes, k \in Tokens : children'[m][k] # n
      BY <1>2, <2>1, <3>6, <3>7
    <3>9. n # Root
      BY <1>1, <3>3 DEF Forest, Linked
    <3>10. CutOff(t)'
      BY <2>1, <3>8, <3>9 DEF CutOff, Linked
    <3>11. QED
      BY <2>1, <3>1, <3>10
  <2>7. QED
    BY <2>5, <2>6
<1>5. QED
  BY <1>3, <1>4

\* The place of a search in steps of others.
LEMMA OthersLook ==
    ASSUME TInv, TreeEffect, NEW t \in Threads, pc[t] \in Lookups, HistoryOK(t), PlaceOK(t),
           pc'[t] = pc[t], string'[t] = string[t], depth'[t] = depth[t], node'[t] = node[t],
           seen'[t] = seen[t], found'[t] = found[t], must'[t] \subseteq must[t], may[t] \subseteq may'[t]
    PROVE  PlaceOK(t)'
<1>1. found'[t] \subseteq may'[t]
  BY DEF PlaceOK
<1>2. \A m \in must'[t] : m \in found'[t] \/ Ahead(t, m)'
  BY DEF PlaceOK, Ahead
<1>3. CASE CutOff(t) /\ must[t] \subseteq found[t]
  <2>1. CutOff(t)'
    BY <1>3, WayOrCut
  <2>2. QED
    BY <1>1, <1>2, <1>3, <2>1 DEF PlaceOK
<1>4. CASE OnWay(t)
  <2>1. OnWay(t)' \/ (CutOff(t)' /\ Empty(node[t]))
    BY <1>4, WayOrCut
  <2>2. ASSUME Empty(node[t]), NEW m \in must[t] PROVE m \in found[t]
    <3>1. ~(m[2] >= depth[t])
      BY <1>4, <2>2, MustAhead
    <3>2. ~Ahead(t, m)
      <4>1. depth[t] \in Nat /\ m[2] \in Nat
        BY LookupOf, TreeAssumption DEF TInv, Matches
      <4>2. QED
        BY <3>1, <4>1 DEF Ahead
    <3>3. QED
      BY <3>2 DEF PlaceOK
  <2>3. QED
    BY <1>1, <1>2, <2>1, <2>2 DEF PlaceOK
<1>5. QED
  BY <1>3, <1>4 DEF PlaceOK

\* The locals of the other threads.
Same(t) == /\ pc'[t] = pc[t] /\ string'[t] = string[t] /\ depth'[t] = depth[t] /\ node'[t] = node[t]
           /\ seen'[t] = seen[t] /\ found'[t] = found[t] /\ object'[t] = object[t]
           /\ path'[t] = path[t]

\* A step of a thread leaves the locals of the others alone.
LEMMA OthersSame ==
    ASSUME Shape, NEW u \in Threads, NEW t \in Threads \ {u},
           \/ Inserting(u) \/ Removing(u) \/ Searching(u)
           \/ \E o \in Objects, s \in Strings : BeginInsert(u, o, s)
           \/ \E o \in Objects : BeginRemove(u, o)
           \/ \E s \in Strings : BeginSearch(u, s)
    PROVE  Same(t)
<1> USE DEF Shape, TypeOK, Same, call, Move, Goto, Return, Begin
<1>1. CASE Inserting(u)
  <2>1. CASE InsertMove(u)
    BY <2>1 DEF InsertMove
  <2>2. CASE NewNode(u)
    BY <2>2 DEF NewNode
  <2>3. CASE Attach(u)
    BY <2>3 DEF Attach
  <2>4. CASE AddId(u) \/ Register(u)
    BY <2>4 DEF AddId, Register
  <2>5. QED
    BY <1>1, <2>1, <2>2, <2>3, <2>4 DEF Inserting
<1>2. CASE Removing(u)
  <2>1. CASE Descend(u) \/ Step(u)
    BY <2>1 DEF Descend, Step
  <2>2. CASE Discard(u) \/ Prune(u)
    BY <2>2 DEF Discard, Prune
  <2>3. CASE EndRemove(u)
    BY <2>3 DEF EndRemove
  <2>4. QED
    BY <1>2, <2>1, <2>2, <2>3 DEF Removing
<1>3. CASE Searching(u)
  <2>1. CASE SearchMove(u)
    BY <2>1 DEF SearchMove
  <2>2. CASE Collect(u)
    BY <2>2 DEF Collect
  <2>3. CASE CollectEnd(u) \/ CollectRaises(u) \/ EndSearch(u)
    BY <2>3 DEF CollectEnd, CollectRaises, EndSearch
  <2>4. QED
    BY <1>3, <2>1, <2>2, <2>3 DEF Searching
<1>4. CASE \E o \in Objects, s \in Strings : BeginInsert(u, o, s)
  BY <1>4 DEF BeginInsert
<1>5. CASE \E o \in Objects : BeginRemove(u, o)
  BY <1>5 DEF BeginRemove
<1>6. CASE \E s \in Strings : BeginSearch(u, s)
  BY <1>6 DEF BeginSearch
<1>7. QED
  BY <1>1, <1>2, <1>3, <1>4, <1>5, <1>6

\* A step that leaves the blocks and the writers' calls alone leaves a search its history.
LEMMA HistoryKept ==
    ASSUME NEW t, HistoryOK(t), string'[t] = string[t], tokens' = tokens, must'[t] = must[t], may'[t] = may[t],
           \A u \in Writers : object'[u] = None \/ (object'[u] = object[u] /\ string'[u] = string[u])
    PROVE  HistoryOK(t)'
BY DEF HistoryOK

\* An insert that begins may be found.
LEMMA BeginInsertHistory ==
    ASSUME Shape, NEW t \in Threads, pc[t] \in Lookups, HistoryOK(t), NEW u \in Writers, NEW o \in Objects,
           NEW s \in Strings, BeginInsert(u, o, s), string'[t] = string[t]
    PROVE  HistoryOK(t)' /\ must'[t] = must[t] /\ may[t] \subseteq may'[t]
<1>1. /\ tokens' = tokens /\ must' = must /\ object'[u] = o /\ string'[u] = s
      /\ \A v \in Writers \ {u} : object'[v] = object[v] /\ string'[v] = string[v]
      /\ may'[t] = IF IsPrefix(s, string[t]) THEN may[t] \cup {<<o, Len(s)>>} ELSE may[t]
  BY TreeAssumption DEF BeginInsert, Begin, Shape, TypeOK, Lookups
<1>2. may[t] \subseteq may'[t] /\ (IsPrefix(s, string[t]) => <<o, Len(s)>> \in may'[t])
  BY <1>1
<1>3. ASSUME NEW v \in Writers, object'[v] # None, IsPrefix(string'[v], string[t])
      PROVE  <<object'[v], Len(string'[v])>> \in may'[t]
  <2>1. CASE v = u
    BY <1>1, <1>2, <1>3, <2>1
  <2>2. CASE v # u
    BY <1>1, <1>2, <1>3, <2>2 DEF HistoryOK
  <2>3. QED
    BY <2>1, <2>2
<1>4. QED
  BY <1>1, <1>2, <1>3 DEF HistoryOK

\* A block whose removal begins need not be found.
LEMMA BeginRemoveHistory ==
    ASSUME Shape, NEW t \in Threads, pc[t] \in Lookups, HistoryOK(t), NEW u \in Writers, NEW o \in Objects,
           BeginRemove(u, o), string'[t] = string[t]
    PROVE  HistoryOK(t)' /\ must'[t] \subseteq must[t] /\ may'[t] = may[t]
<1>1. /\ tokens' = [tokens EXCEPT ![o] = None] /\ tokens[o] # None /\ may' = may
      /\ object'[u] = o /\ string'[u] = tokens[o]
      /\ \A v \in Writers \ {u} : object'[v] = object[v] /\ string'[v] = string[v]
      /\ must'[t] = {m \in must[t] : m[1] # o}
  BY TreeAssumption DEF BeginRemove, Begin, Shape, TypeOK
<1>2. \A p \in Objects : tokens'[p] = IF p = o THEN None ELSE tokens[p]
  BY <1>1 DEF Shape, TypeOK
<1>3. \A m \in must[t] : m[1] \in Objects
  BY DEF Shape, TypeOK, Matches
<1>4. \A m \in must'[t] : m \in must[t] /\ tokens'[m[1]] = tokens[m[1]]
  BY <1>1, <1>2, <1>3
<1>5. \A p \in Objects : tokens'[p] # None => tokens'[p] = tokens[p]
  BY <1>2
<1>6. ASSUME NEW v \in Writers, object'[v] # None, IsPrefix(string'[v], string[t])
      PROVE  <<object'[v], Len(string'[v])>> \in may[t]
  <2>1. CASE v = u
    BY <1>1, <1>6, <2>1 DEF HistoryOK
  <2>2. CASE v # u
    BY <1>1, <1>6, <2>2 DEF HistoryOK
  <2>3. QED
    BY <2>1, <2>2
<1>7. QED
  BY <1>1, <1>4, <1>5, <1>6 DEF HistoryOK

\* A block that is registered could be found since its insert began.
LEMMA RegisterHistory ==
    ASSUME TInv, NEW t \in Threads, pc[t] \in Lookups, HistoryOK(t), NEW u \in Threads, Register(u),
           string'[t] = string[t]
    PROVE  HistoryOK(t)' /\ must'[t] = must[t] /\ may'[t] = may[t]
<1>1. pc[u] = "register" /\ u \in Writers /\ object[u] \in Objects /\ InsertOK(u) /\ Writers \subseteq Threads
  BY InsertAlone, WriterOf, TreeAssumption DEF Register, Inserts, TInv
<1>2. /\ tokens' = [tokens EXCEPT ![object[u]] = string[u]] /\ must' = must /\ may' = may
      /\ object'[u] = None
      /\ \A v \in Writers \ {u} : object'[v] = object[v] /\ string'[v] = string[v]
  BY <1>1 DEF Register, Return, history, TInv, Shape, TypeOK
<1>3. PICK o \in Objects : o = object[u]
  BY <1>1
<1>4. PICK s : s = string[u]
  OBVIOUS
<1>5. \A p \in Objects : tokens'[p] = IF p = o THEN s ELSE tokens[p]
  BY <1>2, <1>3, <1>4 DEF TInv, Shape, TypeOK
<1>6. tokens[o] \in {None, s} /\ o # None
  BY <1>1, <1>3, <1>4, TreeAssumption DEF InsertOK
<1>7. \A m \in must[t] : m[1] \in Objects
  BY DEF TInv, Shape, TypeOK, Matches
<1>8. \A m \in must[t] : tokens'[m[1]] = tokens[m[1]]
  BY <1>5, <1>6, <1>7 DEF HistoryOK
<1>9. IsPrefix(s, string[t]) => <<o, Len(s)>> \in may[t]
  BY <1>1, <1>3, <1>4, <1>6 DEF HistoryOK
<1>10. \A p \in Objects : tokens'[p] # None /\ IsPrefix(tokens'[p], string[t]) => <<p, Len(tokens'[p])>> \in may[t]
  BY <1>5, <1>9 DEF HistoryOK
<1>11. \A v \in Writers : object'[v] # None => object'[v] = object[v] /\ string'[v] = string[v]
  BY <1>2
<1>12. QED
  BY <1>2, <1>8, <1>10, <1>11 DEF HistoryOK

\* A search begins at the root with everything still to come.
LEMMA BeginSearchLooks ==
    ASSUME TInv, NEW t \in Threads \ Writers, NEW s \in Strings, BeginSearch(t, s)
    PROVE  HistoryOK(t)' /\ PlaceOK(t)'
<1>1. /\ pc[t] = "idle" /\ string'[t] = s /\ UNCHANGED <<tree, tokens, depth, node, seen, found>>
      /\ \A u \in Writers : object'[u] = object[u] /\ string'[u] = string[u]
  BY TreeAssumption DEF BeginSearch, Begin, TInv, Shape, TypeOK
<1>2. depth'[t] = 0 /\ node'[t] = Root /\ found'[t] = {}
  BY <1>1 DEF TInv, Shape, CallsOK, CallOK
<1> DEFINE matches == {Match(o) : o \in {p \in Objects : tokens[p] # None /\ IsPrefix(tokens[p], s)}}
           begun == {<<object[u], Len(string[u])>> :
                        u \in {w \in Writers : object[w] # None /\ IsPrefix(string[w], s)}}
<1>3. must'[t] = matches /\ may'[t] = matches \cup begun
  BY DEF BeginSearch, TInv, Shape, TypeOK
<1>4. \A m \in matches : \E o \in Objects : tokens[o] # None /\ IsPrefix(tokens[o], s)
                                            /\ m[1] = o /\ m[2] = Len(tokens[o])
  BY DEF Match
<1>5. \A o \in Objects : tokens[o] # None /\ IsPrefix(tokens[o], s) => <<o, Len(tokens[o])>> \in matches
  BY DEF Match
<1>6. \A u \in Writers : object[u] # None /\ IsPrefix(string[u], s) => <<object[u], Len(string[u])>> \in begun
  OBVIOUS
<1> HIDE DEF matches, begun
<1>7. HistoryOK(t)'
  <2>1. \A m \in must'[t] : /\ tokens'[m[1]] # None /\ IsPrefix(tokens'[m[1]], string'[t])
                            /\ m[2] = Len(tokens'[m[1]])
    BY <1>1, <1>3, <1>4
  <2>2. \A o \in Objects : tokens'[o] # None /\ IsPrefix(tokens'[o], string'[t])
                              => <<o, Len(tokens'[o])>> \in may'[t]
    BY <1>1, <1>3, <1>5
  <2>3. \A u \in Writers : object'[u] # None /\ IsPrefix(string'[u], string'[t])
                              => <<object'[u], Len(string'[u])>> \in may'[t]
    BY <1>1, <1>3, <1>6
  <2>4. QED
    BY <2>1, <2>2, <2>3 DEF HistoryOK
<1>8. OnWay(t)'
  <2>1. Way(s, 0, [i \in 0..0 |-> Root])'
    BY RootIsNode DEF Way
  <2>2. QED
    BY <1>1, <1>2, <2>1, RootIsNode DEF OnWay
<1>9. \A m \in must'[t] : Ahead(t, m)'
  <2>1. \A o \in Objects : tokens[o] # None => Len(tokens[o]) > 0
    BY TreeAssumption DEF TInv, Shape, TypeOK
  <2>2. QED
    BY <1>2, <1>3, <1>4, <2>1 DEF Ahead
<1>10. QED
  BY <1>2, <1>7, <1>8, <1>9 DEF PlaceOK

\* A search that goes on at a child was not cut off, and what it has to find is there or further on.
LEMMA SearchMoveLooks ==
    ASSUME TInv, NEW t \in Threads, SearchMove(t), HistoryOK(t), PlaceOK(t)
    PROVE  PlaceOK(t)'
<1>1. /\ pc[t] = "search" /\ ~AtEnd(t) /\ Child(t) # None
      /\ node'[t] = Child(t) /\ depth'[t] = depth[t] + 1 /\ seen'[t] = object_ids[Child(t)]
      /\ pc'[t] = IF object_ids[Child(t)] = {} THEN "search" ELSE "collect"
      /\ UNCHANGED <<tree, string, found, must, may>>
  BY DEF SearchMove, Move, TInv, Shape, TypeOK, history
<1>2. /\ pc[t] \in Lookups /\ depth[t] \in Nat /\ node[t] \in Nodes /\ must[t] \subseteq Matches
      /\ Child(t) \in Nodes /\ Token(t) \in Tokens
  BY <1>1, LookupOf, NextToken DEF TInv, Lookups
<1>3. OnWay(t)
  <2>1. ASSUME CutOff(t) PROVE FALSE
    <3>1. Empty(node[t])
      BY <1>2, <2>1 DEF CutOff, TInv, Forest
    <3>2. QED
      BY <1>1, <1>2, <3>1 DEF Empty, Child
  <2>2. QED
    BY <2>1 DEF PlaceOK
<1>4. OnWay(t)'
  <2>0. PICK s : s = string[t]
    OBVIOUS
  <2>1. PICK d \in Nat, c \in Nodes : s = string[t] /\ d = depth[t] /\ c = Child(t)
    BY <1>2, <2>0
  <2>2. PICK w \in [0..d -> Nodes] : Way(s, d, w) /\ w[d] = node[t]
    BY <1>3, <2>1 DEF OnWay
  <2>3. children[w[d]][s[d + 1]] = c
    BY <2>1, <2>2 DEF Child, Token
  <2>4. \E v \in [0..(d + 1) -> Nodes] : Way(s, d + 1, v) /\ v[d + 1] = c
    BY <2>2, <2>3, WayOn
  <2>5. \E v \in [0..(d + 1) -> Nodes] : Way(s, d + 1, v)' /\ v[d + 1] = c
    BY <1>1, <2>4 DEF Way, tree
  <2>6. string'[t] = s /\ depth'[t] = d + 1 /\ node'[t] = c
    BY <1>1, <2>1
  <2>7. QED
    BY <2>5, <2>6 DEF OnWay
<1>5. ASSUME NEW m \in must[t], m \notin found[t] PROVE Ahead(t, m)'
  <2>1. Ahead(t, m)
    BY <1>5 DEF PlaceOK
  <2>2. m[2] \in Nat /\ m[2] > depth[t]
    BY <1>1, <1>2, <2>1, TreeAssumption DEF Ahead, Matches
  <2>3. m[2] >= depth[t]
    BY <1>2, <2>2
  <2>4. m[2] = depth[t] + 1 => m[1] \in object_ids[Child(t)]
    BY <1>2, <1>3, <2>2, <2>3, MustAhead
  <2>5. CASE m[2] = depth[t] + 1
    BY <1>1, <2>4, <2>5 DEF Ahead
  <2>6. CASE m[2] > depth[t] + 1
    BY <1>1, <2>6 DEF Ahead
  <2>7. QED
    BY <1>2, <2>2, <2>5, <2>6
<1>6. QED
  BY <1>1, <1>4, <1>5 DEF PlaceOK

\* A block at the node of a search on its way was registered, or being inserted or removed, in its time.
LEMMA BlockMayBeFound ==
    ASSUME TInv, BlocksAtEnds, NEW t \in Threads, pc[t] \in Lookups, HistoryOK(t), OnWay(t),
           NEW o \in object_ids[node[t]]
    PROVE  <<o, depth[t]>> \in may[t]
<1>0. PICK s : s = string[t]
  OBVIOUS
<1>1. PICK n \in Nodes, d \in Nat :
          s = string[t] /\ n = node[t] /\ d = depth[t] /\ s \in Seq(Tokens) /\ d \in 0..Len(s) /\ Len(s) \in Nat
  BY <1>0, LookupOf DEF TInv
<1>2. PICK w \in [0..d -> Nodes] : Way(s, d, w) /\ w[d] = n
  BY <1>1 DEF OnWay
<1>3. o \in Objects /\ o # None
  BY <1>1, TreeAssumption DEF TInv, Shape, TypeOK
<1>4. PICK r \in Strings : \E v \in [0..Len(r) -> Nodes] : Way(r, Len(r), v) /\ v[Len(r)] = n
  BY <1>1 DEF BlocksAtEnds
<1>5. PICK v \in [0..Len(r) -> Nodes] : Way(r, Len(r), v) /\ v[Len(r)] = n
  BY <1>4
<1>6. r \in Seq(Tokens)
  BY TreeAssumption
<1>7. PICK e \in Nat : e = Len(r)
  BY <1>6
<1>8. PICK q \in [1..d -> Tokens] : \A i \in 1..d : q[i] = s[i]
  <2>1. [i \in 1..d |-> s[i]] \in [1..d -> Tokens]
    BY <1>1
  <2>2. QED
    BY <2>1
<1>9. Way(q, d, w)
  BY <1>2, <1>8 DEF Way
<1>10. d = e /\ q = r
  <2>1. r \in [1..e -> Tokens] /\ v \in [0..e -> Nodes] /\ Way(r, e, v) /\ v[e] = w[d] /\ Forest
    BY <1>2, <1>5, <1>6, <1>7 DEF TInv
  <2>2. CASE d <= e
    BY <1>9, <2>1, <2>2, WaysMeet, TreeAssumption
  <2>3. CASE e <= d
    BY <1>9, <2>1, <2>3, WaysMeet, TreeAssumption
  <2>4. QED
    BY <2>2, <2>3
<1>11. IsPrefix(r, s)
  <2>1. \A i \in 1..Len(r) : r[i] = s[i]
    BY <1>7, <1>8, <1>10
  <2>2. SubSeq(r, 1, Len(r)) = SubSeq(s, 1, Len(r)) /\ Len(r) <= Len(s)
    BY <1>1, <1>6, <1>7, <1>10, <2>1
  <2>3. QED
    BY <2>2 DEF IsPrefix
<1>12. Owned(o, r)
  <2>1. Stored(o, r)
    BY <1>1, <1>5 DEF Stored
  <2>2. QED
    BY <1>3, <2>1 DEF TInv, BlocksOwned
<1>13. <<o, Len(r)>> \in may[t]
  <2>1. CASE tokens[o] = r
    BY <1>1, <1>3, <1>11, <2>1, TreeAssumption DEF HistoryOK
  <2>2. CASE \E u \in Writers : object[u] = o /\ string[u] = r
    BY <1>1, <1>3, <1>11, <2>2 DEF HistoryOK
  <2>3. QED
    BY <1>12, <2>1, <2>2 DEF Owned
<1>14. QED
  BY <1>1, <1>7, <1>10, <1>13

\* A search takes blocks from the node of its way only.
LEMMA CollectLooks ==
    ASSUME TInv, BlocksAtEnds, NEW t \in Threads, Collect(t), HistoryOK(t), PlaceOK(t)
    PROVE  PlaceOK(t)'
<1>1. /\ pc[t] \in Lookups /\ node[t] \in Nodes
      /\ UNCHANGED <<tree, pc, string, depth, node, seen, must, may>>
  BY LookupOf DEF Collect, Lookups, TInv, history
<1>2. PICK o \in Rest(t) : found' = [found EXCEPT ![t] = @ \cup {<<o, depth[t]>>}]
  BY DEF Collect
<1>3. o \in object_ids[node[t]] /\ found'[t] = found[t] \cup {<<o, depth[t]>>}
  BY <1>2 DEF Rest, TInv, Shape, TypeOK
<1>4. ~CutOff(t)
  BY <1>1, <1>3 DEF CutOff, TInv, Forest, Empty
<1>5. OnWay(t)
  BY <1>4 DEF PlaceOK
<1>6. found'[t] \subseteq may'[t]
  BY <1>1, <1>3, <1>5, BlockMayBeFound DEF PlaceOK
<1>7. OnWay(t)'
  BY <1>1, <1>5 DEF OnWay, Way, tree
<1>8. \A m \in must'[t] : m \in found'[t] \/ Ahead(t, m)'
  BY <1>1, <1>3 DEF PlaceOK, Ahead
<1>9. QED
  BY <1>6, <1>7, <1>8 DEF PlaceOK

\* A search leaves a node when it has found there what it has to.
LEMMA CollectEndLooks ==
    ASSUME TInv, NEW t \in Threads, CollectEnd(t), HistoryOK(t), PlaceOK(t)
    PROVE  PlaceOK(t)'
<1>1. /\ pc[t] = "collect" /\ pc'[t] = "search" /\ Rest(t) \cap seen[t] = {}
      /\ UNCHANGED <<tree, string, depth, node, seen, found, must, may>>
  BY DEF CollectEnd, Goto, call, history, TInv, Shape, TypeOK
<1>2. pc[t] \in Lookups /\ depth[t] \in Nat /\ must[t] \subseteq Matches
  BY <1>1, LookupOf DEF Lookups, TInv
<1>3. ASSUME NEW m \in must[t], m \notin found[t] PROVE m[2] > depth[t]
  <2>1. m = <<m[1], m[2]>> /\ m[2] \in Nat
    BY <1>2, TreeAssumption DEF Matches
  <2>2. SUFFICES ASSUME m[2] = depth[t], m[1] \in seen[t] PROVE FALSE
    BY <1>3 DEF PlaceOK, Ahead
  <2>3. OnWay(t)
    BY <1>3 DEF PlaceOK
  <2>4. m[2] >= depth[t]
    BY <2>1, <2>2
  <2>5. m[1] \in object_ids[node[t]]
    BY <1>2, <2>2, <2>3, <2>4, MustAhead
  <2>6. m[1] \notin Rest(t)
    BY <1>1, <2>2
  <2>7. <<m[1], depth[t]>> \in found[t]
    BY <2>5, <2>6 DEF Rest
  <2>8. QED
    BY <1>3, <2>1, <2>2, <2>7
<1>4. \A m \in must'[t] : m \in found'[t] \/ Ahead(t, m)'
  BY <1>1, <1>3 DEF Ahead
<1>5. OnWay(t) => OnWay(t)'
  BY <1>1 DEF OnWay, Way, tree
<1>6. CutOff(t) => CutOff(t)'
  BY <1>1 DEF CutOff, Linked, tree
<1>7. QED
  BY <1>1, <1>4, <1>5, <1>6 DEF PlaceOK

\* A search that ends has found what it has to.
LEMMA EndSearchLooks ==
    ASSUME TInv, NEW t \in Threads, EndSearch(t), HistoryOK(t), PlaceOK(t)
    PROVE  must[t] \subseteq found[t] /\ found[t] \subseteq may[t]
<1>1. pc[t] = "search" /\ pc[t] \in Lookups /\ (~AtEnd(t) => Child(t) = None)
  BY DEF EndSearch, Lookups
<1>2. depth[t] \in Nat /\ must[t] \subseteq Matches
  BY <1>1, LookupOf DEF TInv
<1>3. ASSUME NEW m \in must[t], m \notin found[t] PROVE FALSE
  <2>1. m[2] \in Nat /\ m[2] > depth[t]
    BY <1>1, <1>2, <1>3, TreeAssumption DEF PlaceOK, Ahead, Matches
  <2>2. OnWay(t) /\ m[2] >= depth[t]
    BY <1>2, <1>3, <2>1 DEF PlaceOK
  <2>3. ~AtEnd(t) /\ Child(t) # None
    BY <1>1, <2>1, <2>2, MustAhead
  <2>4. QED
    BY <1>1, <2>3
<1>4. QED
  BY <1>3 DEF PlaceOK

\* The steps of others that leave the blocks and the calls of the writers alone.
LEMMA QuietSteps ==
    ASSUME Shape, NEW u \in Threads, NEW t \in Threads \ {u},
           \/ InsertMove(u) \/ NewNode(u) \/ Attach(u) \/ AddId(u) \/ Removing(u) \/ Searching(u)
           \/ u \notin Writers /\ \E s \in Strings : BeginSearch(u, s)
    PROVE  /\ tokens' = tokens /\ must'[t] = must[t] /\ may'[t] = may[t]
           /\ \A v \in Writers : object'[v] = None \/ (object'[v] = object[v] /\ string'[v] = string[v])
<1> USE TreeAssumption DEF Shape, TypeOK, history, call, Move, Goto, Return, Begin
<1>1. CASE InsertMove(u) \/ NewNode(u)
  BY <1>1 DEF InsertMove, NewNode
<1>2. CASE Attach(u)
  BY <1>2 DEF Attach
<1>3. CASE AddId(u)
  BY <1>3 DEF AddId
<1>4. CASE Removing(u)
  <2>1. CASE Descend(u) \/ Step(u)
    BY <2>1 DEF Descend, Step
  <2>2. CASE Discard(u) \/ Prune(u)
    BY <2>2 DEF Discard, Prune
  <2>3. CASE EndRemove(u)
    BY <2>3 DEF EndRemove
  <2>4. QED
    BY <1>4, <2>1, <2>2, <2>3 DEF Removing
<1>5. CASE Searching(u)
  <2>1. CASE SearchMove(u) \/ Collect(u)
    BY <2>1 DEF SearchMove, Collect
  <2>2. CASE CollectEnd(u)
    BY <2>2 DEF CollectEnd
  <2>3. CASE CollectRaises(u) \/ EndSearch(u)
    BY <2>3 DEF CollectRaises, EndSearch
  <2>4. QED
    BY <1>5, <2>1, <2>2, <2>3 DEF Searching
<1>6. CASE u \notin Writers /\ \E s \in Strings : BeginSearch(u, s)
  BY <1>6 DEF BeginSearch
<1>7. QED
  BY <1>1, <1>2, <1>3, <1>4, <1>5, <1>6

\* A step of the thread u.
StepOf(u) ==
    \/ Inserting(u) \/ Removing(u) \/ Searching(u)
    \/ u \in Writers /\ \E o \in Objects, s \in Strings : BeginInsert(u, o, s)
    \/ u \in Writers /\ \E o \in Objects : BeginRemove(u, o)
    \/ u \notin Writers /\ \E s \in Strings : BeginSearch(u, s)

\* Every step is one of a thread.
LEMMA StepsOfThreads == Next => \E u \in Threads : StepOf(u)
BY TreeAssumption DEF Next, Turn, StepOf

\* What a search has to find and may find stays true in the steps of others.
LEMMA OthersHistory ==
    ASSUME TInv, NEW u \in Threads, StepOf(u), NEW t \in Threads \ {u}, pc[t] \in Lookups, HistoryOK(t)
    PROVE  Same(t) /\ HistoryOK(t)' /\ must'[t] \subseteq must[t] /\ may[t] \subseteq may'[t]
<1>1. Shape
  BY DEF TInv
<1>2. Same(t)
  BY <1>1, OthersSame DEF StepOf
<1>3. string'[t] = string[t]
  BY <1>2 DEF Same
<1>4. CASE Register(u)
  BY <1>2, <1>3, <1>4, RegisterHistory
<1>5. CASE u \in Writers /\ \E o \in Objects, s \in Strings : BeginInsert(u, o, s)
  BY <1>1, <1>2, <1>3, <1>5, BeginInsertHistory
<1>6. CASE u \in Writers /\ \E o \in Objects : BeginRemove(u, o)
  BY <1>1, <1>2, <1>3, <1>6, BeginRemoveHistory
<1>7. CASE \/ InsertMove(u) \/ NewNode(u) \/ Attach(u) \/ AddId(u) \/ Removing(u) \/ Searching(u)
           \/ u \notin Writers /\ \E s \in Strings : BeginSearch(u, s)
  <2>1. /\ tokens' = tokens /\ must'[t] = must[t] /\ may'[t] = may[t]
        /\ \A v \in Writers : object'[v] = None \/ (object'[v] = object[v] /\ string'[v] = string[v])
    BY <1>1, <1>7, QuietSteps
  <2>2. HistoryOK(t)'
    BY <1>3, <2>1, HistoryKept
  <2>3. QED
    BY <1>2, <2>1, <2>2
<1>8. QED
  BY <1>4, <1>5, <1>6, <1>7 DEF StepOf, Inserting

\* A search's own moves leave its history alone.
LEMMA OwnHistory ==
    ASSUME TInv, NEW t \in Threads, HistoryOK(t), SearchMove(t) \/ Collect(t) \/ CollectEnd(t)
    PROVE  HistoryOK(t)'
BY HistoryKept DEF SearchMove, Collect, CollectEnd, Move, Goto, call, history

\* What a step of a search's own thread leaves it.
LEMMA OwnStep ==
    ASSUME TInv, BlocksAtEnds, NEW t \in Threads, StepOf(t), pc'[t] \in Lookups,
           pc[t] \in Lookups => HistoryOK(t) /\ PlaceOK(t)
    PROVE  HistoryOK(t)' /\ PlaceOK(t)'
<1>1. pc \in [Threads -> Places]
  BY DEF TInv, Shape, TypeOK
<1>2. \/ SearchMove(t) \/ Collect(t) \/ CollectEnd(t)
      \/ t \notin Writers /\ \E s \in Strings : BeginSearch(t, s)
  <2>1. CASE Inserting(t)
    BY <1>1, <2>1 DEF Inserting, InsertMove, NewNode, Attach, AddId, Register, Move, Goto, Return, Lookups
  <2>2. CASE Removing(t)
    BY <1>1, <2>2 DEF Removing, Descend, Step, Discard, Prune, EndRemove, Move, Goto, Return, Lookups
  <2>3. CASE Searching(t)
    BY <1>1, <2>3 DEF Searching, CollectRaises, EndSearch, Return, Lookups
  <2>4. CASE \/ t \in Writers /\ \E o \in Objects, s \in Strings : BeginInsert(t, o, s)
             \/ t \in Writers /\ \E o \in Objects : BeginRemove(t, o)
    BY <1>1, <2>4 DEF BeginInsert, BeginRemove, Begin, Lookups
  <2>5. QED
    BY <2>1, <2>2, <2>3, <2>4 DEF StepOf
<1>3. CASE SearchMove(t) \/ Collect(t) \/ CollectEnd(t)
  <2>1. pc[t] \in Lookups
    BY <1>3 DEF SearchMove, Collect, CollectEnd, Lookups
  <2>2. QED
    BY <1>3, <2>1, OwnHistory, SearchMoveLooks, CollectLooks, CollectEndLooks
<1>4. CASE t \notin Writers /\ \E s \in Strings : BeginSearch(t, s)
  BY <1>4, BeginSearchLooks
<1>5. QED
  BY <1>2, <1>3, <1>4

\* The invariant of the searches.
SInv == BlocksAtEnds /\ SearchesOK

\* It holds of the empty tree with no search.
LEMMA SearchInit == Init => SInv
BY DEF Init, SInv, BlocksAtEnds, SearchesOK, Lookups

\* Every step keeps it.
LEMMA SearchesStep == ASSUME TInv, SInv, [Next]_vars, Shape' PROVE SInv'
<1>1. TreeEffect
  BY TreeSteps
<1>2. BlocksAtEnds'
  BY <1>1, BlocksStayAtEnds DEF SInv
<1>3. CASE UNCHANGED vars
  <2>1. ASSUME NEW t \in Threads, pc'[t] \in Lookups PROVE HistoryOK(t)' /\ PlaceOK(t)'
    <3>1. pc[t] \in Lookups /\ HistoryOK(t) /\ PlaceOK(t)
      BY <1>3, <2>1 DEF vars, SInv, SearchesOK
    <3>2. HistoryOK(t)'
      BY <1>3, <3>1, HistoryKept DEF vars
    <3>3. PlaceOK(t)'
      BY <1>1, <1>3, <3>1, OthersLook DEF vars
    <3>4. QED
      BY <3>2, <3>3
  <2>2. QED
    BY <1>2, <2>1 DEF SInv, SearchesOK
<1>4. ASSUME NEW u \in Threads, StepOf(u) PROVE SearchesOK'
  <2>1. ASSUME NEW t \in Threads, pc'[t] \in Lookups PROVE HistoryOK(t)' /\ PlaceOK(t)'
    <3>1. CASE t = u
      BY <1>4, <2>1, <3>1, OwnStep DEF SInv, SearchesOK
    <3>2. CASE t # u
      <4>1. Same(t)
        BY <1>4, <3>2, OthersSame DEF StepOf, TInv
      <4>2. pc[t] \in Lookups /\ HistoryOK(t) /\ PlaceOK(t)
        BY <2>1, <4>1 DEF Same, SInv, SearchesOK
      <4>3. HistoryOK(t)' /\ must'[t] \subseteq must[t] /\ may[t] \subseteq may'[t]
        BY <1>4, <3>2, <4>2, OthersHistory
      <4>4. PlaceOK(t)'
        BY <1>1, <4>1, <4>2, <4>3, OthersLook DEF Same
      <4>5. QED
        BY <4>3, <4>4
    <3>3. QED
      BY <3>1, <3>2
  <2>2. QED
    BY <2>1 DEF SearchesOK
<1>5. QED
  BY <1>2, <1>3, <1>4, StepsOfThreads DEF SInv

\* A search that returns beside inserts and removes has found every block that was registered with a prefix of
\* the query all through the call, and no block but those registered, or being inserted or removed, in its time.
THEOREM SearchesAreCorrect == ASSUME ~Overlap, ~Rewrites PROVE Spec => SearchIsCorrect
<1>1. Init => TInv /\ SInv
  BY TreeInit, SearchInit
<1>2. TInv /\ SInv /\ [Next]_vars => TInv' /\ SInv'
  BY TreeStep, SearchesStep DEF TInv
<1>3. TInv /\ SInv /\ [Next]_vars =>
         [\A t \in Threads : EndSearch(t) => must[t] \subseteq found[t] /\ found[t] \subseteq may[t]]_vars
  BY EndSearchLooks DEF SInv, SearchesOK, EndSearch, Lookups
<1>4. QED
  BY <1>1, <1>2, <1>3, PTL DEF Spec, SearchIsCorrect

-----------------------------------------------------------------------------
(* The calls are wait-free.                                                 *)

\* A place before another in the turn.
LEMMA Stages ==
    /\ \A p \in {"attach", "register", "step", "prune", "search"} : Stage[p] = 1
    /\ \A p \in {"insert", "descend", "collect"} : Stage[p] = 2
BY DEF Stage, Places

\* The loop over the tokens goes on: there is a token less to read.
LEMMA MoveGetsOn ==
    ASSUME Shape, NEW t \in Threads, NEW n, NEW p \in Places, pc[t] # "idle", ~AtEnd(t), Move(t, n, p)
    PROVE  GetsOn(t)
<1>1. depth[t] \in Nat /\ Len(string[t]) \in Nat /\ depth[t] < Len(string[t])
  BY TreeAssumption DEF Shape, TypeOK, CallsOK, CallOK, AtEnd
<1>2. depth'[t] = depth[t] + 1 /\ string'[t] = string[t]
  BY DEF Move, Shape, TypeOK
<1>3. QED
  BY <1>1, <1>2 DEF GetsOn

\* The turn goes on at a later place.
LEMMA GotoGetsOn ==
    ASSUME Shape, NEW t \in Threads, NEW p \in Places, Stage[p] < Stage[pc[t]], Goto(t, p)
    PROVE  GetsOn(t)
BY DEF Goto, call, GetsOn, Shape, TypeOK

\* Each step of a call ends it or brings it closer to its end.
LEMMA TurnsGetOn == ASSUME Shape, NEW t \in Threads, Turn(t) PROVE pc'[t] = "idle" \/ GetsOn(t)
<1> USE DEF Places
<1>1. ASSUME Register(t) \/ EndRemove(t) \/ CollectRaises(t) \/ EndSearch(t) PROVE pc'[t] = "idle"
  BY <1>1 DEF Register, EndRemove, CollectRaises, EndSearch, Return, Shape, TypeOK
<1>2. ASSUME InsertMove(t) PROVE GetsOn(t)
  BY <1>2, MoveGetsOn DEF InsertMove
<1>3. ASSUME Attach(t) PROVE GetsOn(t)
  <2>1. ~AtEnd(t)
    BY <1>3 DEF Attach, AtEnd, Shape, CallsOK, CallOK, TypeOK
  <2>2. PICK n : Move(t, n, "insert")
    BY <1>3 DEF Attach
  <2>3. QED
    BY <1>3, <2>1, <2>2, MoveGetsOn DEF Attach
<1>4. ASSUME Step(t) PROVE GetsOn(t)
  <2>1. ~AtEnd(t)
    BY <1>4 DEF Step, AtEnd, Shape, CallsOK, CallOK, TypeOK
  <2>2. QED
    BY <1>4, <2>1, MoveGetsOn DEF Step
<1>5. ASSUME SearchMove(t) PROVE GetsOn(t)
  <2>1. PICK p \in Places : Move(t, Child(t), p)
    BY <1>5 DEF SearchMove
  <2>2. QED
    BY <1>5, <2>1, MoveGetsOn DEF SearchMove
<1>6. ASSUME NewNode(t) \/ AddId(t) PROVE GetsOn(t)
  BY <1>6, Stages, GotoGetsOn DEF NewNode, AddId
<1>7. ASSUME Discard(t) PROVE GetsOn(t)
  BY <1>7, Stages, GotoGetsOn DEF Discard
<1>8. ASSUME CollectEnd(t) PROVE GetsOn(t)
  BY <1>8, Stages, GotoGetsOn DEF CollectEnd
<1>9. ASSUME Descend(t) PROVE GetsOn(t)
  BY <1>9, Stages DEF Descend, GetsOn, Shape, TypeOK
<1>10. ASSUME Prune(t) PROVE GetsOn(t)
  <2>1. path[t] \in Seq(Nodes) /\ path[t] # <<>>
    BY <1>10 DEF Prune, Shape, TypeOK
  <2>2. Len(Front(path[t])) = Len(path[t]) - 1 /\ Len(path[t]) \in Nat
    BY <2>1, FrontOf
  <2>3. path'[t] = Front(path[t]) /\ UNCHANGED <<pc, string, depth, found>>
    BY <1>10 DEF Prune, Shape, TypeOK
  <2>4. QED
    BY <2>2, <2>3 DEF GetsOn
<1>11. ASSUME Collect(t) PROVE GetsOn(t)
  <2>1. PICK o \in Rest(t) : found' = [found EXCEPT ![t] = @ \cup {<<o, depth[t]>>}]
    BY <1>11 DEF Collect
  <2>2. <<o, depth[t]>> \notin found[t] /\ found'[t] = found[t] \cup {<<o, depth[t]>>}
    BY <2>1 DEF Rest, Shape, TypeOK
  <2>3. UNCHANGED <<pc, string, depth, path>>
    BY <1>11 DEF Collect
  <2>4. QED
    BY <2>2, <2>3 DEF GetsOn
<1>12. QED
  BY <1>1, <1>2, <1>3, <1>4, <1>5, <1>6, <1>7, <1>8, <1>9, <1>10, <1>11 DEF Turn, Inserting, Removing, Searching

\* A step of another thread leaves the locals of a call alone.
LEMMA OthersLeaveLocals ==
    ASSUME Shape, Next, NEW t \in Threads, pc[t] # "idle", ~Turn(t)
    PROVE  UNCHANGED <<pc[t], object[t], string[t], depth[t], node[t], path[t], seen[t], found[t]>>
<1>1. PICK u \in Threads : StepOf(u)
  BY StepsOfThreads
<1>2. CASE u = t
  BY <1>1, <1>2 DEF StepOf, Turn, BeginInsert, BeginRemove, BeginSearch, Begin
<1>3. CASE u # t
  <2>1. Same(t)
    BY <1>1, <1>3, OthersSame DEF StepOf
  <2>2. QED
    BY <2>1 DEF Same
<1>4. QED
  BY <1>2, <1>3

\* Insert, search and remove are wait-free, also when inserts overlap: every step of a call ends it or
\* brings it closer to its end, and no step of another thread sends it back.
THEOREM CallsAreWaitFree == Spec => WalksGetOn
<1>1. Shape /\ [Next]_vars =>
        [\A t \in Threads : pc[t] # "idle" =>
            \/ pc'[t] = "idle" \/ GetsOn(t)
            \/ ~Turn(t) /\ UNCHANGED <<pc[t], object[t], string[t], depth[t], node[t], path[t], seen[t], found[t]>>]_vars
  <2>1. ASSUME Shape, Next, NEW t \in Threads, pc[t] # "idle"
        PROVE  \/ pc'[t] = "idle" \/ GetsOn(t)
               \/ ~Turn(t) /\ UNCHANGED <<pc[t], object[t], string[t], depth[t], node[t], path[t], seen[t], found[t]>>
    <3>1. CASE Turn(t)
      BY <2>1, <3>1, TurnsGetOn
    <3>2. CASE ~Turn(t)
      BY <2>1, <3>2, OthersLeaveLocals
    <3>3. QED
      BY <3>1, <3>2
  <2>2. QED
    BY <2>1
<1>2. QED
  BY <1>1, ShapeInit, ShapeStep, PTL DEF Spec, WalksGetOn
=============================================================================
