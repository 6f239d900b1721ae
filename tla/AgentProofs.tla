---------------------------- MODULE AgentProofs ----------------------------
(***************************************************************************)
(* What holds of AgentSteps for any workflows, agents, steps and objects.  *)
(*                                                                         *)
(* GraphInv is inductive for add_step and mark_step_completed: the lists   *)
(* of workflows and agents name each known step once (GraphTypes), and a   *)
(* child is listed once and behind its parent in their workflow            *)
(* (ChildrenOK).  PolicyInv counts: what is used was predicted, what is    *)
(* predicted was counted.                                                  *)
(*                                                                         *)
(* StepsAt picks steps out of a list by their positions; Place is its      *)
(* inverse, and the order of the positions is that of the steps picked.    *)
(***************************************************************************)
EXTENDS AgentSteps, FiniteSetTheorems, SequenceTheorems, WellFoundedInduction, TLAPS

\* A set of natural numbers has a least one.
LEMMA LeastNumber == ASSUME NEW T \in SUBSET Nat, T # {} PROVE \E i \in T : \A j \in T : i <= j
<1>1. \E i \in T : \A j \in T : ~(<<j, i>> \in OpToRel(<, Nat))
  BY NatLessThanWellFounded, WFMin
<1>2. \A i, j \in T : ~(<<j, i>> \in OpToRel(<, Nat)) => i <= j
  BY DEF OpToRel
<1>3. QED
  BY <1>1, <1>2

\* The place of i among the numbers of P.
Place(P, i) == Cardinality({j \in P : j <= i})

\* Places count from 1, in the order of the numbers.
LEMMA PlaceFacts ==
    ASSUME NEW P \in SUBSET Nat, IsFiniteSet(P)
    PROVE  /\ Cardinality(P) \in Nat
           /\ \A i \in P : Place(P, i) \in 1..Cardinality(P)
           /\ \A i, k \in P : i < k => Place(P, i) < Place(P, k)
<1>1. Cardinality(P) \in Nat
  BY FS_CardinalityType
<1>2. ASSUME NEW i \in P
      PROVE  IsFiniteSet({j \in P : j <= i}) /\ Place(P, i) \in Nat /\ Place(P, i) <= Cardinality(P) /\ Place(P, i) # 0
  <2> DEFINE B == {j \in P : j <= i}
  <2>1. B \subseteq P /\ i \in B
    OBVIOUS
  <2>2. IsFiniteSet(B) /\ Cardinality(B) <= Cardinality(P)
    BY <2>1, FS_Subset
  <2>3. Cardinality(B) \in Nat /\ Cardinality(B) # 0
    BY <2>1, <2>2, FS_CardinalityType, FS_EmptySet
  <2>4. QED
    BY <2>2, <2>3 DEF Place
<1>3. ASSUME NEW i \in P, NEW k \in P, i < k PROVE Place(P, i) < Place(P, k)
  <2> DEFINE B == {j \in P : j <= i}
             C == {j \in P : j <= k}
  <2>1. B \subseteq C /\ k \in C /\ k \notin B
    <3>1. i \in Nat /\ k \in Nat /\ \A j \in P : j \in Nat
      OBVIOUS
    <3>2. \A j \in P : j <= i => j <= k
      BY <1>3, <3>1
    <3>3. k <= k /\ ~(k <= i)
      BY <1>3, <3>1
    <3>4. QED
      BY <3>2, <3>3
  <2>2. IsFiniteSet(C) /\ Cardinality(B) \in Nat /\ Cardinality(C) \in Nat
    BY <1>2 DEF Place
  <2>3. Cardinality(B) <= Cardinality(C) /\ (Cardinality(B) = Cardinality(C) => B = C)
    BY <2>1, <2>2, FS_Subset
  <2>4. QED
    BY <2>1, <2>2, <2>3 DEF Place
<1>4. \A i \in P : Place(P, i) \in 1..Cardinality(P)
  <2>1. SUFFICES ASSUME NEW i \in P PROVE Place(P, i) \in 1..Cardinality(P)
    OBVIOUS
  <2>2. Place(P, i) \in Nat /\ Place(P, i) <= Cardinality(P) /\ Place(P, i) # 0
    BY <1>2
  <2>3. QED
    BY <1>1, <2>2
<1>5. \A i, k \in P : i < k => Place(P, i) < Place(P, k)
  BY <1>3
<1>6. QED
  BY <1>1, <1>4, <1>5

\* Each place is taken.
LEMMA PlaceTaken ==
    ASSUME NEW P \in SUBSET Nat, IsFiniteSet(P), NEW n \in 1..Cardinality(P)
    PROVE  \E i \in P : Place(P, i) = n
<1> DEFINE f == [i \in P |-> Place(P, i)]
           T == 1..Cardinality(P)
<1>1. IsFiniteSet(T) /\ Cardinality(T) = Cardinality(P)
  BY FS_CardinalityType, FS_Interval
<1>2. f \in [P -> T]
  BY PlaceFacts
<1>3. \A i, k \in P : f[i] = f[k] => i = k
  <2>1. SUFFICES ASSUME NEW i \in P, NEW k \in P, Place(P, i) = Place(P, k) PROVE i = k
    OBVIOUS
  <2>2. i \in Nat /\ k \in Nat /\ Place(P, i) \in 1..Cardinality(P)
    BY PlaceFacts
  <2>3. ~(i < k) /\ ~(k < i)
    BY <2>1, <2>2, PlaceFacts
  <2>4. QED
    BY <2>2, <2>3
<1> HIDE DEF f, T
<1>4. f \in Injection(P, T)
  BY <1>2, <1>3 DEF Injection, IsInjective
<1>5. f \in Surjection(P, T)
  <2>1. QED
    BY <1>1, <1>4, FS_Injection
<1>6. PICK i \in P : f[i] = n
  BY <1>5 DEF Surjection, T
<1>7. QED
  BY <1>6 DEF f

\* The nth number of a set.
LEMMA NthFacts ==
    ASSUME NEW P \in SUBSET Nat, IsFiniteSet(P)
    PROVE  /\ Cardinality(P) \in Nat
           /\ \A n \in 1..Cardinality(P) : Nth(P, n) \in P /\ Place(P, Nth(P, n)) = n
           /\ \A i \in P : Place(P, i) \in 1..Cardinality(P) /\ Nth(P, Place(P, i)) = i
<1>1. ASSUME NEW n \in 1..Cardinality(P) PROVE Nth(P, n) \in P /\ Place(P, Nth(P, n)) = n
  BY PlaceTaken DEF Nth, Place
<1>2. ASSUME NEW i \in P PROVE Place(P, i) \in 1..Cardinality(P) /\ Nth(P, Place(P, i)) = i
  <2>1. Place(P, i) \in 1..Cardinality(P)
    BY PlaceFacts
  <2>2. PICK k \in P : k = Nth(P, Place(P, i)) /\ Place(P, k) = Place(P, i)
    BY <1>1, <2>1
  <2>3. ~(i < k) /\ ~(k < i) /\ i \in Nat /\ k \in Nat
    BY <2>2, PlaceFacts
  <2>4. QED
    BY <2>1, <2>2, <2>3
<1>3. QED
  BY <1>1, <1>2, PlaceFacts

\* The steps at some positions of a list: each of them once, in their order.
LEMMA StepsAtFacts ==
    ASSUME NEW S, NEW list \in Seq(S), NEW P \in SUBSET (1..Len(list))
    PROVE  /\ IsFiniteSet(P) /\ P \subseteq Nat /\ Cardinality(P) \in Nat
           /\ StepsAt(list, P) \in Seq(S) /\ Len(StepsAt(list, P)) = Cardinality(P)
           /\ \A n \in 1..Cardinality(P) : /\ StepsAt(list, P)[n] = list[Nth(P, n)]
                                           /\ Nth(P, n) \in P /\ Place(P, Nth(P, n)) = n
           /\ \A i \in P : Place(P, i) \in 1..Cardinality(P) /\ Nth(P, Place(P, i)) = i
<1>1. IsFiniteSet(P) /\ P \subseteq Nat
  <2>1. Len(list) \in Nat /\ IsFiniteSet(1..Len(list))
    BY FS_Interval
  <2>2. IsFiniteSet(P)
    BY <2>1, FS_Subset
  <2>3. QED
    BY <2>1, <2>2
<1>2. \A n \in 1..Cardinality(P) : Nth(P, n) \in P
  BY <1>1, NthFacts
<1>3. \A i \in P : list[i] \in S
  OBVIOUS
<1>4. \A n \in 1..Cardinality(P) : list[Nth(P, n)] \in S
  BY <1>2, <1>3
<1>5. Cardinality(P) \in Nat
  BY <1>1, NthFacts
<1>6. StepsAt(list, P) \in Seq(S) /\ Len(StepsAt(list, P)) = Cardinality(P)
      /\ \A n \in 1..Cardinality(P) : StepsAt(list, P)[n] = list[Nth(P, n)]
  BY <1>4, <1>5 DEF StepsAt
<1>7. QED
  BY <1>1, <1>5, <1>6, NthFacts

-----------------------------------------------------------------------------
(* The inductive invariant. *)

Precedes(steps, s, u) == \E j, k \in DOMAIN steps : j < k /\ steps[j] = s /\ steps[k] = u

\* Each child is listed once, and behind its parent in their workflow.
ChildrenOK ==
    \A s \in Steps :
        /\ IsInjective(child_step_ids[s])
        /\ \A i \in DOMAIN child_step_ids[s] : Known(s) /\ Precedes(StepsOf(s), s, child_step_ids[s][i])

GraphTypes ==
    /\ workflow \in [Steps -> Workflows \cup {None}]
    /\ agent \in [Steps -> Agents \cup {None}]
    /\ parent \in [Steps -> Steps \cup {None}]
    /\ completed \subseteq KnownSteps
    /\ child_step_ids \in [Steps -> Seq(KnownSteps)]
    /\ workflow_steps \in [Workflows -> Seq(KnownSteps)] /\ agent_steps \in [Agents -> Seq(KnownSteps)]
    /\ \A w \in Workflows : /\ IsInjective(workflow_steps[w])
                             /\ ToSet(workflow_steps[w]) = {s \in KnownSteps : workflow[s] = w}
    /\ \A a \in Agents : /\ IsInjective(agent_steps[a])
                          /\ ToSet(agent_steps[a]) = {s \in KnownSteps : agent[s] = a}

GraphInv == GraphTypes /\ ChildrenOK

\* What is used was predicted, and each new id was counted when it was predicted.
PolicyInv ==
    /\ current \in Steps \cup {None}
    /\ step_objects \in [Steps -> SUBSET Objects]
    /\ predicted \subseteq Objects /\ used \subseteq predicted
    /\ prefetch_count \in Nat /\ expected \in Nat /\ recalled \in Nat /\ requests \in Nat
    /\ Cardinality(predicted) <= prefetch_count
    /\ recalled <= expected

-----------------------------------------------------------------------------
(* What is predicted. *)

\* A member of a list is found at its first place.
LEMMA FirstIndex ==
    ASSUME NEW S, NEW l \in Seq(S), NEW e, e \in ToSet(l)
    PROVE  LET m == SelectInSeq(l, LAMBDA x : x = e) IN m \in 1..Len(l) /\ l[m] = e
<1> DEFINE I == {i \in 1..Len(l) : l[i] = e}
<1>1. I # {} /\ I \subseteq Nat
  BY DEF ToSet
<1>2. PICK i \in I : \A j \in I : i <= j
  <2> HIDE DEF I
  <2>1. QED
    BY <1>1, LeastNumber
<1>3. SelectInSeq(l, LAMBDA x : x = e) = Min(I)
  BY <1>1 DEF SelectInSeq
<1>4. Min(I) \in I
  BY <1>2 DEF Min
<1>5. QED
  BY <1>3, <1>4

\* A known step is in the list of its workflow, at one place.
LEMMA OwnList ==
    ASSUME GraphTypes, NEW s \in KnownSteps
    PROVE  /\ s \in Steps /\ workflow[s] \in Workflows
           /\ StepsOf(s) \in Seq(KnownSteps) /\ IsInjective(StepsOf(s))
           /\ ToSet(StepsOf(s)) = {u \in KnownSteps : workflow[u] = workflow[s]}
<1>1. s \in Steps /\ workflow[s] \in Workflows
  BY DEF GraphTypes, KnownSteps, Known
<1>2. QED
  BY <1>1 DEF GraphTypes, StepsOf

\* What is to come lies behind the step and is not done.
LEMMA FutureFacts ==
    ASSUME GraphTypes, NEW s \in KnownSteps
    PROVE  \E p \in 1..Len(StepsOf(s)) :
              /\ StepsOf(s)[p] = s
              /\ Future(s) = {i \in 1..Len(StepsOf(s)) : i > p /\ StepsOf(s)[i] \notin completed}
<1> DEFINE p == SelectInSeq(StepsOf(s), LAMBDA x : x = s)
<1>1. StepsOf(s) \in Seq(KnownSteps) /\ s \in ToSet(StepsOf(s))
  BY OwnList
<1>2. p \in 1..Len(StepsOf(s)) /\ StepsOf(s)[p] = s
  BY <1>1, FirstIndex
<1>3. Future(s) = PendingAfter(StepsOf(s), p)
  BY DEF Future
<1> HIDE DEF p
<1>4. PendingAfter(StepsOf(s), p) = {i \in 1..Len(StepsOf(s)) : i > p /\ StepsOf(s)[i] \notin completed}
  BY <1>1, <1>2 DEF PendingAfter
<1>5. QED
  BY <1>2, <1>3, <1>4

\* next are the first steps of list at the positions of P.
FirstAt(next, list, P) ==
    /\ next \in Seq(KnownSteps) /\ Len(next) <= TopK
    /\ \A i \in 1..Len(next) : next[i] = list[Nth(P, i)] /\ Nth(P, i) \in P /\ Place(P, Nth(P, i)) = i
    /\ next = <<>> => P = {}

\* FirstOf takes them from the front.
LEMMA FirstAtFacts ==
    ASSUME NEW list \in Seq(KnownSteps), NEW P \in SUBSET (1..Len(list))
    PROVE  /\ FirstAt(FirstOf(StepsAt(list, P), TopK), list, P)
           /\ StepsAt(list, P) = <<>> <=> P = {}
<1> DEFINE u == StepsAt(list, P)
           n == IF Len(u) < TopK THEN Len(u) ELSE TopK
           next == SubSeq(u, 1, n)
<1>1. u \in Seq(KnownSteps) /\ Len(u) = Cardinality(P) /\ Cardinality(P) \in Nat /\ IsFiniteSet(P)
  BY StepsAtFacts
<1>2. \A i \in 1..Cardinality(P) : u[i] = list[Nth(P, i)] /\ Nth(P, i) \in P /\ Place(P, Nth(P, i)) = i
  BY StepsAtFacts
<1> HIDE DEF u
<1>3. u = <<>> <=> P = {}
  <2>1. u = <<>> <=> Len(u) = 0
    <3>1. u \in Seq(KnownSteps)
      BY <1>1
    <3>2. QED
      BY <3>1
  <2>2. Cardinality(P) = 0 <=> P = {}
    BY <1>1, FS_EmptySet
  <2>3. QED
    BY <1>1, <2>1, <2>2
<1>4. TopK \in 1..6
  BY StepsAssumption
<1>5. n \in 0..Len(u) /\ n <= TopK /\ (n = 0 => Len(u) = 0)
  BY <1>1, <1>4
<1> HIDE DEF n
<1>6. next \in Seq(KnownSteps) /\ Len(next) = n /\ \A i \in 1..n : next[i] = u[i]
  BY <1>1, <1>5
<1>7. next = <<>> => P = {}
  BY <1>1, <1>3, <1>5, <1>6
<1>8. next = FirstOf(u, TopK)
  BY DEF FirstOf, n
<1> HIDE DEF next
<1>9. FirstAt(next, list, P)
  BY <1>1, <1>2, <1>5, <1>6, <1>7 DEF FirstAt
<1>10. QED
  BY <1>3, <1>8, <1>9 DEF u

\* The prediction: the first children that are not done, or the first steps to come.
FromChildren(next, s) ==
    LET P == {i \in 1..Len(child_step_ids[s]) : child_step_ids[s][i] \notin completed}
    IN  P # {} /\ FirstAt(next, child_step_ids[s], P)

\* What predict_next_steps returns, in these terms.
LEMMA PredictionFacts ==
    ASSUME GraphTypes, NEW s \in KnownSteps
    PROVE  \/ FromChildren(PredictNextSteps(s), s)
           \/ FirstAt(PredictNextSteps(s), StepsOf(s), Future(s))
<1> DEFINE children == child_step_ids[s]
           P == {i \in 1..Len(children) : children[i] \notin completed}
<1>1. s \in Steps /\ StepsOf(s) \in Seq(KnownSteps)
  BY OwnList
<1>2. children \in Seq(KnownSteps)
  BY <1>1 DEF GraphTypes
<1>3. PendingAfter(children, 0) = P
  BY <1>2 DEF PendingAfter
<1>4. Future(s) \subseteq 1..Len(StepsOf(s))
  BY FutureFacts
<1>5. PendingChildren(s) = StepsAt(children, P)
  BY <1>3 DEF PendingChildren
<1>6. P \in SUBSET (1..Len(children))
  OBVIOUS
<1>7. CASE P # {}
  <2>1. FirstAt(FirstOf(StepsAt(children, P), TopK), children, P) /\ StepsAt(children, P) # <<>>
    <3> HIDE DEF children, P
    <3>1. QED
      BY <1>2, <1>6, <1>7, FirstAtFacts
  <2>2. PredictNextSteps(s) = FirstOf(StepsAt(children, P), TopK)
    <3> HIDE DEF children, P
    <3>1. QED
      BY <1>5, <2>1 DEF PredictNextSteps
  <2>3. QED
    BY <1>7, <2>1, <2>2 DEF FromChildren
<1>8. CASE P = {}
  <2>1. StepsAt(children, P) = <<>>
    <3> HIDE DEF children, P
    <3>1. QED
      BY <1>2, <1>6, <1>8, FirstAtFacts
  <2>2. PredictNextSteps(s) = FirstOf(StepsAt(StepsOf(s), Future(s)), TopK)
    <3> HIDE DEF children, P
    <3>1. QED
      BY <1>5, <2>1 DEF PredictNextSteps, FutureUncompletedSteps
  <2>3. QED
    BY <1>1, <1>4, <2>2, FirstAtFacts
<1>9. QED
  BY <1>7, <1>8

-----------------------------------------------------------------------------
(* The graph grows: nothing known is forgotten or moved. *)

\* m is l with e behind it, each named once.
LongerBy(m, l, e, T) ==
    /\ m \in Seq(T) /\ IsInjective(m) /\ ToSet(m) = ToSet(l) \cup {e}
    /\ Len(m) = Len(l) + 1 /\ m[Len(l) + 1] = e
    /\ \A i \in 1..Len(l) : m[i] = l[i]

\* A step listed for the first time.
LEMMA Listed ==
    ASSUME NEW S, NEW T, S \subseteq T, NEW l \in Seq(S), NEW e \in T, e \notin S, IsInjective(l)
    PROVE  LongerBy(List(l, e), l, e, T)
<1> DEFINE m == List(l, e)
<1>1. l \in Seq(T) /\ Len(l) \in Nat /\ DOMAIN l = 1..Len(l) /\ \A i \in 1..Len(l) : l[i] \in S
  OBVIOUS
<1>2. /\ m \in Seq(T) /\ Len(m) = Len(l) + 1 /\ m[Len(l) + 1] = e
      /\ \A i \in 1..Len(l) : m[i] = l[i]
  BY <1>1 DEF List
<1> HIDE DEF m
<1>3. DOMAIN m = 1..(Len(l) + 1)
  BY <1>1, <1>2
<1>4. \A i \in DOMAIN m : i = Len(l) + 1 \/ i \in 1..Len(l)
  BY <1>1, <1>3
<1>5. Len(l) + 1 \in DOMAIN m /\ \A i \in 1..Len(l) : i \in DOMAIN m
  BY <1>1, <1>3
<1>6. IsInjective(m)
  BY <1>1, <1>2, <1>4 DEF IsInjective
<1>7. ToSet(m) = ToSet(l) \cup {e}
  BY <1>1, <1>2, <1>4, <1>5 DEF ToSet
<1>8. QED
  BY <1>2, <1>6, <1>7 DEF m, LongerBy

\* A list of some steps is one of more steps.
LEMMA Widened == ASSUME NEW S, NEW T, S \subseteq T, NEW l \in Seq(S) PROVE l \in Seq(T)
OBVIOUS

\* The lists of some index (workflow_steps, agent_steps): of is what they are indexed by.
Indexed(index, keys, of, K) ==
    /\ index \in [keys -> Seq(K)]
    /\ \A k \in keys : IsInjective(index[k]) /\ ToSet(index[k]) = {s \in K : of[s] = k}

More(index2, index, keys, k, s) ==
    /\ \A j \in keys : /\ Len(index[j]) <= Len(index2[j])
                       /\ \A i \in 1..Len(index[j]) : index2[j][i] = index[j][i]
    /\ Len(index2[k]) = Len(index[k]) + 1 /\ index2[k][Len(index[k]) + 1] = s

AddedTo(index2, of2, index, of, K, s, k) ==
    /\ s \notin K /\ of2[s] = k /\ \A u \in K : of2[u] = of[u]
    /\ index2 = [index EXCEPT ![k] = List(@, s)]

\* An index after a step was added.
LEMMA IndexedMore ==
    ASSUME NEW keys, NEW K, NEW index, NEW of, Indexed(index, keys, of, K),
           NEW s, NEW k \in keys, NEW of2, NEW index2, AddedTo(index2, of2, index, of, K, s, k)
    PROVE  Indexed(index2, keys, of2, K \cup {s}) /\ More(index2, index, keys, k, s)
<1> DEFINE T == K \cup {s}
<1> USE DEF AddedTo
<1>1. /\ index \in [keys -> Seq(K)]
      /\ \A j \in keys : IsInjective(index[j]) /\ ToSet(index[j]) = {u \in K : of[u] = j}
  BY DEF Indexed
<1>2. index2[k] = List(index[k], s) /\ \A j \in keys : j # k => index2[j] = index[j]
  BY <1>1
<1>3. K \subseteq T /\ s \in T
  OBVIOUS
<1> HIDE DEF T
<1>4. /\ index2[k] \in Seq(T) /\ IsInjective(index2[k]) /\ ToSet(index2[k]) = ToSet(index[k]) \cup {s}
      /\ Len(index2[k]) = Len(index[k]) + 1 /\ index2[k][Len(index[k]) + 1] = s
      /\ \A i \in 1..Len(index[k]) : index2[k][i] = index[k][i]
  <2>1. index[k] \in Seq(K) /\ IsInjective(index[k])
    BY <1>1
  <2>2. LongerBy(List(index[k], s), index[k], s, T)
    BY <1>3, <2>1, Listed
  <2>3. QED
    BY <1>2, <2>2 DEF LongerBy
<1>5. \A j \in keys : index2[j] \in Seq(T)
  <2>1. ASSUME NEW j \in keys, j # k PROVE index2[j] \in Seq(T)
    <3>1. index2[j] = index[j] /\ index[j] \in Seq(K)
      BY <1>1, <1>2, <2>1
    <3>2. QED
      BY <1>3, <3>1, Widened
  <2>2. QED
    BY <1>4, <2>1
<1>6. index2 \in [keys -> Seq(T)]
  <2>1. DOMAIN index2 = keys /\ index2 = [j \in keys |-> index2[j]]
    BY <1>1
  <2>2. QED
    BY <1>5, <2>1
<1>7. ToSet(index2[k]) = {u \in T : of2[u] = k}
  <2>1. ToSet(index[k]) = {u \in K : of[u] = k} /\ ToSet(index2[k]) = ToSet(index[k]) \cup {s}
    BY <1>1, <1>4
  <2>2. {u \in T : of2[u] = k} = {u \in K : of[u] = k} \cup {s}
    BY DEF T
  <2>3. QED
    BY <2>1, <2>2
<1>8. \A j \in keys : j # k => ToSet(index2[j]) = {u \in T : of2[u] = j}
  BY <1>1, <1>2 DEF T
<1>9. \A j \in keys : IsInjective(index2[j])
  BY <1>1, <1>2, <1>4
<1>10. Indexed(index2, keys, of2, T)
  BY <1>6, <1>7, <1>8, <1>9 DEF Indexed
<1>11. \A j \in keys : Len(index[j]) \in Nat
  BY <1>1
<1>12. \A j \in keys : Len(index[j]) <= Len(index2[j])
  BY <1>2, <1>4, <1>11
<1>13. \A j \in keys : \A i \in 1..Len(index[j]) : index2[j][i] = index[j][i]
  BY <1>2, <1>4
<1>14. QED
  BY <1>4, <1>10, <1>12, <1>13 DEF T, More

\* What was known stays known, where it was.
Grows ==
    /\ completed \subseteq completed'
    /\ \A u \in KnownSteps :
          /\ u \in KnownSteps' /\ workflow'[u] = workflow[u] /\ agent'[u] = agent[u]
          /\ Len(StepsOf(u)) <= Len(StepsOf(u)')
          /\ \A i \in 1..Len(StepsOf(u)) : StepsOf(u)'[i] = StepsOf(u)[i]

\* add_step keeps the graph in order.
LEMMA AddStepKeeps ==
    ASSUME GraphInv, NEW w \in Workflows, NEW s \in Steps, NEW a \in Agents,
           NEW p \in Steps \cup {None}, AddStep(w, s, a, p)
    PROVE  GraphInv' /\ Grows
<1> DEFINE K == KnownSteps
           T == K \cup {s}
<1>1. /\ workflow' = [workflow EXCEPT ![s] = w] /\ agent' = [agent EXCEPT ![s] = a]
      /\ parent' = [parent EXCEPT ![s] = p] /\ completed' = completed
      /\ workflow_steps' = [workflow_steps EXCEPT ![w] = List(@, s)]
      /\ agent_steps' = [agent_steps EXCEPT ![a] = List(@, s)]
      /\ child_step_ids' = IF p = None THEN child_step_ids ELSE [child_step_ids EXCEPT ![p] = List(@, s)]
  BY DEF AddStep
<1>2. GraphTypes
  BY DEF GraphInv
<1>3. s \notin K /\ (p # None => p \in K /\ workflow[p] = w)
  BY DEF AddStep, ParentFits, KnownSteps, Known
<1>4. /\ workflow' \in [Steps -> Workflows \cup {None}] /\ agent' \in [Steps -> Agents \cup {None}]
      /\ parent' \in [Steps -> Steps \cup {None}]
  BY <1>1, <1>2 DEF GraphTypes
<1>5. /\ workflow'[s] = w /\ agent'[s] = a
      /\ \A u \in Steps : u # s => workflow'[u] = workflow[u] /\ agent'[u] = agent[u]
  BY <1>1, <1>2 DEF GraphTypes
<1>6. KnownSteps' = T
  <2>1. w # None
    BY StepsAssumption
  <2>2. \A u \in Steps : workflow'[u] # None <=> u = s \/ workflow[u] # None
    BY <1>5, <2>1
  <2>3. QED
    BY <2>2 DEF KnownSteps, Known
<1>7. K \subseteq Steps /\ \A u \in K : workflow'[u] = workflow[u] /\ agent'[u] = agent[u] /\ workflow[u] \in Workflows
  BY <1>2, <1>3, <1>5 DEF KnownSteps, Known, GraphTypes
<1>8. Indexed(workflow_steps, Workflows, workflow, K) /\ Indexed(agent_steps, Agents, agent, K)
  BY <1>2 DEF Indexed, GraphTypes
<1>9. child_step_ids \in [Steps -> Seq(K)] /\ completed \subseteq K
  BY <1>2 DEF GraphTypes
<1>10. ChildrenOK
  BY DEF GraphInv
<1> HIDE DEF K
<1>11. /\ Indexed(workflow_steps', Workflows, workflow', T)
       /\ \A j \in Workflows : /\ Len(workflow_steps[j]) <= Len(workflow_steps'[j])
                              /\ \A i \in 1..Len(workflow_steps[j]) : workflow_steps'[j][i] = workflow_steps[j][i]
       /\ Len(workflow_steps'[w]) = Len(workflow_steps[w]) + 1
       /\ workflow_steps'[w][Len(workflow_steps[w]) + 1] = s
  <2>1. AddedTo(workflow_steps', workflow', workflow_steps, workflow, K, s, w)
    BY <1>1, <1>3, <1>5, <1>7 DEF AddedTo
  <2>2. Indexed(workflow_steps', Workflows, workflow', K \cup {s}) /\ More(workflow_steps', workflow_steps, Workflows, w, s)
    BY <1>8, <2>1, IndexedMore
  <2>3. QED
    BY <2>2 DEF More, T
<1>12. Indexed(agent_steps', Agents, agent', T)
  <2>1. AddedTo(agent_steps', agent', agent_steps, agent, K, s, a)
    BY <1>1, <1>3, <1>5, <1>7 DEF AddedTo
  <2>2. Indexed(agent_steps', Agents, agent', K \cup {s}) /\ More(agent_steps', agent_steps, Agents, a, s)
    BY <1>8, <2>1, IndexedMore
  <2>3. QED
    BY <2>2 DEF T
<1>13. \A u \in Steps : u # p => child_step_ids'[u] = child_step_ids[u]
  BY <1>1, <1>9
<1>14. p # None => child_step_ids'[p] = List(child_step_ids[p], s)
  <2>1. p # None => p \in Steps
    OBVIOUS
  <2>2. QED
    BY <1>1, <1>9, <2>1
<1>15. K \subseteq T /\ s \in T
  OBVIOUS
<1> HIDE DEF T
<1>16. ASSUME p # None
       PROVE  /\ child_step_ids'[p] \in Seq(T) /\ IsInjective(child_step_ids'[p])
              /\ Len(child_step_ids'[p]) = Len(child_step_ids[p]) + 1
              /\ child_step_ids'[p][Len(child_step_ids[p]) + 1] = s
              /\ \A i \in 1..Len(child_step_ids[p]) : child_step_ids'[p][i] = child_step_ids[p][i]
  <2>1. p \in Steps
    BY <1>16
  <2>2. child_step_ids[p] \in Seq(K) /\ IsInjective(child_step_ids[p])
    BY <1>9, <1>10, <2>1 DEF ChildrenOK
  <2>3. QED
    <3>1. LongerBy(List(child_step_ids[p], s), child_step_ids[p], s, T)
      BY <1>3, <1>15, <2>2, Listed
    <3>2. QED
      BY <1>14, <1>16, <3>1 DEF LongerBy
<1>17. \A u \in Steps : u # p \/ p = None => child_step_ids'[u] = child_step_ids[u] /\ child_step_ids[u] \in Seq(K)
  <2>1. None \notin Steps
    BY StepsAssumption
  <2>2. QED
    BY <1>9, <1>13, <2>1
<1>18. child_step_ids' \in [Steps -> Seq(T)]
  <2>1. \A u \in Steps : u # p \/ p = None => child_step_ids'[u] \in Seq(T)
    BY <1>15, <1>17, Widened
  <2>2. \A u \in Steps : child_step_ids'[u] \in Seq(T)
    BY <1>16, <2>1
  <2>3. child_step_ids' = [u \in Steps |-> child_step_ids'[u]]
    BY <1>1, <1>9
  <2>4. QED
    BY <2>2, <2>3
<1>19. GraphTypes'
  <2>1. completed' \subseteq KnownSteps'
    BY <1>1, <1>6, <1>9, <1>15
  <2>2. workflow_steps' \in [Workflows -> Seq(KnownSteps')]
        /\ \A v \in Workflows : /\ IsInjective(workflow_steps'[v])
                                /\ ToSet(workflow_steps'[v]) = {u \in KnownSteps' : workflow'[u] = v}
    BY <1>6, <1>11 DEF Indexed
  <2>3. agent_steps' \in [Agents -> Seq(KnownSteps')]
        /\ \A v \in Agents : /\ IsInjective(agent_steps'[v])
                             /\ ToSet(agent_steps'[v]) = {u \in KnownSteps' : agent'[u] = v}
    BY <1>6, <1>12 DEF Indexed
  <2>4. child_step_ids' \in [Steps -> Seq(KnownSteps')]
    BY <1>6, <1>18
  <2>5. QED
    BY <1>4, <2>1, <2>2, <2>3, <2>4 DEF GraphTypes
<1>20. Grows
  <2>1. completed \subseteq completed'
    BY <1>1
  <2>2. ASSUME NEW u \in KnownSteps
        PROVE  /\ u \in KnownSteps' /\ workflow'[u] = workflow[u] /\ agent'[u] = agent[u]
               /\ Len(StepsOf(u)) <= Len(StepsOf(u)')
               /\ \A i \in 1..Len(StepsOf(u)) : StepsOf(u)'[i] = StepsOf(u)[i]
    <3>1. u \in K
      BY DEF K
    <3>2. StepsOf(u) = workflow_steps[workflow[u]] /\ StepsOf(u)' = workflow_steps'[workflow[u]]
      BY <1>7, <3>1 DEF StepsOf
    <3>3. QED
      BY <1>6, <1>7, <1>11, <1>15, <3>1, <3>2
  <2>3. QED
    BY <2>1, <2>2 DEF Grows
<1>21. ASSUME NEW u \in K
       PROVE  StepsOf(u)' = workflow_steps'[workflow[u]] /\ StepsOf(u) = workflow_steps[workflow[u]]
              /\ workflow[u] \in Workflows /\ StepsOf(u) \in Seq(K)
  BY <1>7, <1>8 DEF StepsOf, Indexed
<1>22. ASSUME NEW u \in K, NEW v, Precedes(StepsOf(u), u, v)
       PROVE  Precedes(StepsOf(u)', u, v)
  <2>1. PICK j \in 1..Len(StepsOf(u)), k \in 1..Len(StepsOf(u)) :
            j < k /\ StepsOf(u)[j] = u /\ StepsOf(u)[k] = v
    <3>1. StepsOf(u) \in Seq(K)
      BY <1>21
    <3>2. DOMAIN StepsOf(u) = 1..Len(StepsOf(u))
      BY <3>1
    <3>3. QED
      BY <1>22, <3>2 DEF Precedes
  <2>2. /\ j \in DOMAIN StepsOf(u)' /\ k \in DOMAIN StepsOf(u)'
        /\ StepsOf(u)'[j] = StepsOf(u)[j] /\ StepsOf(u)'[k] = StepsOf(u)[k]
    <3>1. workflow_steps'[workflow[u]] \in Seq(T)
      BY <1>11, <1>21 DEF Indexed
    <3>2. Len(workflow_steps[workflow[u]]) \in Nat /\ Len(workflow_steps'[workflow[u]]) \in Nat
      BY <1>21, <3>1
    <3>3. DOMAIN workflow_steps'[workflow[u]] = 1..Len(workflow_steps'[workflow[u]])
      BY <3>1
    <3>4. /\ Len(workflow_steps[workflow[u]]) <= Len(workflow_steps'[workflow[u]])
          /\ \A i \in 1..Len(workflow_steps[workflow[u]]) :
                workflow_steps'[workflow[u]][i] = workflow_steps[workflow[u]][i]
      BY <1>11, <1>21
    <3>5. PICK m, n : m = Len(workflow_steps[workflow[u]]) /\ n = Len(workflow_steps'[workflow[u]])
      OBVIOUS
    <3>6. j \in 1..m /\ k \in 1..m /\ j \in 1..n /\ k \in 1..n
      BY <1>21, <2>1, <3>2, <3>4, <3>5
    <3>7. QED
      BY <1>21, <3>3, <3>4, <3>5, <3>6
  <2>3. QED
    BY <2>1, <2>2 DEF Precedes
<1>23. ASSUME p # None PROVE Precedes(StepsOf(p)', p, s)
  <2>1. p \in K /\ workflow[p] = w
    BY <1>3, <1>23
  <2>2. p \in ToSet(workflow_steps[w]) /\ workflow_steps[w] \in Seq(K) /\ workflow_steps'[w] \in Seq(T)
    BY <1>8, <1>11, <2>1 DEF Indexed
  <2>3. PICK j \in 1..Len(workflow_steps[w]) : workflow_steps[w][j] = p
    BY <2>2 DEF ToSet
  <2>4. j \in DOMAIN workflow_steps'[w] /\ Len(workflow_steps[w]) + 1 \in DOMAIN workflow_steps'[w]
        /\ j < Len(workflow_steps[w]) + 1 /\ workflow_steps'[w][j] = p
    BY <1>11, <2>2, <2>3
  <2>5. StepsOf(p)' = workflow_steps'[w]
    BY <1>21, <2>1
  <2>6. QED
    BY <1>11, <2>4, <2>5 DEF Precedes
<1>24. ASSUME NEW u \in Steps, NEW i \in DOMAIN child_step_ids'[u]
       PROVE  u \in T /\ Precedes(StepsOf(u)', u, child_step_ids'[u][i])
  <2>1. CASE i \in DOMAIN child_step_ids[u] /\ child_step_ids'[u][i] = child_step_ids[u][i]
    <3>1. u \in K /\ Precedes(StepsOf(u), u, child_step_ids[u][i])
      BY <1>10, <2>1 DEF ChildrenOK, K, KnownSteps
    <3>2. QED
      BY <1>15, <1>22, <2>1, <3>1
  <2>2. CASE u = p /\ p # None
    <3>1. child_step_ids[p] \in Seq(K) /\ p \in K
      BY <1>3, <1>9, <2>2
    <3>2. DOMAIN child_step_ids[p] = 1..Len(child_step_ids[p]) /\ Len(child_step_ids[p]) \in Nat
      BY <3>1
    <3>3. i = Len(child_step_ids[p]) + 1 \/ i \in DOMAIN child_step_ids[p]
      BY <1>16, <2>2, <3>2
    <3>4. i \in DOMAIN child_step_ids[p] => child_step_ids'[p][i] = child_step_ids[p][i]
      BY <1>16, <2>2, <3>2
    <3>5. CASE i = Len(child_step_ids[p]) + 1
      BY <1>15, <1>16, <1>23, <2>2, <3>1, <3>5
    <3>6. QED
      BY <2>1, <2>2, <3>3, <3>4, <3>5
  <2>3. QED
    BY <1>17, <2>1, <2>2
<1>25. \A u \in Steps : IsInjective(child_step_ids'[u])
  BY <1>10, <1>16, <1>17 DEF ChildrenOK
<1>26. ChildrenOK'
  <2>1. \A u \in T : Known(u)'
    BY <1>6 DEF KnownSteps
  <2>2. QED
    BY <1>24, <1>25, <2>1 DEF ChildrenOK
<1>27. QED
  BY <1>19, <1>20, <1>26 DEF GraphInv

\* mark_step_completed moves nothing in the graph.
LEMMA MarkKeeps ==
    ASSUME GraphInv, NEW s \in Steps, MarkStepCompleted(s)
    PROVE  GraphInv' /\ Grows
<1>1. /\ Known(s) /\ completed' = completed \cup {s} /\ workflow' = workflow /\ agent' = agent /\ parent' = parent
      /\ child_step_ids' = child_step_ids /\ workflow_steps' = workflow_steps /\ agent_steps' = agent_steps
  BY DEF MarkStepCompleted, lists
<1>2. GraphTypes /\ ChildrenOK
  BY DEF GraphInv
<1>3. KnownSteps' = KnownSteps /\ s \in KnownSteps
  BY <1>1 DEF KnownSteps, Known
<1>4. GraphTypes'
  BY <1>1, <1>2, <1>3 DEF GraphTypes
<1>5. ChildrenOK'
  BY <1>1, <1>2 DEF ChildrenOK, Known, Precedes, StepsOf
<1>6. \A u \in KnownSteps : StepsOf(u) \in Seq(KnownSteps) /\ StepsOf(u)' = StepsOf(u)
  BY <1>1, <1>2, OwnList DEF StepsOf
<1>7. \A u \in KnownSteps : Len(StepsOf(u)) \in Nat
  BY <1>6
<1>8. Grows
  BY <1>1, <1>3, <1>6, <1>7 DEF Grows
<1>9. QED
  BY <1>4, <1>5, <1>8 DEF GraphInv

\* The policy only reads the graph.
LEMMA GraphKept == ASSUME GraphInv, UNCHANGED graph PROVE GraphInv'
BY DEF GraphInv, GraphTypes, ChildrenOK, KnownSteps, Known, Precedes, StepsOf, graph

\* The graph stays in order in every step, and grows in those that change it.
LEMMA GraphStep ==
    ASSUME GraphInv, [Next]_vars
    PROVE  GraphInv' /\ (UNCHANGED graph \/ Grows)
<1>1. UNCHANGED graph => GraphInv'
  BY GraphKept
<1>2. CASE \E w \in Workflows, s \in Steps, a \in Agents, p \in Steps \cup {None} : AddStep(w, s, a, p)
  BY <1>2, AddStepKeeps
<1>3. CASE \E s \in Steps : MarkStepCompleted(s)
  BY <1>3, MarkKeeps
<1>4. CASE \/ \E s \in Steps \cup {None} : SetCurrentStep(s)
           \/ \E s \in Steps, objects \in ObjectSets : RegisterStepObjects(s, objects)
           \/ PredictPrefetch
           \/ \E o \in Objects : OnPrefetchUsed(o)
           \/ \E objects \in SUBSET Objects \ {{}} : OnObjectsRequested(objects)
  BY <1>1, <1>4 DEF SetCurrentStep, RegisterStepObjects, PredictPrefetch, OnPrefetchUsed, OnObjectsRequested
<1>5. CASE UNCHANGED vars
  BY <1>1, <1>5 DEF vars, graph
<1>6. QED
  BY <1>2, <1>3, <1>4, <1>5 DEF Next

-----------------------------------------------------------------------------
(* The policy and its counts. *)

\* What is predicted are known steps.
LEMMA PredictedKnown == ASSUME GraphTypes, NEW s \in KnownSteps PROVE PredictNextSteps(s) \in Seq(KnownSteps)
BY PredictionFacts DEF FromChildren, FirstAt

\* What is prefetched for steps is registered for one of them.
LEMMA CandidatesAreObjects ==
    ASSUME PolicyInv, NEW next \in Seq(KnownSteps)
    PROVE  Candidates(next) \subseteq Objects
<1>1. \A i \in DOMAIN next : next[i] \in Steps
  BY DEF KnownSteps
<1>2. \A i \in DOMAIN next : step_objects[next[i]] \subseteq Objects
  BY <1>1 DEF PolicyInv
<1>3. QED
  BY <1>2 DEF Candidates

\* A set of objects can be counted.
LEMMA CountObjects ==
    ASSUME NEW A, A \subseteq Objects
    PROVE  IsFiniteSet(A) /\ Cardinality(A) \in Nat /\ \A B \in SUBSET A : Cardinality(B) \in Nat /\ Cardinality(B) <= Cardinality(A)
<1>1. IsFiniteSet(A)
  BY StepsAssumption, FS_Subset
<1>2. \A B \in SUBSET A : IsFiniteSet(B) /\ Cardinality(B) <= Cardinality(A)
  BY <1>1, FS_Subset
<1>3. QED
  BY <1>1, <1>2, FS_CardinalityType

\* What is used was predicted, what is predicted was counted.
LEMMA PolicyStep ==
    ASSUME GraphInv, PolicyInv, [Next]_vars
    PROVE  PolicyInv'
<1> USE DEF PolicyInv
<1>1. CASE UNCHANGED <<setup, counts, requests>>
  BY <1>1 DEF setup, counts
<1>2. ASSUME NEW s \in Steps \cup {None}, SetCurrentStep(s) PROVE PolicyInv'
  BY <1>2 DEF SetCurrentStep, counts
<1>3. ASSUME NEW s \in Steps, NEW objects \in ObjectSets, RegisterStepObjects(s, objects) PROVE PolicyInv'
  <2>1. objects \in SUBSET Objects
    BY StepsAssumption
  <2>2. QED
    BY <1>3, <2>1 DEF RegisterStepObjects, counts
<1>4. CASE PredictPrefetch
  <2>1. requests' \in Nat /\ UNCHANGED <<current, step_objects, used, expected, recalled>>
    BY <1>4 DEF PredictPrefetch, setup, counts
  <2>2. CASE UNCHANGED counts
    BY <2>1, <2>2 DEF counts
  <2>3. CASE ~UNCHANGED counts
    <3>1. current \in KnownSteps
      BY <1>4, <2>3 DEF PredictPrefetch
    <3>2. PICK decisions \in PossibleDecisions(PredictNextSteps(current)) :
              prefetch_count' = prefetch_count + Cardinality(decisions) /\ predicted' = predicted \cup decisions
      BY <1>4, <2>3 DEF PredictPrefetch
    <3>3. PredictNextSteps(current) \in Seq(KnownSteps)
      BY <3>1, PredictedKnown DEF GraphInv
    <3>4. decisions \subseteq Objects
      <4>1. decisions \subseteq Candidates(PredictNextSteps(current))
        BY <3>2 DEF PossibleDecisions
      <4>2. QED
        BY <3>3, <4>1, CandidatesAreObjects
    <3>5. IsFiniteSet(predicted) /\ IsFiniteSet(decisions) /\ Cardinality(predicted) \in Nat /\ Cardinality(decisions) \in Nat
      BY <3>4, CountObjects
    <3>6. Cardinality(predicted \cup decisions) = Cardinality(predicted) + Cardinality(decisions) - Cardinality(predicted \cap decisions)
      BY <3>5, FS_Union
    <3>7. Cardinality(predicted \cap decisions) \in Nat /\ Cardinality(predicted \cup decisions) \in Nat
      BY <3>4, CountObjects
    <3>8. Cardinality(predicted') <= prefetch_count' /\ prefetch_count' \in Nat
      <4>1. Cardinality(predicted) <= prefetch_count /\ prefetch_count \in Nat
        OBVIOUS
      <4>2. QED
        BY <3>2, <3>5, <3>6, <3>7, <4>1
    <3>9. predicted' \subseteq Objects /\ used' \subseteq predicted'
      BY <2>1, <3>2, <3>4
    <3>10. QED
      BY <2>1, <3>8, <3>9
  <2>4. QED
    BY <2>2, <2>3
<1>5. ASSUME NEW o \in Objects, OnPrefetchUsed(o) PROVE PolicyInv'
  BY <1>5 DEF OnPrefetchUsed, setup
<1>6. ASSUME NEW objects \in SUBSET Objects, OnObjectsRequested(objects) PROVE PolicyInv'
  <2>1. /\ expected' = expected + Cardinality(objects) /\ recalled' = recalled + Cardinality(objects \cap predicted)
        /\ UNCHANGED <<current, step_objects, predicted, used, prefetch_count, requests>>
    BY <1>6 DEF OnObjectsRequested, setup
  <2>2. /\ Cardinality(objects) \in Nat /\ Cardinality(objects \cap predicted) \in Nat
        /\ Cardinality(objects \cap predicted) <= Cardinality(objects)
    BY CountObjects
  <2>3. expected' \in Nat /\ recalled' \in Nat /\ recalled' <= expected'
    BY <2>1, <2>2
  <2>4. QED
    BY <2>1, <2>3
<1>7. ASSUME NEW w \in Workflows, NEW s \in Steps, NEW a \in Agents, NEW p \in Steps \cup {None}, AddStep(w, s, a, p)
      PROVE  PolicyInv'
  BY <1>1, <1>7 DEF AddStep
<1>8. ASSUME NEW s \in Steps, MarkStepCompleted(s) PROVE PolicyInv'
  BY <1>1, <1>8 DEF MarkStepCompleted
<1>9. CASE UNCHANGED vars
  BY <1>1, <1>9 DEF vars, setup, counts
<1>10. QED
  <2> HIDE DEF PolicyInv
  <2>1. QED
    BY <1>2, <1>3, <1>4, <1>5, <1>6, <1>7, <1>8, <1>9 DEF Next

\* At the start the graph and the policy are empty.
LEMMA InitInv == ASSUME Init PROVE GraphInv /\ PolicyInv
<1>1. KnownSteps = {}
  BY DEF Init, KnownSteps, Known
<1>2. <<>> \in Seq(KnownSteps) /\ IsInjective(<<>>) /\ ToSet(<<>>) = {} /\ DOMAIN <<>> = {}
  BY DEF IsInjective, ToSet
<1>3. GraphTypes
  BY <1>1, <1>2 DEF Init, GraphTypes
<1>4. ChildrenOK
  BY <1>2 DEF Init, ChildrenOK
<1>5. Cardinality({}) = 0
  BY FS_EmptySet
<1>6. PolicyInv
  BY <1>5 DEF Init, PolicyInv
<1>7. QED
  BY <1>3, <1>4, <1>6 DEF GraphInv

\* The invariant holds in every behaviour.
LEMMA InvHolds == Spec => [](GraphInv /\ PolicyInv)
<1>1. Init => GraphInv /\ PolicyInv
  BY InitInv
<1>2. GraphInv /\ PolicyInv /\ [Next]_vars => GraphInv' /\ PolicyInv'
  BY GraphStep, PolicyStep
<1>3. QED
  BY <1>1, <1>2, PTL DEF Spec

-----------------------------------------------------------------------------
(* The properties. *)

\* The lists of workflows and agents hold each known step once, and the reported precision and
\* recall are ratios.
THEOREM TypeCorrect == Spec => []TypeOK
<1>1. ASSUME GraphInv, PolicyInv PROVE StatsAreRatios
  <2>1. predicted \subseteq Objects /\ used \in SUBSET predicted
    BY <1>1 DEF PolicyInv
  <2>2. Cardinality(used) \in Nat /\ Cardinality(predicted) \in Nat /\ Cardinality(used) <= Cardinality(predicted)
    BY <2>1, CountObjects
  <2>3. prefetch_count \in Nat /\ Cardinality(predicted) <= prefetch_count /\ recalled <= expected
    BY <1>1 DEF PolicyInv
  <2>4. QED
    BY <2>2, <2>3 DEF StatsAreRatios
<1>2. ASSUME GraphInv, PolicyInv PROVE TypeOK
  BY <1>1, <1>2 DEF GraphInv, GraphTypes, PolicyInv, TypeOK
<1>3. QED
  BY <1>2, InvHolds, PTL

\* The first steps of a list that names each once are distinct.
LEMMA FirstOnce ==
    ASSUME NEW next, NEW list, NEW P, FirstAt(next, list, P), P \subseteq DOMAIN list, IsInjective(list)
    PROVE  IsInjective(next)
<1>1. DOMAIN next = 1..Len(next)
  BY DEF FirstAt
<1>2. ASSUME NEW i \in 1..Len(next), NEW k \in 1..Len(next), next[i] = next[k] PROVE i = k
  <2>1. /\ next[i] = list[Nth(P, i)] /\ Nth(P, i) \in P /\ Place(P, Nth(P, i)) = i
        /\ next[k] = list[Nth(P, k)] /\ Nth(P, k) \in P /\ Place(P, Nth(P, k)) = k
    BY DEF FirstAt
  <2>2. Nth(P, i) = Nth(P, k)
    BY <1>2, <2>1 DEF IsInjective
  <2>3. QED
    BY <2>1, <2>2
<1>3. QED
  BY <1>1, <1>2 DEF IsInjective

\* The prediction follows the work that is left: it names up to top_k distinct steps that lie
\* behind the step in its workflow and are not done, and some step as long as there is one.
THEOREM PredictionAlwaysFollows == Spec => []PredictionsFollowWork
<1>1. ASSUME GraphInv, NEW s \in KnownSteps
      PROVE  LET next  == PredictNextSteps(s)
                 steps == StepsOf(s)
             IN  /\ Len(next) <= TopK /\ IsInjective(next)
                 /\ \A i \in DOMAIN next : next[i] \notin completed /\ Precedes(steps, s, next[i])
                 /\ next = <<>> => \A j, k \in DOMAIN steps : j < k /\ steps[j] = s => steps[k] \in completed
  <2> DEFINE next  == PredictNextSteps(s)
             steps == StepsOf(s)
  <2>1. GraphTypes /\ s \in Steps
    BY <1>1, OwnList DEF GraphInv
  <2>2. steps \in Seq(KnownSteps) /\ IsInjective(steps)
    BY <2>1, OwnList
  <2>3. FromChildren(next, s) \/ FirstAt(next, steps, Future(s))
    BY <2>1, PredictionFacts
  <2>4. PICK p \in 1..Len(steps) :
            steps[p] = s /\ Future(s) = {i \in 1..Len(steps) : i > p /\ steps[i] \notin completed}
    BY <2>1, FutureFacts
  <2>5. child_step_ids[s] \in Seq(KnownSteps) /\ IsInjective(child_step_ids[s])
        /\ \A i \in DOMAIN child_step_ids[s] : Precedes(steps, s, child_step_ids[s][i])
    BY <1>1, <2>1 DEF GraphInv, GraphTypes, ChildrenOK
  <2> HIDE DEF next, steps
  <2>6. CASE FromChildren(next, s)
    <3> DEFINE children == child_step_ids[s]
               P == {i \in 1..Len(children) : children[i] \notin completed}
    <3>1. P # {} /\ FirstAt(next, children, P)
      BY <2>6 DEF FromChildren
    <3>2. DOMAIN children = 1..Len(children) /\ P \subseteq DOMAIN children
      BY <2>5
    <3>3. IsInjective(next)
      BY <2>5, <3>1, <3>2, FirstOnce
    <3>4. Len(next) <= TopK /\ next # <<>> /\ DOMAIN next = 1..Len(next)
      BY <3>1 DEF FirstAt
    <3>5. \A i \in 1..Len(next) : Nth(P, i) \in P /\ next[i] = children[Nth(P, i)]
      BY <3>1 DEF FirstAt
    <3>6. \A i \in P : children[i] \notin completed /\ Precedes(steps, s, children[i])
      BY <2>5, <3>2
    <3> HIDE DEF P, children
    <3>7. QED
      BY <3>3, <3>4, <3>5, <3>6 DEF next, steps
  <2>7. CASE FirstAt(next, steps, Future(s))
    <3>1. DOMAIN steps = 1..Len(steps) /\ Future(s) \subseteq DOMAIN steps
      BY <2>2, <2>4
    <3>2. IsInjective(next)
      BY <2>2, <2>7, <3>1, FirstOnce
    <3>3. Len(next) <= TopK /\ DOMAIN next = 1..Len(next) /\ (next = <<>> => Future(s) = {})
      BY <2>7 DEF FirstAt
    <3>4. \A i \in 1..Len(next) : Nth(Future(s), i) \in Future(s) /\ next[i] = steps[Nth(Future(s), i)]
      BY <2>7 DEF FirstAt
    <3>5. \A i \in Future(s) : steps[i] \notin completed /\ Precedes(steps, s, steps[i])
      <4>1. \A i \in Future(s) : i \in DOMAIN steps /\ p < i /\ p \in DOMAIN steps
        BY <2>4, <3>1
      <4>2. QED
        BY <2>4, <4>1 DEF Precedes
    <3>6. ASSUME next = <<>>, NEW j \in DOMAIN steps, NEW k \in DOMAIN steps, j < k, steps[j] = s
          PROVE  steps[k] \in completed
      <4>1. j = p
        BY <2>2, <2>4, <3>1, <3>6 DEF IsInjective
      <4>2. k > p /\ k \in 1..Len(steps)
        BY <3>1, <3>6, <4>1
      <4>3. QED
        BY <2>4, <3>3, <3>6, <4>2
    <3>7. \A i \in DOMAIN next : next[i] \notin completed /\ Precedes(steps, s, next[i])
      BY <3>3, <3>4, <3>5
    <3>8. QED
      BY <3>2, <3>3, <3>6, <3>7 DEF next, steps
  <2>8. QED
    BY <2>3, <2>6, <2>7
<1>2. ASSUME GraphInv PROVE PredictionIsAhead
  BY <1>1, <1>2 DEF PredictionIsAhead, Precedes, StepsOf
<1>3. ASSUME GraphInv PROVE PredictsWhileWorkRemains
  BY <1>1, <1>3 DEF PredictsWhileWorkRemains, StepsOf
<1>4. GraphInv => PredictionsFollowWork
  BY <1>2, <1>3 DEF PredictionsFollowWork
<1>5. QED
  BY <1>4, InvHolds, PTL

\* The weights of the source are at least three quarters, and its top_k is three.
SourceValues == Weight \in [Objects -> 75..100] /\ TopK <= 3

\* The smallest of some numbers up to n.
LEMMA LeastOf == ASSUME NEW R \in SUBSET Nat, R # {} PROVE Min(R) \in R /\ \A i \in R : Min(R) <= i
<1>1. PICK m \in R : \A i \in R : m <= i
  BY LeastNumber
<1>2. QED
  BY <1>1 DEF Min

\* An object's priority is its weight over the rank of the nearest step that needs it.
LEMMA NearestDecides ==
    ASSUME SourceValues, NEW next, NEW o \in Objects, RanksOf(next, o) \subseteq 1..3, RanksOf(next, o) # {}
    PROVE  Priority(next, o) = Weight[o] * (Scale \div Min(RanksOf(next, o)))
<1> DEFINE R == RanksOf(next, o)
           m == Min(R)
           x == Weight[o]
           Q == {Weight[o] * (Scale \div i) : i \in R}
<1>1. m \in R /\ \A i \in R : m <= i
  <2>1. R \in SUBSET Nat /\ R # {}
    OBVIOUS
  <2>2. QED
    BY <2>1, LeastOf
<1>2. x \in Nat
  BY DEF SourceValues
<1>3. Scale \div 1 = 60 /\ Scale \div 2 = 30 /\ Scale \div 3 = 20
  BY DEF Scale
<1> HIDE DEF m, x, R
<1>4. R \subseteq {1, 2, 3}
  <2>1. 1..3 = {1, 2, 3}
    OBVIOUS
  <2>2. QED
    BY <2>1 DEF R
<1>5. \A i \in R : x * (Scale \div m) >= x * (Scale \div i)
  <2>1. x * 60 >= x * 30 /\ x * 30 >= x * 20 /\ x * 60 >= x * 20
    BY <1>2
  <2>2. x * 60 \in Nat /\ x * 30 \in Nat /\ x * 20 \in Nat
    BY <1>2
  <2>3. QED
    BY <1>1, <1>3, <1>4, <2>1, <2>2
<1>6. Q = {x * (Scale \div i) : i \in R}
  BY DEF x
<1>7. \A i \in R : x * (Scale \div i) \in Nat
  BY <1>2, <1>3, <1>4
<1> HIDE DEF Q
<1>8. x * (Scale \div m) \in Q /\ \A y \in Q : x * (Scale \div m) >= y
  BY <1>1, <1>5, <1>6
<1>9. \A y, z \in Q : y >= z /\ z >= y => y = z
  BY <1>6, <1>7
<1>10. Max(Q) = x * (Scale \div m)
  BY <1>8, <1>9 DEF Max
<1>11. QED
  BY <1>10 DEF Priority, Q, x, m, R

\* What is kept within max_decisions is needed no later than what is dropped.
LEMMA NearestFirst ==
    ASSUME SourceValues, GraphInv, PolicyInv, NEW s \in KnownSteps,
           NEW decisions \in PossibleDecisions(PredictNextSteps(s)), NEW o \in decisions,
           NEW q \in Candidates(PredictNextSteps(s)) \ decisions
    PROVE  Min(RanksOf(PredictNextSteps(s), o)) <= Min(RanksOf(PredictNextSteps(s), q))
<1> DEFINE next == PredictNextSteps(s)
<1>1. next \in Seq(KnownSteps) /\ Len(next) <= 3
  <2>1. next \in Seq(KnownSteps) /\ Len(next) <= TopK /\ TopK <= 3 /\ TopK \in Nat
    BY PredictionFacts, StepsAssumption DEF GraphInv, FromChildren, FirstAt, SourceValues
  <2> HIDE DEF next
  <2>2. Len(next) \in Nat
    BY <2>1
  <2>3. QED
    BY <2>1, <2>2
<1>2. /\ o \in Candidates(next) /\ q \in Candidates(next)
      /\ Priority(next, o) >= Priority(next, q)
  BY DEF PossibleDecisions
<1> HIDE DEF next
<1>3. o \in Objects /\ q \in Objects
  BY <1>1, <1>2, CandidatesAreObjects
<1>4. DOMAIN next \subseteq 1..3
  BY <1>1
<1>5. /\ RanksOf(next, o) \subseteq 1..3 /\ RanksOf(next, o) # {}
      /\ RanksOf(next, q) \subseteq 1..3 /\ RanksOf(next, q) # {}
  BY <1>2, <1>4 DEF Candidates, RanksOf
<1>6. /\ Priority(next, o) = Weight[o] * (Scale \div Min(RanksOf(next, o)))
      /\ Priority(next, q) = Weight[q] * (Scale \div Min(RanksOf(next, q)))
  BY <1>3, <1>5, NearestDecides
<1> DEFINE m == Min(RanksOf(next, o))
           n == Min(RanksOf(next, q))
<1>7. m \in 1..3 /\ n \in 1..3
  <2>1. RanksOf(next, o) \in SUBSET Nat /\ RanksOf(next, q) \in SUBSET Nat
    BY <1>5
  <2>2. m \in RanksOf(next, o) /\ n \in RanksOf(next, q)
    BY <1>5, <2>1, LeastOf
  <2>3. QED
    BY <1>5, <2>2
<1>8. Scale \div 1 = 60 /\ Scale \div 2 = 30 /\ Scale \div 3 = 20
  BY DEF Scale
<1>9. Weight[o] \in 75..100 /\ Weight[q] \in 75..100
  BY <1>3 DEF SourceValues
<1>10. Weight[o] * (Scale \div m) >= Weight[q] * (Scale \div n)
  BY <1>2, <1>6
<1> HIDE DEF m, n
<1>11. m <= n
  <2> DEFINE x == Weight[o]
             y == Weight[q]
  <2>1. x \in 75..100 /\ y \in 75..100 /\ x * (Scale \div m) >= y * (Scale \div n)
    BY <1>9, <1>10
  <2> HIDE DEF x, y
  <2>2. ~(x * 30 >= y * 60) /\ ~(x * 20 >= y * 60) /\ ~(x * 20 >= y * 30)
    BY <2>1
  <2>3. ~(m = 2 /\ n = 1) /\ ~(m = 3 /\ n = 1) /\ ~(m = 3 /\ n = 2)
    BY <1>8, <2>1, <2>2
  <2>4. QED
    BY <1>7, <2>3
<1>12. QED
  BY <1>11 DEF m, n, next

\* The cut to max_decisions never keeps an object of a later step and drops one an earlier step
\* needs.
THEOREM NearestStepAlwaysFirst ==
    ASSUME SourceValues
    PROVE  Spec => []NearestStepFirst
<1>1. GraphInv /\ PolicyInv => NearestStepFirst
  BY NearestFirst DEF NearestStepFirst
<1>2. QED
  BY <1>1, InvHolds, PTL

\* The distance to an agent's turn: the place of its first step among those to come.
LEMMA TurnFacts ==
    ASSUME GraphTypes, NEW s \in KnownSteps, NEW a, StepsToExecution(a, s) # None
    PROVE  \E m \in Future(s) :
              /\ agent[StepsOf(s)[m]] = a /\ StepsToExecution(a, s) = Place(Future(s), m)
              /\ FutureUncompletedSteps(s)[StepsToExecution(a, s)] = StepsOf(s)[m]
<1> DEFINE P == Future(s)
           turns == {i \in P : agent[StepsOf(s)[i]] = a}
           m == Min(turns)
<1>1. StepsOf(s) \in Seq(KnownSteps) /\ P \in SUBSET (1..Len(StepsOf(s)))
  BY OwnList, FutureFacts
<1>2. P \subseteq Nat /\ \A i \in P : Place(P, i) \in 1..Cardinality(P) /\ Nth(P, Place(P, i)) = i
  <2> HIDE DEF P
  <2>1. QED
    BY <1>1, StepsAtFacts
<1>3. turns # {} /\ StepsToExecution(a, s) = Place(P, m)
  BY DEF StepsToExecution, Place
<1>4. m \in turns
  <2>1. turns \in SUBSET Nat
    BY <1>2
  <2> HIDE DEF turns
  <2>2. QED
    BY <1>3, <2>1, LeastOf
<1>5. \A n \in 1..Cardinality(P) : StepsAt(StepsOf(s), P)[n] = StepsOf(s)[Nth(P, n)]
  BY DEF StepsAt
<1>6. FutureUncompletedSteps(s)[Place(P, m)] = StepsOf(s)[m]
  BY <1>2, <1>4, <1>5 DEF FutureUncompletedSteps
<1>7. QED
  BY <1>3, <1>4, <1>6

\* What is still to come stays, in its order, when the graph grows.
LEMMA FutureGrows ==
    ASSUME GraphTypes, GraphTypes', Grows, NEW s \in KnownSteps
    PROVE  /\ Future(s)' \subseteq Nat
           /\ \A i \in Future(s) : StepsOf(s)[i] \notin completed' => i \in Future(s)'
           /\ \A i \in Future(s)' : i <= Len(StepsOf(s)) => i \in Future(s)
<1>1. PICK p \in 1..Len(StepsOf(s)) :
          StepsOf(s)[p] = s /\ Future(s) = {i \in 1..Len(StepsOf(s)) : i > p /\ StepsOf(s)[i] \notin completed}
  BY FutureFacts
<1>2. /\ s \in KnownSteps' /\ workflow'[s] = workflow[s] /\ completed \subseteq completed'
      /\ Len(StepsOf(s)) <= Len(StepsOf(s)')
      /\ \A i \in 1..Len(StepsOf(s)) : StepsOf(s)'[i] = StepsOf(s)[i]
  BY DEF Grows
<1>3. workflow[s] \in Workflows /\ StepsOf(s) \in Seq(KnownSteps)
  BY OwnList
<1>4. PICK later : later = StepsOf(s)'
  OBVIOUS
<1>5. PICK known : known = KnownSteps'
  OBVIOUS
<1>6. later \in Seq(known) /\ IsInjective(later)
  <2>1. StepsOf(s)' = workflow_steps'[workflow[s]]
    BY <1>2 DEF StepsOf
  <2>2. QED
    BY <1>3, <1>4, <1>5, <2>1 DEF GraphTypes
<1>7. Len(later) \in Nat /\ Len(StepsOf(s)) \in Nat
  BY <1>3, <1>6
<1>8. p \in 1..Len(later) /\ later[p] = s /\ DOMAIN later = 1..Len(later)
  BY <1>1, <1>2, <1>4, <1>6, <1>7
<1>9. SelectInSeq(later, LAMBDA x : x = s) = p
  <2> DEFINE k == SelectInSeq(later, LAMBDA x : x = s)
  <2>1. s \in ToSet(later)
    BY <1>8 DEF ToSet
  <2>2. k \in 1..Len(later) /\ later[k] = s
    BY <1>6, <2>1, FirstIndex
  <2> HIDE DEF k
  <2>3. k = p
    BY <1>6, <1>8, <2>2 DEF IsInjective
  <2>4. QED
    BY <2>3 DEF k
<1>10. Future(s)' = {i \in (p + 1)..Len(later) : later[i] \notin completed'}
  BY <1>4, <1>9 DEF Future, PendingAfter, SelectInSeq
<1>11. Future(s)' = {i \in 1..Len(later) : i > p /\ later[i] \notin completed'}
  BY <1>7, <1>8, <1>10
<1>12. Future(s)' \subseteq Nat
  BY <1>11
<1>13. ASSUME NEW i \in Future(s), StepsOf(s)[i] \notin completed' PROVE i \in Future(s)'
  <2>1. i \in 1..Len(StepsOf(s)) /\ i > p
    BY <1>1
  <2>2. later[i] = StepsOf(s)[i] /\ i \in 1..Len(later)
    BY <1>2, <1>4, <1>7, <2>1
  <2>3. QED
    BY <1>11, <1>13, <2>1, <2>2
<1>14. ASSUME NEW i \in 1..Len(later), i > p, later[i] \notin completed', i <= Len(StepsOf(s)) PROVE i \in Future(s)
  <2>1. i \in 1..Len(StepsOf(s))
    BY <1>7, <1>14
  <2>2. StepsOf(s)[i] \notin completed
    BY <1>2, <1>4, <1>14, <2>1
  <2>3. QED
    BY <1>1, <1>14, <2>1, <2>2
<1>15. QED
  BY <1>11, <1>12, <1>13, <1>14

\* An agent's turn does not recede: its distance grows only when its next step is done.
LEMMA TurnCloser ==
    ASSUME GraphTypes, GraphTypes', Grows, NEW s \in KnownSteps, NEW a \in Agents,
           StepsToExecution(a, s) # None,
           FutureUncompletedSteps(s)[StepsToExecution(a, s)] \notin completed'
    PROVE  StepsToExecution(a, s)' # None /\ StepsToExecution(a, s)' <= StepsToExecution(a, s)
<1>1. PICK m \in Future(s) :
          /\ agent[StepsOf(s)[m]] = a /\ StepsToExecution(a, s) = Place(Future(s), m)
          /\ FutureUncompletedSteps(s)[StepsToExecution(a, s)] = StepsOf(s)[m]
  BY TurnFacts
<1>2. /\ StepsOf(s) \in Seq(KnownSteps) /\ Future(s) \in SUBSET (1..Len(StepsOf(s)))
      /\ m \in 1..Len(StepsOf(s)) /\ StepsOf(s)[m] \in KnownSteps
  <2>1. StepsOf(s) \in Seq(KnownSteps) /\ Future(s) \in SUBSET (1..Len(StepsOf(s)))
    BY OwnList, FutureFacts
  <2>2. m \in 1..Len(StepsOf(s))
    BY <2>1
  <2>3. QED
    BY <2>1, <2>2
<1>3. StepsOf(s)'[m] = StepsOf(s)[m] /\ agent'[StepsOf(s)[m]] = a
  BY <1>1, <1>2 DEF Grows
<1>4. PICK F : F = Future(s)'
  OBVIOUS
<1>5. PICK P : P = Future(s)
  OBVIOUS
<1>6. /\ F \subseteq Nat /\ m \in F
      /\ \A i \in F : i <= Len(StepsOf(s)) => i \in P
  BY <1>1, <1>4, <1>5, FutureGrows
<1>7. PICK turns : turns = {i \in F : agent'[StepsOf(s)'[i]] = a}
  OBVIOUS
<1>8. m \in turns /\ turns \in SUBSET Nat
  BY <1>3, <1>6, <1>7
<1>9. PICK n \in turns : n = Min(turns) /\ n <= m
  BY <1>8, LeastOf
<1>10. StepsToExecution(a, s)' = Cardinality({i \in F : i <= n})
  <2>1. StepsToExecution(a, s)' = IF turns = {} THEN None ELSE Cardinality({i \in F : i <= Min(turns)})
    BY <1>4, <1>7 DEF StepsToExecution
  <2>2. QED
    BY <1>8, <1>9, <2>1
<1>11. Len(StepsOf(s)) \in Nat /\ m \in Nat /\ n \in Nat /\ m <= Len(StepsOf(s)) /\ P \subseteq Nat /\ IsFiniteSet(P)
  <2>1. Len(StepsOf(s)) \in Nat /\ m \in Nat /\ n \in Nat /\ m <= Len(StepsOf(s)) /\ P \subseteq Nat
    BY <1>2, <1>5, <1>8, <1>9
  <2>2. P \in SUBSET (1..Len(StepsOf(s)))
    BY <1>2, <1>5
  <2>3. QED
    BY <1>2, <2>1, <2>2, StepsAtFacts
<1> DEFINE B == {i \in F : i <= n}
           C == {i \in P : i <= m}
<1>12. B \subseteq C
  <2>1. ASSUME NEW i \in F, i <= n PROVE i \in P /\ i <= m
    <3>1. i \in Nat /\ i <= m /\ i <= Len(StepsOf(s))
      BY <1>6, <1>9, <1>11, <2>1
    <3>2. QED
      BY <1>6, <3>1
  <2>2. QED
    BY <2>1
<1>13. IsFiniteSet(C)
  <2>1. C \subseteq P
    OBVIOUS
  <2>2. QED
    BY <1>11, <2>1, FS_Subset
<1>14. IsFiniteSet(B) /\ Cardinality(B) <= Cardinality(C) /\ Cardinality(B) \in Nat
  BY <1>12, <1>13, FS_Subset, FS_CardinalityType
<1>15. None \notin Nat
  BY StepsAssumption
<1>16. StepsToExecution(a, s) = Cardinality(C) /\ StepsToExecution(a, s)' = Cardinality(B)
  BY <1>1, <1>5, <1>10 DEF Place
<1>17. QED
  BY <1>14, <1>15, <1>16

\* While the graph grows and steps are done, the distance from a step to an agent's next step
\* grows only when that step is done.
THEOREM TurnsAlwaysCloser == Spec => TurnsComeCloser
<1>1. ASSUME GraphInv, [Next]_vars
      PROVE  UNCHANGED graph \/ \A s \in KnownSteps, a \in Agents :
                 LET before == StepsToExecution(a, s)
                     after  == StepsToExecution(a, s)'
                 IN  before # None /\ FutureUncompletedSteps(s)[before] \notin completed' =>
                         after # None /\ after <= before
  <2>1. GraphTypes /\ GraphTypes' /\ (UNCHANGED graph \/ Grows)
    BY <1>1, GraphStep DEF GraphInv
  <2>2. QED
    BY <2>1, TurnCloser
<1>2. QED
  BY <1>1, InvHolds, PTL DEF Spec, TurnsComeCloser
=============================================================================
