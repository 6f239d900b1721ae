---------------------------- MODULE PrefetchProofs ----------------------------
(***************************************************************************)
(* What MCPrefetch says of batches, of victims, of predictions and of the  *)
(* adaptive depth, for any calls and requests, any blocks, metadata and    *)
(* workflows, any sessions, prompts and blocks they match, and any window, *)
(* limits and thresholds.                                                  *)
(***************************************************************************)
EXTENDS MCPrefetch, FiniteSetTheorems, WellFoundedInduction, TLAPS

-----------------------------------------------------------------------------
(* PrefetchBatch *)

\* What a call has found so far was asked for and was there; what was there all the time and is
\* asked for first with its type has been found.
FoundHonestly(c) ==
    \A i \in Ids : found[c][i] # None =>
        /\ <<found[c][i], i>> \in during[c]
        /\ \E j \in 1..(next[c] - 1) : asked[c][j] = [id |-> i, type |-> found[c][i]]

FirstOfItsId(c, j) == \A k \in 1..(j - 1) : asked[c][k].id = asked[c][j].id => asked[c][k].type = asked[c][j].type

FoundCompletely(c) ==
    \A j \in 1..(next[c] - 1) :
        (FirstOfItsId(c, j) /\ <<asked[c][j].type, asked[c][j].id>> \in throughout[c])
            => found[c][asked[c][j].id] = asked[c][j].type

HistoryOK(c) == at[c] = "loading" => throughout[c] \subseteq kept /\ kept \subseteq during[c]

OutcomeOK(c) ==
    /\ at[c] = "answered" => next[c] > Len(asked[c])
    /\ at[c] = "failed" => refused[c] \/ Misread(c) # {}

CallInv(c) == FoundHonestly(c) /\ FoundCompletely(c) /\ HistoryOK(c) /\ OutcomeOK(c)

BatchInv == TypeOK /\ \A c \in Calls : CallInv(c)

-----------------------------------------------------------------------------

\* Before the first call nothing is asked for and nothing found.
LEMMA BatchInit == Init => BatchInv
BY BatchAssumption DEF BatchAssumption, Init, BatchInv, TypeOK, CallInv, FoundHonestly, FoundCompletely,
   HistoryOK, OutcomeOK, Decisions

\* Each step keeps the types.
LEMMA BatchTypeStep == TypeOK /\ [Next]_vars => TypeOK'
<1> SUFFICES ASSUME TypeOK, [Next]_vars PROVE TypeOK'
  OBVIOUS
<1> USE BatchAssumption DEF BatchAssumption
<1>1. ASSUME NEW o \in Objects, Write(o) PROVE TypeOK'
  BY <1>1 DEF Write, TypeOK
<1>2. ASSUME NEW o \in Objects, Erase(o) PROVE TypeOK'
  BY <1>2 DEF Erase, TypeOK
<1>3. ASSUME NEW c \in Calls, NEW r \in Requests, Ask(c, r) PROVE TypeOK'
  BY <1>3 DEF Ask, TypeOK
<1>4. ASSUME NEW c \in Calls, Skip(c) PROVE TypeOK'
  BY <1>4 DEF Skip, Loading, history, TypeOK
<1>5. ASSUME NEW c \in Calls, Load(c) PROVE TypeOK'
  <2>1. Loaded(Current(c)) \in Loadable \cup {None}
    BY DEF Loaded, TypeOK
  <2>2. Current(c) \in Decisions
    BY <1>5 DEF Load, Loading, Current, TypeOK
  <2>3. found' \in [Calls -> [Ids -> Loadable \cup {None}]]
    BY <1>5, <2>1, <2>2 DEF Load, TypeOK, Decisions
  <2>4. next' \in [Calls -> Nat \ {0}] /\ \A b \in Calls : next'[b] <= Len(asked[b]) + 1 /\ (at[b] = "idle" => next'[b] = 1)
    BY <1>5 DEF Load, Loading, TypeOK
  <2> QED
    BY <1>5, <2>3, <2>4 DEF Load, history, TypeOK
<1>6. ASSUME NEW c \in Calls, LoadRaises(c) PROVE TypeOK'
  BY <1>6 DEF LoadRaises, TypeOK
<1>7. ASSUME NEW c \in Calls, Reply(c) PROVE TypeOK'
  BY <1>7 DEF Reply, history, TypeOK
<1>8. CASE UNCHANGED vars
  BY <1>8 DEF vars, history, TypeOK
<1> QED
  BY <1>1, <1>2, <1>3, <1>4, <1>5, <1>6, <1>7, <1>8 DEF Next, Step

\* A step of another call, or one that leaves a call's variables alone but for the history of
\* what is kept, keeps what is true of the call.
LEMMA OthersKeepCall ==
    ASSUME NEW c \in Calls, CallInv(c), UNCHANGED <<at[c], asked[c], next[c], found[c], refused[c]>>,
           during[c] \subseteq during[c]', throughout[c]' \subseteq throughout[c], HistoryOK(c)'
    PROVE  CallInv(c)'
BY DEF CallInv, FoundHonestly, FoundCompletely, FirstOfItsId, OutcomeOK, Misread, Answered

\* The step of the call itself that keeps what it found.
LEMMA CallStep ==
    ASSUME TypeOK, NEW c \in Calls, CallInv(c), Step(c)
    PROVE  CallInv(c)'
<1> USE BatchAssumption DEF BatchAssumption
<1>1. CASE Skip(c)
  <2> DEFINE n == next[c]
  <2>1. /\ n \in Nat /\ n >= 1 /\ n <= Len(asked[c]) /\ asked[c] \in Seq(Decisions)
        /\ next[c]' = n + 1 /\ next[c]' - 1 = n
        /\ UNCHANGED <<at[c], asked[c], found[c], during[c], throughout[c], kept, refused[c]>>
    <3>1. n \in Nat /\ n >= 1 /\ n <= Len(asked[c]) /\ asked[c] \in Seq(Decisions)
      BY <1>1 DEF Skip, Loading, TypeOK
    <3>2. next[c]' = n + 1
      BY <1>1 DEF Skip, TypeOK
    <3>3. UNCHANGED <<at, asked, found, during, throughout, kept, refused>>
      BY <1>1 DEF Skip, history
    <3> QED
      BY <3>1, <3>2, <3>3
  <2>2. PICK k \in 1..(n - 1) : asked[c][k].id = asked[c][n].id
    BY <1>1 DEF Skip, Seen, Current
  <2>3. FoundHonestly(c)'
    <3>1. 1..(n - 1) \subseteq 1..n
      BY <2>1
    <3> QED
      BY <2>1, <3>1 DEF CallInv, FoundHonestly
  <2>4. FoundCompletely(c)'
    <3> SUFFICES ASSUME NEW j \in 1..n, FirstOfItsId(c, j),
                        <<asked[c][j].type, asked[c][j].id>> \in throughout[c]
                 PROVE  found[c][asked[c][j].id] = asked[c][j].type
      BY <2>1 DEF FoundCompletely, FirstOfItsId
    <3>1. CASE j < n
      <4>1. j \in 1..(next[c] - 1)
        BY <2>1, <3>1
      <4>2. QED
        BY <4>1 DEF CallInv, FoundCompletely
    <3>2. CASE j = n
      <4>1. asked[c][k].type = asked[c][n].type /\ FirstOfItsId(c, k)
        BY <2>1, <2>2, <3>2 DEF FirstOfItsId
      <4> QED
        BY <2>1, <2>2, <3>2, <4>1 DEF CallInv, FoundCompletely
    <3> QED
      BY <2>1, <3>1, <3>2
  <2>5. HistoryOK(c)' /\ OutcomeOK(c)'
    BY <1>1, <2>1 DEF CallInv, HistoryOK, OutcomeOK, Skip, Loading
  <2> QED
    BY <2>3, <2>4, <2>5 DEF CallInv
<1>2. CASE Load(c)
  <2> DEFINE n == next[c]
             d == asked[c][n]
  <2>1. /\ n \in Nat /\ n >= 1 /\ n <= Len(asked[c]) /\ asked[c] \in Seq(Decisions)
        /\ next[c]' = n + 1 /\ next[c]' - 1 = n
        /\ at[c] = "loading"
        /\ UNCHANGED <<at[c], asked[c], during[c], throughout[c], kept, refused[c]>>
    <3>1. n \in Nat /\ n >= 1 /\ n <= Len(asked[c]) /\ asked[c] \in Seq(Decisions) /\ at[c] = "loading"
      BY <1>2 DEF Load, Loading, TypeOK
    <3>2. next[c]' = n + 1
      BY <1>2 DEF Load, TypeOK
    <3>3. UNCHANGED <<at, asked, during, throughout, kept, refused>>
      BY <1>2 DEF Load, history
    <3> QED
      BY <3>1, <3>2, <3>3
  <2>2. d \in Decisions /\ d.id \in Ids /\ d.type \in Types /\ d = [id |-> d.id, type |-> d.type]
    <3>1. d \in Decisions
      BY <2>1
    <3> QED
      BY <3>1 DEF Decisions
  <2>3. found[c]' = [found[c] EXCEPT ![d.id] = Loaded(d)] /\ found[c] \in [Ids -> Loadable \cup {None}]
    <3>1. found' = [found EXCEPT ![c][d.id] = Loaded(d)]
      BY <1>2 DEF Load, Current
    <3> QED
      BY <3>1 DEF TypeOK
  <2>4. \A j \in 1..(n - 1) : asked[c][j].id # d.id
    BY <1>2 DEF Load, Seen, Current
  <2>5. FoundHonestly(c)'
    <3> SUFFICES ASSUME NEW i \in Ids, found[c]'[i] # None
                 PROVE  /\ <<found[c]'[i], i>> \in during[c]
                        /\ \E j \in 1..n : asked[c][j] = [id |-> i, type |-> found[c]'[i]]
      BY <2>1 DEF FoundHonestly
    <3>1. CASE i = d.id
      <4>1. found[c]'[i] = d.type /\ <<d.type, d.id>> \in kept
        BY <2>2, <2>3, <3>1 DEF Loaded
      <4>2. n \in 1..n /\ asked[c][n] = [id |-> i, type |-> found[c]'[i]]
        BY <2>1, <2>2, <3>1, <4>1
      <4> QED
        BY <2>1, <3>1, <4>1, <4>2 DEF CallInv, HistoryOK
    <3>2. CASE i # d.id
      <4>1. found[c]'[i] = found[c][i]
        BY <2>2, <2>3, <3>2
      <4> QED
        BY <2>1, <4>1 DEF CallInv, FoundHonestly
    <3> QED
      BY <3>1, <3>2
  <2>6. FoundCompletely(c)'
    <3> SUFFICES ASSUME NEW j \in 1..n, FirstOfItsId(c, j),
                        <<asked[c][j].type, asked[c][j].id>> \in throughout[c]
                 PROVE  found[c]'[asked[c][j].id] = asked[c][j].type
      BY <2>1 DEF FoundCompletely, FirstOfItsId
    <3>1. CASE j < n
      <4> asked[c][j] \in Decisions
        BY <2>1
      <4>1. j \in 1..(n - 1) /\ asked[c][j].id # d.id /\ asked[c][j].id \in Ids
        BY <2>1, <2>4, <3>1 DEF Decisions
      <4> QED
        BY <2>1, <2>2, <2>3, <4>1 DEF CallInv, FoundCompletely
    <3>2. CASE j = n
      BY <2>1, <2>2, <2>3, <3>2 DEF CallInv, HistoryOK, Loaded
    <3> QED
      BY <2>1, <3>1, <3>2
  <2>7. HistoryOK(c)' /\ OutcomeOK(c)'
    BY <2>1 DEF CallInv, HistoryOK, OutcomeOK
  <2> QED
    BY <2>5, <2>6, <2>7 DEF CallInv
<1>3. CASE LoadRaises(c)
  BY <1>3 DEF LoadRaises, Loading, TypeOK, CallInv, FoundHonestly, FoundCompletely, FirstOfItsId,
     HistoryOK, OutcomeOK
<1>4. CASE Reply(c)
  <2>1. /\ at[c]' = IF Misread(c) = {} THEN "answered" ELSE "failed"
        /\ next[c] > Len(asked[c])
        /\ UNCHANGED <<asked, next, found, during, throughout, kept, refused>>
    BY <1>4 DEF Reply, history, TypeOK
  <2>2. Misread(c)' = Misread(c)
    BY <2>1 DEF Misread, Answered
  <2>3. FoundHonestly(c)' /\ FoundCompletely(c)'
    BY <2>1 DEF CallInv, FoundHonestly, FoundCompletely, FirstOfItsId
  <2> QED
    BY <2>1, <2>2, <2>3 DEF CallInv, HistoryOK, OutcomeOK
<1> QED
  BY <1>1, <1>2, <1>3, <1>4 DEF Step

\* Each step keeps what is true of each call.
LEMMA BatchStep == BatchInv /\ [Next]_vars => BatchInv'
<1> SUFFICES ASSUME BatchInv, [Next]_vars, NEW c \in Calls PROVE CallInv(c)'
  BY BatchTypeStep DEF BatchInv
<1> USE BatchAssumption DEF BatchAssumption
<1>1. ASSUME NEW o \in Objects, Write(o) PROVE CallInv(c)'
  <2>1. HistoryOK(c)'
    BY <1>1 DEF Write, BatchInv, CallInv, HistoryOK, TypeOK
  <2> QED
    BY <1>1, <2>1, OthersKeepCall DEF Write, BatchInv, TypeOK
<1>2. ASSUME NEW o \in Objects, Erase(o) PROVE CallInv(c)'
  <2>1. HistoryOK(c)'
    BY <1>2 DEF Erase, BatchInv, CallInv, HistoryOK, TypeOK
  <2> QED
    BY <1>2, <2>1, OthersKeepCall DEF Erase, BatchInv, TypeOK
<1>3. ASSUME NEW b \in Calls, NEW r \in Requests, Ask(b, r) PROVE CallInv(c)'
  <2>1. CASE b # c
    BY <1>3, <2>1, OthersKeepCall DEF Ask, BatchInv, CallInv, HistoryOK, TypeOK
  <2>2. CASE b = c
    <3>1. next[c] = 1
      BY <1>3, <2>2 DEF Ask, BatchInv, TypeOK
    <3>2. \A i \in Ids : found[c][i] = None
      <4>1. 1..(next[c] - 1) = {} /\ FoundHonestly(c)
        BY <3>1 DEF BatchInv, CallInv
      <4> QED
        BY <4>1 DEF FoundHonestly
    <3>3. /\ at[c]' = "loading" /\ next[c]' = 1 /\ found[c]' = found[c]
          /\ throughout[c]' = kept /\ during[c]' = kept /\ kept' = kept
      <4>1. b \in Calls /\ b = c /\ UNCHANGED <<next, found, kept>>
        BY <1>3, <2>2 DEF Ask
      <4>2. at[c]' = "loading"
        BY <1>3, <4>1 DEF Ask, BatchInv, TypeOK
      <4>3. throughout[c]' = kept /\ during[c]' = kept
        BY <1>3, <4>1 DEF Ask, BatchInv, TypeOK
      <4> QED
        BY <3>1, <4>1, <4>2, <4>3
    <3>4. FoundHonestly(c)'
      BY <3>2, <3>3 DEF FoundHonestly
    <3>5. HistoryOK(c)'
      BY <3>3 DEF HistoryOK
    <3>6. OutcomeOK(c)'
      BY <3>3 DEF OutcomeOK
    <3>7. FoundCompletely(c)'
      <4>1. 1..(next[c]' - 1) = {}
        BY <3>3
      <4> QED
        BY <4>1 DEF FoundCompletely
    <3> QED
      BY <3>4, <3>5, <3>6, <3>7 DEF CallInv
  <2> QED
    BY <2>1, <2>2
<1>4. ASSUME NEW b \in Calls, Step(b) PROVE CallInv(c)'
  <2>1. CASE b = c
    BY <1>4, <2>1, CallStep DEF BatchInv
  <2>2. CASE b # c
    <3>1. UNCHANGED <<at[c], asked[c], next[c], found[c], during[c], throughout[c], kept, refused[c]>>
      BY <1>4, <2>2 DEF Step, Skip, Load, LoadRaises, Reply, history, BatchInv, TypeOK
    <3> QED
      BY <3>1, OthersKeepCall DEF BatchInv, CallInv, HistoryOK
  <2> QED
    BY <2>1, <2>2
<1>5. CASE UNCHANGED vars
  BY <1>5, OthersKeepCall DEF vars, history, BatchInv, CallInv, HistoryOK
<1> QED
  BY <1>1, <1>2, <1>3, <1>4, <1>5 DEF Next

\* The invariant gives the properties.
LEMMA InvHonest == BatchInv => AnswersAreHonest
<1> SUFFICES ASSUME BatchInv, NEW c \in Calls, NEW d \in Received(c)
             PROVE  <<d.type, d.id>> \in during[c]
  BY DEF AnswersAreHonest
<1> QED
  BY BatchAssumption DEF BatchAssumption, BatchInv, CallInv, FoundHonestly, Received, Answered, Decisions

\* A call that has answered has gone through all its decisions.
LEMMA InvComplete == BatchInv => AnswersAreComplete
<1> SUFFICES ASSUME BatchInv, NEW c \in Calls, at[c] = "answered", NEW j \in DOMAIN asked[c],
                    asked[c][j].type \in Encodable,
                    <<asked[c][j].type, asked[c][j].id>> \in throughout[c],
                    ~ \E k \in 1..(j - 1) : /\ asked[c][k].id = asked[c][j].id
                                            /\ asked[c][k].type # asked[c][j].type
             PROVE  asked[c][j] \in Received(c)
  BY DEF AnswersAreComplete
<1>1. asked[c] \in Seq(Decisions) /\ j \in 1..(next[c] - 1) /\ asked[c][j] \in Decisions
  BY DEF BatchInv, TypeOK, CallInv, OutcomeOK
<1>2. found[c][asked[c][j].id] = asked[c][j].type
  BY <1>1 DEF BatchInv, CallInv, FoundCompletely, FirstOfItsId
<1>3. asked[c][j].type # None
  BY <1>1, BatchAssumption DEF BatchAssumption, Decisions
<1> QED
  BY <1>1, <1>2, <1>3 DEF Received, Answered

\* A result of another type was asked for with that type.
LEMMA InvMixed == BatchInv => OnlyMixedRequestsFail
<1> SUFFICES ASSUME BatchInv, NEW c \in Calls, at[c] = "failed", ~refused[c]
             PROVE  \E j, k \in DOMAIN asked[c] :
                       /\ asked[c][j].id = asked[c][k].id /\ asked[c][j].type # asked[c][k].type
                       /\ <<asked[c][j].type, asked[c][j].id>> \in during[c]
  BY DEF OnlyMixedRequestsFail
<1>1. PICK d \in Misread(c) : TRUE
  BY DEF BatchInv, CallInv, OutcomeOK
<1>2. PICK k \in DOMAIN asked[c] : d = asked[c][k]
  BY <1>1 DEF Misread, Answered
<1>3. d \in Decisions /\ found[c][d.id] # None /\ d.type # found[c][d.id]
  BY <1>1 DEF Misread, Answered
<1>4. PICK j \in 1..(next[c] - 1) : asked[c][j] = [id |-> d.id, type |-> found[c][d.id]]
  BY <1>3 DEF BatchInv, CallInv, FoundHonestly, Decisions
<1>5. j \in DOMAIN asked[c]
  BY <1>4 DEF BatchInv, TypeOK
<1>6. <<found[c][d.id], d.id>> \in during[c]
  BY <1>3 DEF BatchInv, CallInv, FoundHonestly, Decisions
<1> QED
  BY <1>2, <1>3, <1>4, <1>5, <1>6

-----------------------------------------------------------------------------
(* Eviction *)

\* A set of natural numbers has a least one.
LEMMA LeastNumber == ASSUME NEW T \in SUBSET Nat, T # {} PROVE \E i \in T : \A j \in T : i <= j
<1>1. \E i \in T : \A j \in T : ~(<<j, i>> \in OpToRel(<, Nat))
  BY NatLessThanWellFounded, WFMin
<1>2. \A i, j \in T : ~(<<j, i>> \in OpToRel(<, Nat)) => i <= j
  BY DEF OpToRel
<1>3. QED
  BY <1>1, <1>2

\* A member of a list is found at its first place.
LEMMA FirstIndex ==
    ASSUME NEW S, NEW s \in Seq(S), NEW e, e \in Eviction!ToSet(s)
    PROVE  LET m == Eviction!SelectInSeq(s, LAMBDA v : v = e) IN m \in 1..Len(s) /\ s[m] = e
<1> DEFINE I == {i \in 1..Len(s) : s[i] = e}
<1>1. I # {} /\ I \subseteq Nat
  BY DEF Eviction!ToSet
<1>2. PICK i \in I : \A j \in I : i <= j
  <2> HIDE DEF I
  <2>1. QED
    BY <1>1, LeastNumber
<1>3. Eviction!SelectInSeq(s, LAMBDA v : v = e) = Eviction!Min(I)
  BY <1>1 DEF Eviction!SelectInSeq
<1>4. Eviction!Min(I) \in I
  BY <1>2 DEF Eviction!Min
<1>5. QED
  BY <1>3, <1>4

\* Without one of its members, a list keeps the others in their order.
LEMMA WithoutOne ==
    ASSUME NEW S, NEW s \in Seq(S), Eviction!IsInjective(s), NEW e, NEW t, t = Eviction!RemoveFirst(s, e)
    PROVE  /\ t \in Seq(S)
           /\ \A x : x \in Eviction!ToSet(t) <=> x \in Eviction!ToSet(s) /\ x # e
           /\ \A i, j \in DOMAIN t : i < j => \E k, l \in DOMAIN s : k < l /\ t[i] = s[k] /\ t[j] = s[l]
<1>1. CASE e \notin Eviction!ToSet(s)
  <2>1. t = s
    BY <1>1 DEF Eviction!RemoveFirst, Eviction!ToSet
  <2>2. QED
    BY <1>1, <2>1
<1>2. CASE e \in Eviction!ToSet(s)
  <2> DEFINE m == Eviction!SelectInSeq(s, LAMBDA v : v = e)
  <2>1. m \in 1..Len(s) /\ s[m] = e
    BY <1>2, FirstIndex
  <2>2. t = SubSeq(s, 1, m - 1) \o SubSeq(s, m + 1, Len(s))
    BY <2>1 DEF Eviction!RemoveFirst, Eviction!RemoveAt
  <2> HIDE DEF m
  <2>3. SubSeq(s, 1, m - 1) \in Seq(S) /\ SubSeq(s, m + 1, Len(s)) \in Seq(S)
    BY <2>1
  <2>4. Len(t) = Len(s) - 1 /\ \A i \in 1..Len(t) : t[i] = IF i < m THEN s[i] ELSE s[i + 1]
    <3> DEFINE p == SubSeq(s, 1, m - 1)
               q == SubSeq(s, m + 1, Len(s))
    <3>1. Len(p) = m - 1 /\ \A i \in 1..(m - 1) : p[i] = s[i]
      BY <2>1
    <3>2. Len(q) = Len(s) - m /\ \A i \in 1..(Len(s) - m) : q[i] = s[i + m]
      BY <2>1
    <3>3. t = p \o q /\ p \in Seq(S) /\ q \in Seq(S)
      BY <2>2, <2>3
    <3> HIDE DEF p, q
    <3>4. Len(t) = Len(s) - 1
      BY <3>1, <3>2, <3>3, <2>1
    <3>5. \A i \in 1..Len(t) : t[i] = IF i <= Len(p) THEN p[i] ELSE q[i - Len(p)]
      BY <3>3
    <3>6. ASSUME NEW i \in 1..Len(t) PROVE t[i] = IF i < m THEN s[i] ELSE s[i + 1]
      <4>1. CASE i < m
        BY <4>1, <3>1, <3>5, <2>1
      <4>2. CASE i >= m
        <5>1. i - (m - 1) \in 1..(Len(s) - m) /\ i - (m - 1) + m = i + 1
          BY <4>2, <3>4, <2>1
        <5>2. t[i] = q[i - (m - 1)]
          BY <4>2, <3>1, <3>5, <2>1
        <5>3. q[i - (m - 1)] = s[i - (m - 1) + m]
          BY <5>1, <3>2
        <5>4. QED
          BY <4>2, <5>1, <5>2, <5>3, <2>1
      <4>3. QED
        BY <4>1, <4>2, <2>1
    <3>7. QED
      BY <3>4, <3>6
  <2>5. t \in Seq(S)
    BY <2>2, <2>3
  <2>6. \A x : x \in Eviction!ToSet(t) <=> x \in Eviction!ToSet(s) /\ x # e
    <3>1. ASSUME NEW i \in 1..Len(t) PROVE t[i] \in Eviction!ToSet(s) /\ t[i] # e
      BY <3>1, <2>1, <2>4 DEF Eviction!ToSet, Eviction!IsInjective
    <3>2. ASSUME NEW i \in 1..Len(s), s[i] # e PROVE s[i] \in Eviction!ToSet(t)
      <4>1. i # m /\ (i < m => i \in 1..Len(t) /\ t[i] = s[i]) /\ (i > m => i - 1 \in 1..Len(t) /\ t[i - 1] = s[i])
        BY <3>2, <2>1, <2>4
      <4>2. i < m \/ i > m
        BY <4>1, <2>1
      <4>3. QED
        BY <4>1, <4>2, <2>5 DEF Eviction!ToSet
    <3>3. QED
      BY <3>1, <3>2, <2>5 DEF Eviction!ToSet
  <2>7. ASSUME NEW i \in 1..Len(t), NEW j \in 1..Len(t), i < j
        PROVE  \E k, l \in DOMAIN s : k < l /\ t[i] = s[k] /\ t[j] = s[l]
    <3> DEFINE k == IF i < m THEN i ELSE i + 1
               l == IF j < m THEN j ELSE j + 1
    <3>1. k \in DOMAIN s /\ l \in DOMAIN s /\ k < l /\ t[i] = s[k] /\ t[j] = s[l]
      BY <2>1, <2>4, <2>7
    <3>2. QED
      BY <3>1
  <2>8. QED
    BY <2>5, <2>6, <2>7
<1>3. QED
  BY <1>1, <1>2

\* Scores are whole parts of Unit: how quotients compare.
LEMMA QuotientGrows == ASSUME NEW a \in Nat, NEW b \in Nat, a <= b, NEW d \in Nat, d > 0 PROVE a \div d <= b \div d
<1>1. a = d * (a \div d) + (a % d) /\ b = d * (b \div d) + (b % d)
  OBVIOUS
<1>2. a % d \in 0..(d-1) /\ b % d \in 0..(d-1) /\ a \div d \in Nat /\ b \div d \in Nat
  OBVIOUS
<1>3. SUFFICES ASSUME a \div d >= (b \div d) + 1 PROVE FALSE
  BY <1>2
<1>4. \A x, y \in Nat : x >= y + 1 => d * x >= d * y + d
  OBVIOUS
<1>5. d * (a \div d) >= d * (b \div d) + d
  BY <1>2, <1>3, <1>4
<1>6. QED
  BY <1>1, <1>2, <1>5

\* A greater denominator gives no greater quotient.
LEMMA QuotientFalls == ASSUME NEW a \in Nat, NEW d \in Nat, NEW e \in Nat, d > 0, d <= e PROVE a \div e <= a \div d
<1>1. a = d * (a \div d) + (a % d) /\ a = e * (a \div e) + (a % e)
  OBVIOUS
<1>2. a % d \in 0..(d-1) /\ a % e \in 0..(e-1) /\ a \div d \in Nat /\ a \div e \in Nat
  OBVIOUS
<1>3. SUFFICES ASSUME a \div e >= (a \div d) + 1 PROVE FALSE
  BY <1>2
<1>4. \A x, y \in Nat : x >= y + 1 => e * x >= d * y + d
  OBVIOUS
<1>5. e * (a \div e) >= d * (a \div d) + d
  BY <1>2, <1>3, <1>4
<1>6. QED
  BY <1>1, <1>2, <1>5

\* A denominator that is less gives a greater quotient if the numerator is large enough.
LEMMA QuotientFallsStrictly == ASSUME NEW a \in Nat, NEW d \in Nat, NEW e \in Nat, d > 0, d < e, a >= e * d PROVE a \div e < a \div d
<1>1. a = d * (a \div d) + (a % d) /\ a = e * (a \div e) + (a % e)
  OBVIOUS
<1>2. a % d \in 0..(d-1) /\ a % e \in 0..(e-1) /\ a \div d \in Nat /\ a \div e \in Nat
  OBVIOUS
<1>3. SUFFICES ASSUME a \div e >= a \div d PROVE FALSE
  BY <1>2
<1>4. a \div e >= d
  <2>1. \A y \in Nat : y + 1 <= d => e * y + e <= e * d
    OBVIOUS
  <2>2. QED
    BY <2>1, <1>1, <1>2
<1>5. \A x, y \in Nat : x >= y /\ x >= d => e * x >= d * y + d
  OBVIOUS
<1>6. e * (a \div e) >= d * (a \div d) + d
  BY <1>2, <1>3, <1>4, <1>5
<1>7. QED
  BY <1>1, <1>2, <1>6
\* LRU: the order is that of the last uses, and its blocks are those with one.
OrderOK ==
    /\ \A b \in Blocks : since[b] # 0 <=> b \in Eviction!ToSet(order)
    /\ \A i, j \in DOMAIN order : i < j => since[order[i]] < since[order[j]]

\* The others: of a block in L2 the policy knows the last use and the uses.
UsesKnown == \A b \in l2 : times[b] = since[b] /\ counts[b] = uses[b]

\* Every count and every time is behind the clock.
Counting ==
    /\ since \in [Blocks -> 0..(clock - 1)] /\ uses \in [Blocks -> Nat]
    /\ \A b \in Blocks : counts[b] < clock

\* The metadata of a block is complete, or what is left of it over gRPC.
MetaKnown == \A b \in Blocks : meta[b] \in {Traits[b], Eviction!OverGrpc(Traits[b])}

EvictionInv ==
    /\ Eviction!TypeOK
    /\ order \in Seq(Blocks)
    /\ Counting /\ MetaKnown
    /\ policy = "lru" => OrderOK
    /\ policy # "lru" => UsesKnown

\* An empty L2, with no use reported, satisfies the invariant.
LEMMA EvictionInit == Eviction!Init => EvictionInv
<1> SUFFICES ASSUME Eviction!Init PROVE EvictionInv
  OBVIOUS
<1>1. ~(policy = "lru" /\ policy # "lru") /\ Eviction!ToSet(order) = {} /\ Eviction!IsInjective(order) /\ order \in Seq(Blocks)
  BY DEF Eviction!Init, Eviction!ToSet, Eviction!IsInjective
<1>2. QED
  BY <1>1, EvictionAssumption DEF EvictionInv, Eviction!Init, Eviction!TypeOK, OrderOK, UsesKnown,
     MetaKnown, Counting

\* What a list has at its end when a new member is appended.
LEMMA AppendedOne ==
    ASSUME NEW S, NEW s \in Seq(S), NEW e \in S, e \notin Eviction!ToSet(s), Eviction!IsInjective(s), NEW t \in Seq(S),
           Len(t) = Len(s) + 1, t[Len(s) + 1] = e, \A i \in 1..Len(s) : t[i] = s[i]
    PROVE  /\ Eviction!IsInjective(t)
           /\ \A x : x \in Eviction!ToSet(t) <=> x \in Eviction!ToSet(s) \/ x = e
           /\ \A i, j \in DOMAIN t : i < j =>
                 \/ j \in DOMAIN s /\ i \in DOMAIN s /\ t[i] = s[i] /\ t[j] = s[j]
                 \/ t[j] = e /\ t[i] \in Eviction!ToSet(s)
<1>1. \A i \in 1..Len(s) : t[i] \in Eviction!ToSet(s)
  BY DEF Eviction!ToSet
<1>2. Eviction!IsInjective(t)
  <2>1. ASSUME NEW i \in 1..Len(t), NEW j \in 1..Len(t), t[i] = t[j] PROVE i = j
    <3>1. i \in 1..Len(s) \/ i = Len(s) + 1
      OBVIOUS
    <3>2. j \in 1..Len(s) \/ j = Len(s) + 1
      OBVIOUS
    <3>3. QED
      BY <3>1, <3>2, <2>1, <1>1 DEF Eviction!IsInjective
  <2>2. QED
    BY <2>1 DEF Eviction!IsInjective
<1>3. \A x : x \in Eviction!ToSet(t) <=> x \in Eviction!ToSet(s) \/ x = e
  BY DEF Eviction!ToSet
<1>4. ASSUME NEW i \in 1..Len(t), NEW j \in 1..Len(t), i < j
      PROVE  \/ j \in DOMAIN s /\ i \in DOMAIN s /\ t[i] = s[i] /\ t[j] = s[j]
             \/ t[j] = e /\ t[i] \in Eviction!ToSet(s)
  BY <1>4, <1>1
<1>5. QED
  BY <1>2, <1>3, <1>4

\* Without one of its members, a list has the others once.
LEMMA RemovedOne ==
    ASSUME NEW S, NEW s \in Seq(S), Eviction!IsInjective(s), NEW e, NEW t, t = Eviction!RemoveFirst(s, e)
    PROVE  Eviction!IsInjective(t)
<1>1. t \in Seq(S) /\ \A i, j \in DOMAIN t : i < j => \E k, l \in DOMAIN s : k < l /\ t[i] = s[k] /\ t[j] = s[l]
  BY WithoutOne
<1>2. ASSUME NEW i \in DOMAIN t, NEW j \in DOMAIN t, i < j PROVE t[i] # t[j]
  <2>1. PICK k, l \in DOMAIN s : k < l /\ t[i] = s[k] /\ t[j] = s[l]
    BY <1>1, <1>2
  <2>2. QED
    BY <2>1 DEF Eviction!IsInjective
<1>3. QED
  <2>1. \A i, j \in DOMAIN t : i < j \/ j < i \/ i = j
    BY <1>1
  <2>2. QED
    BY <1>2, <2>1 DEF Eviction!IsInjective

\* A block that is used, in L2 or not, comes last in the order.
LEMMA AccessStep ==
    ASSUME EvictionInv, NEW b \in Blocks, NEW n \in 0..MaxSharers, Eviction!Access(b, n)
    PROVE  EvictionInv'
<1>1. /\ policy \in {"lru", "prefix_reuse", "workflow_aware"} /\ l2 \subseteq Blocks /\ DOMAIN meta = Blocks
          /\ sharers \in [Blocks -> 0..MaxSharers] /\ current \in Steps \cup {None}
          /\ times \in [Blocks -> 0..MaxClock] /\ counts \in [Blocks -> 0..MaxClock]
          /\ max_shared \in 1..MaxSharers /\ clock \in 1..(MaxClock + 1)
          /\ MaxClock \in Nat /\ MaxSharers \in Nat \ {0}
  BY EvictionAssumption DEF EvictionInv, Eviction!TypeOK
<1>2. since \in [Blocks -> 0..(clock - 1)] /\ uses \in [Blocks -> Nat] /\ \A x \in Blocks : counts[x] < clock
  BY DEF EvictionInv, Counting
<1>3. order \in Seq(Blocks) /\ Eviction!IsInjective(order) /\ Eviction!ToSet(order) \subseteq Blocks
  BY DEF EvictionInv, Eviction!TypeOK
<1>4. policy = "lru" => OrderOK /\ l2 \subseteq Eviction!ToSet(order)
  BY DEF EvictionInv, Eviction!TypeOK
<1>5. policy # "lru" => UsesKnown /\ \A x \in l2 : times[x] # 0 /\ counts[x] # 0
  BY DEF EvictionInv, Eviction!TypeOK
<1>6. clock' = clock + 1 /\ clock \in 1..MaxClock /\ l2' = l2 /\ policy' = policy /\ meta' = meta /\ current' = current
  BY <1>1 DEF Eviction!Access, Eviction!Tick
<1>7. /\ sharers' = [sharers EXCEPT ![b] = n] /\ since' = [since EXCEPT ![b] = clock]
      /\ uses' = [uses EXCEPT ![b] = @ + 1]
  BY DEF Eviction!Access
<1>8. since' \in [Blocks -> 0..(clock' - 1)] /\ uses' \in [Blocks -> Nat] /\ sharers' \in [Blocks -> 0..MaxSharers]
  BY <1>1, <1>2, <1>6, <1>7
<1>9. MetaKnown'
  BY <1>6 DEF EvictionInv, MetaKnown
<1>10. max_shared' \in 1..MaxSharers
  BY <1>1, EvictionAssumption DEF Eviction!Access, Eviction!TrackShared, Eviction!Greater
<1>11. CASE policy = "lru"
  <2>1. order' = Append(Eviction!RemoveFirst(order, b), b) /\ times' = times /\ counts' = counts
    BY <1>11 DEF Eviction!Access, Eviction!OnAccessed
  <2>2. PICK s : s = Eviction!RemoveFirst(order, b)
    OBVIOUS
  <2>3. /\ s \in Seq(Blocks) /\ Eviction!IsInjective(s)
        /\ \A x : x \in Eviction!ToSet(s) <=> x \in Eviction!ToSet(order) /\ x # b
        /\ \A i, j \in DOMAIN s : i < j => \E k, l \in DOMAIN order : k < l /\ s[i] = order[k] /\ s[j] = order[l]
    BY <1>3, <2>2, WithoutOne, RemovedOne
  <2>4. order' = Append(s, b) /\ b \notin Eviction!ToSet(s)
    BY <1>1, <1>2, <2>1, <2>2, <2>3
  <2>5. PICK t : t = Append(s, b)
    OBVIOUS
  <2>6. /\ t \in Seq(Blocks) /\ Len(t) = Len(s) + 1 /\ t[Len(s) + 1] = b
         /\ \A i \in 1..Len(s) : t[i] = s[i]
    BY <2>3, <2>5
  <2>7. /\ t \in Seq(Blocks) /\ Eviction!IsInjective(t)
        /\ \A x : x \in Eviction!ToSet(t) <=> x \in Eviction!ToSet(s) \/ x = b
        /\ \A i, j \in DOMAIN t : i < j =>
              \/ j \in DOMAIN s /\ i \in DOMAIN s /\ t[i] = s[i] /\ t[j] = s[j]
              \/ t[j] = b /\ t[i] \in Eviction!ToSet(s)
    <3>1. s \in Seq(Blocks) /\ b \in Blocks /\ b \notin Eviction!ToSet(s) /\ Eviction!IsInjective(s)
      BY <1>1, <2>3, <2>4
    <3>2. QED
      BY <2>6, <3>1, AppendedOne
  <2>8. order' = t
    BY <2>4, <2>5
  <2>9. order' \in Seq(Blocks) /\ counts' = counts
    BY <2>1, <2>6, <2>8
  <2>10. \A x \in Blocks : counts'[x] < clock'
    BY <1>1, <1>2, <1>6, <2>9
  <2>11. \A x \in Blocks : since'[x] # 0 <=> x \in Eviction!ToSet(t)
    <3>1. \A x \in Blocks : since[x] # 0 <=> x \in Eviction!ToSet(order)
      BY <1>4, <1>11 DEF OrderOK
    <3>2. \A x \in Blocks : since'[x] = IF x = b THEN clock ELSE since[x]
      BY <1>2, <1>7
    <3>3. clock # 0
      BY <1>6
    <3>4. QED
      BY <2>3, <2>7, <3>1, <3>2, <3>3
  <2>12. ASSUME NEW i \in DOMAIN t, NEW j \in DOMAIN t, i < j PROVE since'[t[i]] < since'[t[j]]
    <3>1. CASE j \in DOMAIN s /\ i \in DOMAIN s /\ t[i] = s[i] /\ t[j] = s[j]
      <4>1. PICK k, l \in DOMAIN order : k < l /\ s[i] = order[k] /\ s[j] = order[l]
        BY <1>1, <1>2, <2>3, <2>12, <3>1
      <4>2. since[s[i]] < since[s[j]]
        BY <1>1, <1>2, <1>4, <1>5, <1>11, <4>1 DEF OrderOK
      <4>3. s[i] # b /\ s[j] # b /\ s[i] \in Blocks /\ s[j] \in Blocks
        BY <1>3, <1>4, <2>3, <2>4, <3>1 DEF Eviction!ToSet
      <4>4. QED
        BY <1>1, <1>2, <1>7, <3>1, <4>2, <4>3
    <3>2. CASE t[j] = b /\ t[i] \in Eviction!ToSet(s)
      <4>1. t[i] # b /\ t[i] \in Blocks
        BY <1>1, <1>2, <2>4, <2>7, <3>2
      <4>2. QED
        BY <1>1, <1>2, <1>6, <1>7, <3>2, <4>1
    <3>3. QED
      BY <1>1, <1>2, <2>7, <2>12, <3>1, <3>2
  <2>13. Eviction!ToSet(t) \subseteq Blocks /\ l2 \subseteq Eviction!ToSet(t)
    BY <1>3, <1>4, <1>11, <2>3, <2>7 DEF Eviction!ToSet
  <2>14. OrderOK'
    BY <1>1, <1>2, <1>4, <1>5, <2>8, <2>11, <2>12 DEF OrderOK, Eviction!ToSet
  <2>15. Eviction!IsInjective(order)' /\ Eviction!ToSet(order)' = Eviction!ToSet(t)
    BY <2>7, <2>8 DEF Eviction!IsInjective, Eviction!ToSet
  <2>16. Eviction!TypeOK'
    <3>1. /\ policy' \in {"lru", "prefix_reuse", "workflow_aware"} /\ l2' \subseteq Blocks /\ DOMAIN meta' = Blocks
          /\ sharers' \in [Blocks -> 0..MaxSharers] /\ current' \in Steps \cup {None}
          /\ max_shared' \in 1..MaxSharers
      BY <1>1, <1>6, <1>8, <1>10
    <3>2. clock' \in 1..(MaxClock + 1)
      BY <1>1, <1>6
    <3>3. times' \in [Blocks -> 0..MaxClock] /\ counts' \in [Blocks -> 0..MaxClock]
      BY <1>1, <2>1
    <3>4. Eviction!ToSet(order') \subseteq Blocks /\ Eviction!IsInjective(order') /\ l2' \subseteq Eviction!ToSet(order')
      BY <1>6, <2>7, <2>8, <2>13
    <3>5. policy' = "lru"
      BY <1>6, <1>11
    <3>6. QED
      BY <3>1, <3>2, <3>3, <3>4, <3>5 DEF Eviction!TypeOK, Eviction!ToSet, Eviction!IsInjective
  <2>17. order' \in Seq(Blocks) /\ Counting'
    BY <1>8, <2>9, <2>10 DEF Counting
  <2>18. QED
    BY <1>1, <1>2, <1>3, <1>4, <1>5, <1>6, <1>8, <1>10, <1>11, <2>1, <2>7, <2>8, <2>13, <2>14, <2>15,
       <2>16, <2>17, <1>9 DEF EvictionInv
<1>12. CASE policy # "lru"
  <2>1. /\ times' = [times EXCEPT ![b] = clock] /\ counts' = [counts EXCEPT ![b] = @ + 1] /\ order' = order
    BY <1>12 DEF Eviction!Access, Eviction!OnAccessed
  <2>2. times' \in [Blocks -> 0..MaxClock] /\ counts' \in [Blocks -> 0..MaxClock] /\ \A x \in Blocks : counts'[x] < clock'
    BY <1>1, <1>2, <1>6, <2>1
  <2>3. UsesKnown' /\ \A x \in l2 : times'[x] # 0 /\ counts'[x] # 0
    BY <1>1, <1>2, <1>4, <1>5, <1>6, <1>7, <1>12, <2>1 DEF UsesKnown
  <2>4. Eviction!IsInjective(order)' /\ Eviction!ToSet(order)' = Eviction!ToSet(order)
    BY <1>3, <2>1 DEF Eviction!IsInjective, Eviction!ToSet
  <2>5. Eviction!TypeOK'
    <3>1. /\ policy' \in {"lru", "prefix_reuse", "workflow_aware"} /\ l2' \subseteq Blocks /\ DOMAIN meta' = Blocks
          /\ sharers' \in [Blocks -> 0..MaxSharers] /\ current' \in Steps \cup {None}
          /\ max_shared' \in 1..MaxSharers
      BY <1>1, <1>6, <1>8, <1>10
    <3>2. clock' \in 1..(MaxClock + 1)
      BY <1>1, <1>6
    <3>3. Eviction!ToSet(order') \subseteq Blocks /\ Eviction!IsInjective(order')
      BY <1>3, <2>1
    <3>4. policy' # "lru" /\ \A x \in l2' : times'[x] # 0 /\ counts'[x] # 0
      BY <1>6, <1>12, <2>3
    <3>5. QED
      BY <2>2, <3>1, <3>2, <3>3, <3>4 DEF Eviction!TypeOK, Eviction!ToSet, Eviction!IsInjective
  <2>6. order' \in Seq(Blocks) /\ Counting'
    BY <1>1, <1>2, <1>3, <1>6, <1>8, <2>1, <2>2 DEF Counting
  <2>7. QED
    BY <1>1, <1>2, <1>3, <1>4, <1>5, <1>6, <1>8, <1>10, <1>12, <2>1, <2>2, <2>3, <2>4, <2>5, <2>6,
       <1>9 DEF EvictionInv
<1>13. QED
  BY <1>1, <1>2, <1>11, <1>12

\* A block that comes in is the last of the order, or keeps the place of a late use.
LEMMA AddStep ==
    ASSUME EvictionInv, NEW b \in Blocks, NEW n \in 0..MaxSharers, NEW remote \in BOOLEAN,
           Eviction!Add(b, remote, n)
    PROVE  EvictionInv'
<1>1. /\ policy \in {"lru", "prefix_reuse", "workflow_aware"} /\ l2 \subseteq Blocks /\ DOMAIN meta = Blocks
          /\ sharers \in [Blocks -> 0..MaxSharers] /\ current \in Steps \cup {None}
          /\ times \in [Blocks -> 0..MaxClock] /\ counts \in [Blocks -> 0..MaxClock]
          /\ max_shared \in 1..MaxSharers /\ clock \in 1..(MaxClock + 1)
          /\ MaxClock \in Nat /\ MaxSharers \in Nat \ {0}
  BY EvictionAssumption DEF EvictionInv, Eviction!TypeOK
<1>2. since \in [Blocks -> 0..(clock - 1)] /\ uses \in [Blocks -> Nat] /\ \A x \in Blocks : counts[x] < clock
  BY DEF EvictionInv, Counting
<1>3. order \in Seq(Blocks) /\ Eviction!IsInjective(order) /\ Eviction!ToSet(order) \subseteq Blocks
  BY DEF EvictionInv, Eviction!TypeOK
<1>4. policy = "lru" => OrderOK /\ l2 \subseteq Eviction!ToSet(order)
  BY DEF EvictionInv, Eviction!TypeOK
<1>5. policy # "lru" => UsesKnown /\ \A x \in l2 : times[x] # 0 /\ counts[x] # 0
  BY DEF EvictionInv, Eviction!TypeOK
<1>6. /\ clock' = clock + 1 /\ clock \in 1..MaxClock /\ l2' = l2 \cup {b} /\ policy' = policy /\ current' = current
      /\ b \notin l2
  BY <1>1 DEF Eviction!Add, Eviction!Tick
<1>7. /\ sharers' = [sharers EXCEPT ![b] = n] /\ uses' = [uses EXCEPT ![b] = 1]
      /\ since' = [since EXCEPT ![b] = IF @ = 0 \/ policy # "lru" THEN clock ELSE @]
  BY DEF Eviction!Add
<1>8. since' \in [Blocks -> 0..(clock' - 1)] /\ uses' \in [Blocks -> Nat] /\ sharers' \in [Blocks -> 0..MaxSharers]
  BY <1>1, <1>2, <1>6, <1>7
<1>9. max_shared' \in 1..MaxSharers
  BY <1>1, EvictionAssumption DEF Eviction!Add, Eviction!TrackShared, Eviction!Greater
<1>10. DOMAIN meta' = Blocks /\ MetaKnown'
  <2>1. meta' = [meta EXCEPT ![b] = IF remote THEN Eviction!OverGrpc(Traits[b]) ELSE Traits[b]]
    BY DEF Eviction!Add
  <2>2. DOMAIN meta = Blocks
    BY <1>1, <1>2
  <2>3. DOMAIN meta' = Blocks
    BY <1>1, <1>2, <2>1, <2>2
  <2>4. MetaKnown'
    BY <2>1, <2>2 DEF EvictionInv, MetaKnown
  <2>5. QED
    BY <2>3, <2>4
<1>11. CASE policy = "lru"
  <2>1. order' = (IF b \in Eviction!ToSet(order) THEN order ELSE Append(order, b)) /\ times' = times /\ counts' = counts
    BY <1>11 DEF Eviction!Add, Eviction!OnAdded
  <2>2. CASE b \in Eviction!ToSet(order)
    <3>1. order' = order /\ since' = since
      BY <1>1, <1>2, <1>4, <1>5, <1>7, <1>11, <2>1, <2>2 DEF OrderOK
    <3>2. OrderOK' /\ Eviction!IsInjective(order)' /\ Eviction!ToSet(order)' = Eviction!ToSet(order)
      BY <1>3, <1>4, <1>11, <3>1 DEF OrderOK, Eviction!ToSet, Eviction!IsInjective
    <3>3. Eviction!TypeOK'
      <4>1. policy' \in {"lru", "prefix_reuse", "workflow_aware"} /\ l2' \subseteq Blocks /\ DOMAIN meta' = Blocks
            /\ sharers' \in [Blocks -> 0..MaxSharers] /\ current' \in Steps \cup {None} /\ max_shared' \in 1..MaxSharers
        BY <1>1, <1>6, <1>8, <1>9, <1>10
      <4>2. times' \in [Blocks -> 0..MaxClock] /\ counts' \in [Blocks -> 0..MaxClock] /\ clock' \in 1..(MaxClock + 1)
        BY <1>1, <1>6, <2>1, EvictionAssumption
      <4>3. Eviction!ToSet(order)' \subseteq Blocks /\ l2' \subseteq Eviction!ToSet(order)'
        BY <1>3, <1>4, <1>6, <1>11, <2>2, <3>2
      <4>4. QED
        BY <1>6, <1>11, <3>2, <4>1, <4>2, <4>3 DEF Eviction!TypeOK
    <3>4. order' \in Seq(Blocks) /\ Counting'
      <4>1. order' \in Seq(Blocks)
        BY <1>3, <3>1
      <4>2. \A x \in Blocks : counts'[x] < clock'
        BY <1>1, <1>2, <1>6, <2>1
      <4>3. QED
        BY <1>8, <4>1, <4>2 DEF Counting
    <3>5. QED
      BY <1>1, <1>2, <1>3, <1>4, <1>5, <1>6, <1>8, <1>9, <1>10, <1>11, <2>1, <2>2, <3>1, <3>2, <3>3,
         <3>4, <1>10 DEF EvictionInv
  <2>3. CASE b \notin Eviction!ToSet(order)
    <3>1. PICK t : t = Append(order, b)
      OBVIOUS
    <3>2. /\ t \in Seq(Blocks) /\ Len(t) = Len(order) + 1 /\ t[Len(order) + 1] = b
           /\ \A i \in 1..Len(order) : t[i] = order[i]
      BY <1>3, <3>1
    <3>3. /\ t \in Seq(Blocks) /\ Eviction!IsInjective(t)
          /\ \A x : x \in Eviction!ToSet(t) <=> x \in Eviction!ToSet(order) \/ x = b
          /\ \A i, j \in DOMAIN t : i < j =>
                \/ j \in DOMAIN order /\ i \in DOMAIN order /\ t[i] = order[i] /\ t[j] = order[j]
                \/ t[j] = b /\ t[i] \in Eviction!ToSet(order)
      BY <1>3, <2>3, <3>2, AppendedOne
    <3>4. order' = t
      BY <2>1, <2>3, <3>1
    <3>5. order' \in Seq(Blocks) /\ counts' = counts
      BY <2>1, <3>2, <3>4
    <3>6. \A x \in Blocks : counts'[x] < clock'
      BY <1>1, <1>2, <1>6, <3>5
    <3>7. since' = [since EXCEPT ![b] = clock]
      BY <1>1, <1>2, <1>4, <1>5, <1>7, <1>11, <2>3 DEF OrderOK
    <3>8. \A x \in Blocks : since'[x] # 0 <=> x \in Eviction!ToSet(t)
      BY <1>1, <1>2, <1>4, <1>5, <1>6, <1>11, <3>3, <3>7 DEF OrderOK
    <3>9. ASSUME NEW i \in DOMAIN t, NEW j \in DOMAIN t, i < j PROVE since'[t[i]] < since'[t[j]]
      <4>1. CASE j \in DOMAIN order /\ i \in DOMAIN order /\ t[i] = order[i] /\ t[j] = order[j]
        <5>1. since[order[i]] < since[order[j]]
          BY <1>1, <1>2, <1>4, <1>5, <1>11, <3>9, <4>1 DEF OrderOK
        <5>2. order[i] # b /\ order[j] # b /\ order[i] \in Blocks /\ order[j] \in Blocks
          BY <1>3, <1>4, <2>3, <4>1 DEF Eviction!ToSet
        <5>3. QED
          BY <1>1, <1>2, <3>7, <4>1, <5>1, <5>2
      <4>2. CASE t[j] = b /\ t[i] \in Eviction!ToSet(order)
        <5>1. t[i] # b /\ t[i] \in Blocks
          BY <1>1, <1>2, <2>3, <3>3, <4>2
        <5>2. QED
          BY <1>1, <1>2, <1>6, <3>7, <4>2, <5>1
      <4>3. QED
        BY <1>1, <1>2, <3>3, <3>9, <4>1, <4>2
    <3>10. OrderOK'
      BY <1>1, <1>2, <1>4, <1>5, <3>4, <3>8, <3>9 DEF OrderOK, Eviction!ToSet
    <3>11. Eviction!IsInjective(order)' /\ Eviction!ToSet(order)' = Eviction!ToSet(t)
      BY <3>3, <3>4 DEF Eviction!IsInjective, Eviction!ToSet
    <3>12. Eviction!ToSet(t) \subseteq Blocks /\ l2 \cup {b} \subseteq Eviction!ToSet(t)
      BY <1>3, <1>4, <1>11, <3>3
    <3>13. Eviction!TypeOK'
      BY <1>1, <1>2, <1>3, <1>4, <1>5, <1>6, <1>8, <1>9, <1>10, <1>11, <2>1, <3>3, <3>4, <3>10, <3>11,
         <3>12 DEF Eviction!TypeOK
    <3>14. order' \in Seq(Blocks) /\ Counting'
      BY <1>8, <3>5, <3>6 DEF Counting
    <3>15. QED
      BY <1>1, <1>2, <1>3, <1>4, <1>5, <1>6, <1>8, <1>9, <1>10, <1>11, <2>1, <3>3, <3>4, <3>10, <3>11,
         <3>12, <3>13, <3>14, <1>10 DEF EvictionInv
  <2>4. QED
    BY <1>1, <1>2, <2>2, <2>3
<1>12. CASE policy # "lru"
  <2>1. times' = [times EXCEPT ![b] = clock] /\ counts' = [counts EXCEPT ![b] = 1] /\ order' = order
    BY <1>12 DEF Eviction!Add, Eviction!OnAdded
  <2>2. times' \in [Blocks -> 0..MaxClock] /\ counts' \in [Blocks -> 0..MaxClock] /\ \A x \in Blocks : counts'[x] < clock'
    BY <1>1, <1>2, <1>6, <2>1
  <2>3. UsesKnown' /\ \A x \in l2' : times'[x] # 0 /\ counts'[x] # 0
    BY <1>1, <1>2, <1>4, <1>5, <1>6, <1>7, <1>12, <2>1 DEF UsesKnown
  <2>4. Eviction!IsInjective(order)' /\ Eviction!ToSet(order)' = Eviction!ToSet(order)
    BY <1>3, <2>1 DEF Eviction!IsInjective, Eviction!ToSet
  <2>5. Eviction!TypeOK'
    BY <1>1, <1>2, <1>3, <1>4, <1>5, <1>6, <1>8, <1>9, <1>10, <1>12, <2>1, <2>2, <2>3,
       <2>4 DEF Eviction!TypeOK
  <2>6. order' \in Seq(Blocks) /\ Counting'
    BY <1>1, <1>2, <1>3, <1>6, <1>8, <2>1, <2>2 DEF Counting
  <2>7. QED
    BY <1>1, <1>2, <1>3, <1>4, <1>5, <1>6, <1>8, <1>9, <1>10, <1>12, <2>1, <2>2, <2>3, <2>4, <2>5, <2>6,
       <1>10 DEF EvictionInv
<1>13. QED
  BY <1>1, <1>2, <1>11, <1>12

\* A block that goes is forgotten.
LEMMA EvictStep ==
    ASSUME EvictionInv, NEW b \in Blocks, NEW C, Eviction!Evict(b, C)
    PROVE  EvictionInv'
<1>1. /\ policy \in {"lru", "prefix_reuse", "workflow_aware"} /\ l2 \subseteq Blocks /\ DOMAIN meta = Blocks
          /\ sharers \in [Blocks -> 0..MaxSharers] /\ current \in Steps \cup {None}
          /\ times \in [Blocks -> 0..MaxClock] /\ counts \in [Blocks -> 0..MaxClock]
          /\ max_shared \in 1..MaxSharers /\ clock \in 1..(MaxClock + 1)
          /\ MaxClock \in Nat /\ MaxSharers \in Nat \ {0}
  BY EvictionAssumption DEF EvictionInv, Eviction!TypeOK
<1>2. since \in [Blocks -> 0..(clock - 1)] /\ uses \in [Blocks -> Nat] /\ \A x \in Blocks : counts[x] < clock
  BY DEF EvictionInv, Counting
<1>3. order \in Seq(Blocks) /\ Eviction!IsInjective(order) /\ Eviction!ToSet(order) \subseteq Blocks
  BY DEF EvictionInv, Eviction!TypeOK
<1>4. policy = "lru" => OrderOK /\ l2 \subseteq Eviction!ToSet(order)
  BY DEF EvictionInv, Eviction!TypeOK
<1>5. policy # "lru" => UsesKnown /\ \A x \in l2 : times[x] # 0 /\ counts[x] # 0
  BY DEF EvictionInv, Eviction!TypeOK
<1>6. /\ l2' = l2 \ {b} /\ since' = [since EXCEPT ![b] = 0] /\ order' = Eviction!RemoveFirst(order, b)
      /\ times' = [times EXCEPT ![b] = 0] /\ counts' = [counts EXCEPT ![b] = 0]
      /\ policy' = policy /\ meta' = meta /\ sharers' = sharers /\ current' = current
      /\ max_shared' = max_shared /\ clock' = clock /\ uses' = uses
  BY DEF Eviction!Evict, Eviction!OnEvicted
<1>7. MetaKnown'
  BY <1>6 DEF EvictionInv, MetaKnown
<1>8. PICK s : s = Eviction!RemoveFirst(order, b)
  OBVIOUS
<1>9. /\ s \in Seq(Blocks) /\ Eviction!IsInjective(s)
      /\ \A x : x \in Eviction!ToSet(s) <=> x \in Eviction!ToSet(order) /\ x # b
      /\ \A i, j \in DOMAIN s : i < j => \E k, l \in DOMAIN order : k < l /\ s[i] = order[k] /\ s[j] = order[l]
  BY <1>3, <1>8, WithoutOne, RemovedOne
<1>10. order' = s
  BY <1>1, <1>2, <1>6, <1>8
<1>11. Eviction!IsInjective(order)' /\ Eviction!ToSet(order)' = Eviction!ToSet(s)
  BY <1>9, <1>10 DEF Eviction!IsInjective, Eviction!ToSet
<1>12. since' \in [Blocks -> 0..(clock' - 1)] /\ \A x \in Blocks : counts'[x] < clock'
  BY <1>1, <1>2, <1>6
<1>13. times' \in [Blocks -> 0..MaxClock] /\ counts' \in [Blocks -> 0..MaxClock]
  BY <1>1, <1>6, EvictionAssumption
<1>14. policy = "lru" => OrderOK'
  <2> SUFFICES ASSUME policy = "lru" PROVE OrderOK'
    OBVIOUS
  <2>1. \A x \in Blocks : since'[x] # 0 <=> x \in Eviction!ToSet(s)
    BY <1>1, <1>2, <1>4, <1>5, <1>6, <1>9 DEF OrderOK
  <2>2. ASSUME NEW i \in DOMAIN s, NEW j \in DOMAIN s, i < j PROVE since'[s[i]] < since'[s[j]]
    <3>1. PICK k, l \in DOMAIN order : k < l /\ s[i] = order[k] /\ s[j] = order[l]
      BY <1>1, <1>2, <1>9, <2>2
    <3>2. since[s[i]] < since[s[j]]
      BY <1>1, <1>2, <1>4, <1>5, <3>1 DEF OrderOK
    <3>3. s[i] # b /\ s[j] # b /\ s[i] \in Blocks /\ s[j] \in Blocks
      BY <1>3, <1>4, <1>9 DEF Eviction!ToSet
    <3>4. QED
      BY <1>1, <1>2, <1>6, <3>2, <3>3
  <2>3. QED
    BY <1>1, <1>2, <1>4, <1>5, <1>10, <2>1, <2>2 DEF OrderOK, Eviction!ToSet
<1>15. policy # "lru" => UsesKnown' /\ \A x \in l2' : times'[x] # 0 /\ counts'[x] # 0
  BY <1>1, <1>2, <1>4, <1>5, <1>6 DEF UsesKnown
<1>16. policy = "lru" => l2' \subseteq Eviction!ToSet(s)
  BY <1>4, <1>1, <1>2, <1>6, <1>9
<1>17. Eviction!TypeOK'
  BY <1>1, <1>2, <1>3, <1>4, <1>5, <1>6, <1>9, <1>10, <1>11, <1>12, <1>13, <1>14, <1>15,
     <1>16 DEF Eviction!TypeOK
<1>18. order' \in Seq(Blocks) /\ Counting'
  BY <1>1, <1>2, <1>6, <1>9, <1>10, <1>12 DEF Counting
<1>19. QED
  BY <1>1, <1>2, <1>3, <1>4, <1>5, <1>6, <1>9, <1>10, <1>11, <1>12, <1>13, <1>14, <1>15, <1>16, <1>17,
     <1>18, <1>7 DEF EvictionInv

\* A step of the workflow changes no block.
LEMMA SameBlocks ==
    ASSUME EvictionInv, UNCHANGED <<policy, l2, meta, sharers, order, times, counts, max_shared, clock, since, uses>>,
           current' \in Steps \cup {None}
    PROVE  EvictionInv'
<1>1. Eviction!TypeOK'
  BY DEF EvictionInv, Eviction!TypeOK
<1>2. Counting' /\ MetaKnown' /\ order' \in Seq(Blocks)
  BY DEF EvictionInv, Counting, MetaKnown
<1>3. (OrderOK <=> OrderOK') /\ (UsesKnown <=> UsesKnown')
  BY DEF OrderOK, UsesKnown, Eviction!ToSet
<1>4. QED
  BY <1>1, <1>2, <1>3 DEF EvictionInv

\* Every notice and every eviction keeps the invariant.
LEMMA EvictionStep == EvictionInv /\ [Eviction!Next]_Eviction!vars => EvictionInv'
<1> SUFFICES ASSUME EvictionInv, [Eviction!Next]_Eviction!vars PROVE EvictionInv'
  OBVIOUS
<1>1. ASSUME NEW b \in Blocks, NEW n \in 0..MaxSharers, Eviction!Access(b, n) PROVE EvictionInv'
  BY <1>1, AccessStep
<1>2. ASSUME NEW b \in Blocks, NEW n \in 0..MaxSharers, NEW remote \in BOOLEAN, Eviction!Add(b, remote, n) PROVE EvictionInv'
  BY <1>2, AddStep
<1>3. ASSUME NEW C \in SUBSET l2, NEW b \in C, Eviction!Evict(b, C) PROVE EvictionInv'
  <2>1. b \in Blocks
    BY DEF EvictionInv, Eviction!TypeOK
  <2>2. QED
    BY <1>3, <2>1, EvictStep
<1>4. ASSUME NEW s \in Steps, Eviction!SetCurrentStep(s) PROVE EvictionInv'
  <2>1. UNCHANGED <<policy, l2, meta, sharers, order, times, counts, max_shared, clock, since, uses>> /\ current' = s
    BY <1>4 DEF Eviction!SetCurrentStep, Eviction!blocks, Eviction!history
  <2>2. QED
    BY <2>1, SameBlocks
<1>5. CASE UNCHANGED Eviction!vars
  <2>1. /\ UNCHANGED <<policy, l2, meta, sharers, order, times, counts, max_shared, clock, since, uses>>
        /\ current' \in Steps \cup {None}
    BY <1>5 DEF EvictionInv, Eviction!TypeOK, Eviction!vars, Eviction!blocks, Eviction!history
  <2>2. QED
    BY <2>1, SameBlocks
<1>6. QED
  BY <1>1, <1>2, <1>3, <1>4, <1>5 DEF Eviction!Next

\* The first candidate in the order has the earliest last use.
LEMMA OldestGoes == EvictionInv => Eviction!LeastRecentGoes
<1> SUFFICES ASSUME EvictionInv, policy = "lru", NEW C \in SUBSET l2, NEW v \in Eviction!Victims(C), NEW c \in C
             PROVE  since[v] <= since[c]
  BY DEF Eviction!LeastRecentGoes
<1> DEFINE I == {i \in 1..Len(order) : order[i] \in C}
           first == Eviction!SelectInSeq(order, LAMBDA b : b \in C)
<1>1. PICK k \in 1..Len(order) : order[k] = c
  BY DEF EvictionInv, Eviction!TypeOK, Eviction!ToSet
<1>2. I # {} /\ I \subseteq Nat /\ k \in I
  BY <1>1
<1>3. first = Eviction!Min(I)
  BY <1>2 DEF Eviction!SelectInSeq
<1>4. PICK i \in I : \A j \in I : i <= j
  <2> HIDE DEF I
  <2>1. QED
    BY <1>2, LeastNumber
<1>5. Eviction!Min(I) \in I /\ \A j \in I : Eviction!Min(I) <= j
  BY <1>4 DEF Eviction!Min
<1>6. v = order[first]
  <2>1. v \in IF first = 0 THEN C ELSE {order[first]}
    BY DEF Eviction!Victims, Eviction!LeastRecent
  <2>2. first # 0
    BY <1>3, <1>5
  <2> HIDE DEF first
  <2>3. QED
    BY <2>1, <2>2
<1> HIDE DEF first
<1>7. first \in 1..Len(order) /\ first <= k
  BY <1>2, <1>3, <1>5
<1> HIDE DEF I
<1>8. order \in Seq(Blocks) /\ since \in [Blocks -> 0..(clock - 1)] /\ OrderOK
  BY DEF EvictionInv, Counting
<1>9. v \in Blocks /\ c \in Blocks /\ since[v] \in Int /\ since[c] \in Int
  BY <1>1, <1>6, <1>7, <1>8
<1>10. first = k \/ since[order[first]] < since[order[k]]
  BY <1>7, <1>8 DEF OrderOK
<1>11. QED
  BY <1>1, <1>6, <1>9, <1>10

\* Of two blocks in L2 the one that was used later has a greater recency, rounded or not.
LEMMA LaterIsMoreRecent ==
    ASSUME EvictionInv, policy # "lru", NEW v \in l2, NEW c \in l2, since[v] > since[c]
    PROVE  Eviction!Recency(v) > Eviction!Recency(c)
<1> DEFINE d == 1 + clock - times[v]
           e == 1 + clock - times[c]
<1>1. /\ times[v] = since[v] /\ times[c] = since[c] /\ times[v] \in 1..(clock - 1) /\ times[c] \in 1..(clock - 1)
      /\ clock \in 1..(MaxClock + 1) /\ MaxClock \in Nat
  <2>1. clock \in 1..(MaxClock + 1) /\ MaxClock \in Nat
    BY EvictionAssumption DEF EvictionInv, Eviction!TypeOK
  <2>2. times[v] = since[v] /\ times[c] = since[c]
    BY DEF EvictionInv, UsesKnown
  <2>3. v \in Blocks /\ c \in Blocks
    BY DEF EvictionInv, Eviction!TypeOK
  <2>4. times[v] # 0 /\ times[c] # 0
    BY DEF EvictionInv, Eviction!TypeOK
  <2>5. since[v] \in 0..(clock - 1) /\ since[c] \in 0..(clock - 1)
    BY <2>3 DEF EvictionInv, Counting
  <2>6. times[v] \in 1..(clock - 1) /\ times[c] \in 1..(clock - 1)
    BY <2>1, <2>2, <2>4, <2>5
  <2>7. QED
    BY <2>1, <2>2, <2>6
<1>2. d \in Nat /\ e \in Nat /\ d > 0 /\ d < e /\ e <= MaxClock + 1 /\ d <= MaxClock
  BY <1>1
<1>3. Eviction!Recency(v) = Unit \div d /\ Eviction!Recency(c) = Unit \div e
  BY <1>1 DEF Eviction!Recency
<1> HIDE DEF d, e
<1>4. e * d <= (MaxClock + 1) * MaxClock
  <2>1. \A x, y, m, n \in Nat : x <= m /\ y <= n => x * y <= m * n
    OBVIOUS
  <2>2. QED
    BY <1>1, <1>2, <2>1
<1>5. Unit \in Nat /\ Unit >= e * d
  <2>1. (MaxClock + 1) * MaxClock = MaxClock * (MaxClock + 1)
    BY <1>1
  <2>2. Unit \in Nat /\ Unit >= MaxClock * (MaxClock + 1) /\ e * d \in Nat /\ MaxClock * (MaxClock + 1) \in Nat
    BY <1>1, <1>2, UnitAssumption
  <2>3. QED
    BY <1>4, <2>1, <2>2
<1>6. Unit \div e < Unit \div d
  BY <1>2, <1>5, QuotientFallsStrictly
<1>7. QED
  BY <1>2, <1>3, <1>5, <1>6

\* A block with a greater recency and no signal that speaks against it scores more.
LEMMA WorseIsNoVictim ==
    ASSUME EvictionInv PROVE Eviction!BetterBlockStays
<1> SUFFICES ASSUME policy # "lru", NEW C \in SUBSET l2, NEW v \in Eviction!Victims(C), NEW c \in C,
                    since[v] > since[c], uses[v] >= uses[c], sharers[v] >= sharers[c],
                    \/ policy = "prefix_reuse"
                    \/ /\ Eviction!Sooner(v, c)
                       /\ meta[v].reuse >= meta[c].reuse
                       /\ meta[v].size <= meta[c].size
                       /\ Eviction!ReloadCost(v) <= Eviction!ReloadCost(c)
             PROVE  FALSE
  BY DEF Eviction!BetterBlockStays
<1>1. v \in l2 /\ c \in l2 /\ v \in Blocks /\ c \in Blocks /\ Eviction!Score(v) <= Eviction!Score(c)
  BY DEF Eviction!Victims, Eviction!LowestScore, EvictionInv, Eviction!TypeOK
<1> DEFINE rv == Eviction!Recency(v)
           rc == Eviction!Recency(c)
           fv == Eviction!Frequency(v)
           fc == Eviction!Frequency(c)
           sv == Eviction!Shared(v)
           sc == Eviction!Shared(c)
<1>2. rv > rc /\ rv \in Nat /\ rc \in Nat
  <2>1. \A b \in l2 : Eviction!Recency(b) \in Nat
    <3>1. SUFFICES ASSUME NEW b \in l2 PROVE Eviction!Recency(b) \in Nat
      OBVIOUS
    <3>2. 1 + clock - times[b] \in Nat \ {0} /\ times[b] # 0
      <4>1. b \in Blocks /\ times[b] # 0 /\ times[b] = since[b]
        BY DEF EvictionInv, Eviction!TypeOK, UsesKnown
      <4>2. since[b] \in 0..(clock - 1)
        BY <4>1 DEF EvictionInv, Counting
      <4>3. clock \in Nat
        BY EvictionAssumption DEF EvictionInv, Eviction!TypeOK
      <4>4. QED
        BY <4>1, <4>2, <4>3
    <3>3. QED
      BY <3>2, UnitAssumption DEF Eviction!Recency
  <2>2. QED
    BY <1>1, <2>1, LaterIsMoreRecent
<1>3. fv >= fc /\ fv \in Nat /\ fc \in Nat
  <2>1. counts[v] \in Nat /\ counts[c] \in Nat /\ counts[v] >= counts[c] /\ Unit \in Nat
    BY <1>1, UnitAssumption DEF EvictionInv, Eviction!TypeOK, UsesKnown
  <2> DEFINE m == Eviction!Lesser(10, IF counts[v] = 0 THEN 1 ELSE counts[v])
             n == Eviction!Lesser(10, IF counts[c] = 0 THEN 1 ELSE counts[c])
  <2>2. m \in Nat /\ n \in Nat /\ n <= m
    BY <2>1 DEF Eviction!Lesser
  <2>3. fv = (Unit * m) \div 10 /\ fc = (Unit * n) \div 10
    BY DEF Eviction!Frequency
  <2> HIDE DEF m, n
  <2>4. Unit * m \in Nat /\ Unit * n \in Nat /\ Unit * n <= Unit * m
    BY <2>1, <2>2
  <2>5. (Unit * n) \div 10 <= (Unit * m) \div 10
    BY <2>4, QuotientGrows
  <2>6. QED
    BY <2>3, <2>4, <2>5
<1>4. sv >= sc /\ sv \in Nat /\ sc \in Nat
  <2>1. sharers[v] \in Nat /\ sharers[c] \in Nat /\ sharers[v] >= sharers[c] /\ Unit \in Nat
    BY <1>1, UnitAssumption DEF EvictionInv, Eviction!TypeOK
  <2>2. PICK d : d = Eviction!Greater(1, max_shared)
    OBVIOUS
  <2>3. d \in Nat /\ d > 0
    BY <2>2, EvictionAssumption DEF Eviction!Greater, EvictionInv, Eviction!TypeOK
  <2>4. Unit * sharers[v] \in Nat /\ Unit * sharers[c] \in Nat /\ Unit * sharers[c] <= Unit * sharers[v]
    BY <2>1
  <2>5. (Unit * sharers[c]) \div d <= (Unit * sharers[v]) \div d
    BY <2>3, <2>4, QuotientGrows
  <2>6. sv = (Unit * sharers[v]) \div d /\ sc = (Unit * sharers[c]) \div d
    BY <2>2 DEF Eviction!Shared
  <2>7. QED
    BY <2>3, <2>4, <2>5, <2>6
<1> HIDE DEF rv, rc, fv, fc, sv, sc
<1>5. CASE policy = "prefix_reuse"
  <2>1. Eviction!Score(v) = 30 * rv + 30 * fv + 40 * sv /\ Eviction!Score(c) = 30 * rc + 30 * fc + 40 * sc
    BY <1>5 DEF Eviction!Score, Eviction!ReuseScore, rv, rc, fv, fc, sv, sc
  <2>2. QED
    BY <1>1, <1>2, <1>3, <1>4, <2>1
<1>6. CASE policy # "prefix_reuse"
  <2>1. \A b \in Blocks : /\ meta[b].agent \in Agents \cup {None} /\ meta[b].expected \in Int \cup {None}
                          /\ meta[b].reuse \in Nat /\ meta[b].size \in Nat
                          /\ meta[b].latency \in Nat \cup {None} /\ meta[b].tag \in Nat
    <3>1. SUFFICES ASSUME NEW b \in Blocks
                   PROVE  /\ meta[b].agent \in Agents \cup {None} /\ meta[b].expected \in Int \cup {None}
                          /\ meta[b].reuse \in Nat /\ meta[b].size \in Nat
                          /\ meta[b].latency \in Nat \cup {None} /\ meta[b].tag \in Nat
      OBVIOUS
    <3>2. Traits[b] \in [agent : Agents \cup {None}, expected : Int \cup {None}, reuse : Nat, size : Nat,
                         latency : Nat \cup {None}, tag : Nat]
      BY MetadataAssumption
    <3>3. CASE meta[b] = Traits[b]
      BY <3>2, <3>3
    <3>4. CASE meta[b] = Eviction!OverGrpc(Traits[b])
      BY <3>2, <3>4 DEF Eviction!OverGrpc
    <3>5. QED
      BY <3>3, <3>4 DEF EvictionInv, MetaKnown
  <2>2. \A b \in Blocks : Eviction!NextUse(b) # None => Eviction!NextUse(b) \in Nat
    <3>1. SUFFICES ASSUME NEW b \in Blocks, Eviction!NextUse(b) # None PROVE Eviction!NextUse(b) \in Nat
      OBVIOUS
    <3>2. CASE meta[b].expected # None
      BY <2>1, <3>1, <3>2 DEF Eviction!NextUse
    <3>3. CASE meta[b].expected = None
      <4>1. current \in Steps /\ meta[b].agent \in Agents /\ Eviction!NextUse(b) = Distances[current][meta[b].agent]
        BY <2>1, <3>1, <3>3 DEF Eviction!NextUse, EvictionInv, Eviction!TypeOK
      <4>2. Distances[current][meta[b].agent] \in Nat \cup {None}
        BY <4>1, MetadataAssumption
      <4>3. QED
        BY <3>1, <4>1, <4>2
    <3>4. QED
      BY <3>2, <3>3
  <2>3. \A b \in Blocks : Eviction!ReloadCost(b) \in Nat
    BY <2>1 DEF Eviction!ReloadCost
  <2>4. \A b \in Blocks : Eviction!NextUseScore(b) \in Nat
    BY <2>2, UnitAssumption DEF Eviction!NextUseScore
  <2>5. Eviction!Sooner(v, c) /\ meta[v].reuse >= meta[c].reuse /\ meta[v].size <= meta[c].size
        /\ Eviction!ReloadCost(v) <= Eviction!ReloadCost(c)
    BY <1>6
  <2>6. Eviction!NextUseScore(v) >= Eviction!NextUseScore(c)
    <3>1. CASE Eviction!NextUse(c) = None
      BY <1>1, <2>4, <3>1 DEF Eviction!NextUseScore
    <3>2. CASE Eviction!NextUse(c) # None
      <4>1. /\ Eviction!NextUse(v) # None /\ Eviction!NextUse(v) <= Eviction!NextUse(c)
            /\ Eviction!NextUse(v) \in Nat /\ Eviction!NextUse(c) \in Nat
        BY <1>1, <2>2, <2>5, <3>2 DEF Eviction!Sooner
      <4>2. PICK m, n \in Nat : m = 1 + Eviction!NextUse(v) /\ n = 1 + Eviction!NextUse(c)
        BY <4>1
      <4>3. Unit \div n <= Unit \div m
        BY <4>1, <4>2, QuotientFalls, UnitAssumption
      <4>4. QED
        BY <1>1, <2>4, <3>2, <4>1, <4>2, <4>3 DEF Eviction!NextUseScore
    <3>3. QED
      BY <3>1, <3>2
  <2> DEFINE uv == Eviction!Lesser(Unit, meta[v].reuse)
             uc == Eviction!Lesser(Unit, meta[c].reuse)
             zv == Eviction!Lesser(Unit, meta[v].size)
             zc == Eviction!Lesser(Unit, meta[c].size)
             lv == Eviction!Lesser(Unit, Eviction!ReloadCost(v))
             lc == Eviction!Lesser(Unit, Eviction!ReloadCost(c))
             nv == Eviction!NextUseScore(v)
             nc == Eviction!NextUseScore(c)
  <2>7. uv >= uc /\ uv \in Nat /\ uc \in Nat
    BY <1>1, <2>1, <2>5, UnitAssumption DEF Eviction!Lesser
  <2>8. zv <= zc /\ zv \in Nat /\ zc \in Nat
    BY <1>1, <2>1, <2>5, UnitAssumption DEF Eviction!Lesser
  <2>9. lv <= lc /\ lv \in Nat /\ lc \in Nat
    BY <1>1, <2>3, <2>5, UnitAssumption DEF Eviction!Lesser
  <2>10. nv >= nc /\ nv \in Nat /\ nc \in Nat
    BY <1>1, <2>4, <2>6
  <2>11. /\ Eviction!Score(v) = 25 * rv + 20 * fv + 20 * sv + 15 * uv + 30 * nv - 5 * zv - 5 * lv
         /\ Eviction!Score(c) = 25 * rc + 20 * fc + 20 * sc + 15 * uc + 30 * nc - 5 * zc - 5 * lc
    BY <1>6 DEF Eviction!Score, Eviction!RetentionScore, rv, rc, fv, fc, sv, sc
  <2> HIDE DEF uv, uc, zv, zc, lv, lc, nv, nc
  <2>12. QED
    BY <1>1, <1>2, <1>3, <1>4, <2>7, <2>8, <2>9, <2>10, <2>11
<1>7. QED
  BY <1>5, <1>6

-----------------------------------------------------------------------------
(* SessionPrefetch *)

\* The list h of a session ends as the record g of all its prompts does.
Ends(h, g) ==
    /\ Len(h) = IF Len(g) < HistorySize THEN Len(g) ELSE HistorySize
    /\ \A i \in 1..Len(h) : h[i] = g[Len(g) - Len(h) + i]

\* What a prediction has found so far was registered and matches; a block that was there all the
\* time is found at its length, or the prompt it matches is left.
Searching ==
    /\ decisions = {}
    /\ always \subseteq Session!Registered /\ Session!Registered \subseteq seen
    /\ \A i \in DOMAIN left : left[i] \in recent
    /\ \A o \in Ids : best[o] # 0 => best[o] \in Session!Matches(seen, o)
    /\ \A r \in always, p \in recent :
          Session!IsPrefix(r[2], p) => p \in Session!ToSet(left) \/ best[r[1]] >= Len(r[2])

SessionInv ==
    /\ Session!TypeOK
    /\ histories \in [Sessions -> Seq(Prompts)] /\ log \in [Sessions -> Seq(Prompts)] /\ left \in Seq(Prompts)
    /\ best \in [Ids -> Nat]
    /\ \A s \in Sessions : Ends(histories[s], log[s])
    /\ asking # None => Searching

\* Lists that keep to their size are those of the type invariant.
LEMMA ShortHistories ==
    ASSUME HistorySize \in Nat, NEW f \in [Sessions -> Seq(Prompts)],
           \A s \in Sessions : Len(f[s]) <= HistorySize
    PROVE  f \in [Sessions -> Session!BoundedSeq(Prompts, HistorySize)]
<1>1. ASSUME NEW s \in Sessions PROVE f[s] \in Session!BoundedSeq(Prompts, HistorySize)
  <2>1. f[s] \in [1..Len(f[s]) -> Prompts] /\ Len(f[s]) \in 0..HistorySize
    OBVIOUS
  <2>2. QED
    BY <2>1 DEF Session!BoundedSeq, Session!SeqOf
<1>2. QED
  BY <1>1

\* Without a prompt and without a block there is nothing to remember.
LEMMA SessionInit == Session!Init => SessionInv
<1> SUFFICES ASSUME Session!Init PROVE SessionInv
  OBVIOUS
<1>1. /\ histories = [s \in Sessions |-> <<>>] /\ log = [s \in Sessions |-> <<>>] /\ left = <<>> /\ asking = None
      /\ best = [o \in Ids |-> 0] /\ decisions = {} /\ tree = [o \in Ids |-> None]
  BY DEF Session!Init
<1>2. HistorySize \in Nat \ {0}
  BY SessionAssumption
<1>3. histories \in [Sessions -> Session!BoundedSeq(Prompts, HistorySize)]
  <2>1. <<>> \in [1..0 -> Prompts] /\ 0 \in 0..HistorySize
    BY <1>2
  <2>2. <<>> \in Session!BoundedSeq(Prompts, HistorySize)
    BY <2>1 DEF Session!BoundedSeq, Session!SeqOf
  <2>3. QED
    BY <1>1, <2>2
<1>4. Session!TypeOK
  BY <1>1, <1>3 DEF Session!TypeOK, Session!ToSet
<1>5. \A s \in Sessions : Ends(histories[s], log[s])
  BY <1>1, <1>2 DEF Ends
<1>6. QED
  BY <1>1, <1>4, <1>5 DEF SessionInv

\* The list keeps to its size and goes on as the record does.
LEMMA RememberedStep ==
    ASSUME HistorySize \in Nat \ {0}, NEW h \in Seq(Prompts), NEW g \in Seq(Prompts), NEW p \in Prompts, Ends(h, g)
    PROVE  Session!Remembered(h, p) \in Seq(Prompts) /\ Ends(Session!Remembered(h, p), Append(g, p))
<1> DEFINE H == HistorySize
<1>1. PICK g2 \in Seq(Prompts) : g2 = Append(g, p)
  <2>1. Append(g, p) \in Seq(Prompts)
    OBVIOUS
  <2>2. QED
    BY <2>1
<1>2. Len(g2) = Len(g) + 1 /\ g2[Len(g) + 1] = p /\ \A i \in 1..Len(g) : g2[i] = g[i]
  BY <1>1
<1>3. PICK n \in Nat, m \in Nat : n = Len(h) /\ m = Len(g)
  OBVIOUS
<1>4. n = (IF m < H THEN m ELSE H) /\ \A i \in 1..n : h[i] = g[m - n + i]
  BY <1>3 DEF Ends
<1>5. CASE n = H
  <2>1. PICK t : t = Tail(h)
    OBVIOUS
  <2>2. t \in Seq(Prompts) /\ Len(t) = H - 1 /\ \A i \in 1..(H - 1) : t[i] = h[i + 1]
    <3>1. h # <<>> /\ Len(h) = H
      BY <1>3, <1>5
    <3>2. Tail(h) \in Seq(Prompts) /\ Len(Tail(h)) = Len(h) - 1 /\ \A i \in 1..(Len(h) - 1) : Tail(h)[i] = h[i + 1]
      BY <3>1
    <3>3. QED
      BY <3>1, <3>2, <2>1
  <2>3. PICK h2 : h2 = Append(t, p)
    OBVIOUS
  <2>4. h2 \in Seq(Prompts) /\ Len(h2) = H /\ h2[H] = p /\ \A i \in 1..(H - 1) : h2[i] = t[i]
    BY <2>2, <2>3
  <2>5. m >= H
    BY <1>4, <1>5
  <2>6. ASSUME NEW i \in 1..H PROVE h2[i] = g2[m + 1 - H + i]
    <3>1. CASE i = H
      <4>1. m + 1 - H + i = m + 1
        BY <3>1
      <4>2. QED
        BY <1>2, <1>3, <2>4, <3>1, <4>1
    <3>2. CASE i # H
      <4>1. i \in 1..(H - 1) /\ i + 1 \in 1..n
        BY <1>5, <3>2
      <4>2. h2[i] = h[i + 1]
        BY <2>2, <2>4, <4>1
      <4>3. h[i + 1] = g[m - n + (i + 1)]
        BY <1>4, <4>1
      <4>4. m - n + (i + 1) = m + 1 - H + i /\ m + 1 - H + i \in 1..m
        BY <1>5, <2>5, <4>1
      <4>5. QED
        BY <1>2, <1>3, <4>2, <4>3, <4>4
    <3>3. QED
      BY <3>1, <3>2
  <2>7. Session!Remembered(h, p) = h2
    BY <1>3, <1>5, <2>1, <2>3 DEF Session!Remembered
  <2>8. Len(g2) = m + 1 /\ ~(m + 1 < H)
    BY <1>2, <1>3, <2>5
  <2>9. Ends(h2, g2)
    BY <2>4, <2>6, <2>8 DEF Ends
  <2>10. QED
    BY <1>1, <2>4, <2>7, <2>9
<1>6. CASE n # H
  <2>1. n = m /\ m < H
    BY <1>4, <1>6
  <2>2. PICK h2 : h2 = Append(h, p)
    OBVIOUS
  <2>3. h2 \in Seq(Prompts) /\ Len(h2) = n + 1 /\ h2[n + 1] = p /\ \A i \in 1..n : h2[i] = h[i]
    BY <1>3, <2>2
  <2>4. ASSUME NEW i \in 1..(n + 1) PROVE h2[i] = g2[(m + 1) - (n + 1) + i]
    <3>1. (m + 1) - (n + 1) + i = i
      BY <2>1
    <3>2. CASE i \in 1..n
      <4>1. h[i] = g[m - n + i] /\ m - n + i = i
        BY <1>4, <2>1, <3>2
      <4>2. h2[i] = g2[i]
        BY <1>2, <1>3, <2>1, <2>3, <3>2, <4>1
      <4>3. QED
        BY <3>1, <4>2
    <3>3. CASE i = n + 1
      BY <1>2, <1>3, <2>1, <2>3, <3>1, <3>3
    <3>4. QED
      BY <3>2, <3>3
  <2>5. Session!Remembered(h, p) = h2
    BY <1>3, <1>6, <2>2 DEF Session!Remembered
  <2>6. Len(g2) = m + 1 /\ m + 1 = (IF m + 1 < H THEN m + 1 ELSE H)
    BY <1>2, <1>3, <2>1
  <2>7. Ends(h2, g2)
    BY <2>1, <2>3, <2>4, <2>6 DEF Ends
  <2>8. QED
    BY <1>1, <2>3, <2>5, <2>7
<1>7. QED
  BY <1>5, <1>6

\* A request that completes goes into the list and into the record; it ends a prediction of its own
\* session that has prompts left.
LEMMA CompleteStep ==
    ASSUME SessionInv, NEW s \in Sessions, NEW p \in Prompts, Session!Complete(s, p)
    PROVE  SessionInv'
<1>1. /\ histories \in [Sessions -> Seq(Prompts)] /\ log \in [Sessions -> Seq(Prompts)] /\ left \in Seq(Prompts)
      /\ best \in [Ids -> Nat] /\ HistorySize \in Nat \ {0} /\ None \notin Sessions
  BY SessionAssumption DEF SessionInv
<1>2. /\ histories' = [histories EXCEPT ![s] = Session!Remembered(histories[s], p)]
      /\ log' = [log EXCEPT ![s] = Append(log[s], p)]
      /\ UNCHANGED <<tree, decisions, recent, seen, always>>
      /\ IF s = asking /\ left # <<>>
         THEN asking' = None /\ left' = <<>> /\ best' = [o \in Ids |-> 0]
         ELSE UNCHANGED <<asking, left, best>>
  BY DEF Session!Complete
<1>3. PICK h2 : h2 = Session!Remembered(histories[s], p)
  OBVIOUS
<1>4. PICK g2 : g2 = Append(log[s], p)
  OBVIOUS
<1>5. histories[s] \in Seq(Prompts) /\ log[s] \in Seq(Prompts) /\ Ends(histories[s], log[s])
  BY <1>1 DEF SessionInv
<1>6. g2 \in Seq(Prompts)
  BY <1>4, <1>5
<1>7. h2 \in Seq(Prompts) /\ Ends(h2, g2)
  BY <1>1, <1>3, <1>4, <1>5, RememberedStep
<1>8. histories' = [histories EXCEPT ![s] = h2] /\ log' = [log EXCEPT ![s] = g2]
  BY <1>2, <1>3, <1>4
<1>9. histories' \in [Sessions -> Seq(Prompts)] /\ log' \in [Sessions -> Seq(Prompts)]
  BY <1>1, <1>6, <1>7, <1>8
<1>10. \A u \in Sessions : Ends(histories'[u], log'[u])
  <2>1. ASSUME NEW u \in Sessions PROVE Ends(histories'[u], log'[u])
    <3>1. CASE u = s
      <4>1. histories'[u] = h2 /\ log'[u] = g2
        BY <1>1, <1>8, <3>1
      <4>2. QED
        BY <4>1, <1>7
    <3>2. CASE u # s
      <4>1. histories'[u] = histories[u] /\ log'[u] = log[u]
        BY <1>1, <1>8, <3>2
      <4>2. QED
        BY <4>1 DEF SessionInv
    <3>3. QED
      BY <3>1, <3>2
  <2>2. QED
    BY <2>1
<1>11. histories' \in [Sessions -> Session!BoundedSeq(Prompts, HistorySize)]
  <2>1. PICK f : f = histories'
    OBVIOUS
  <2>2. f \in [Sessions -> Seq(Prompts)] /\ \A u \in Sessions : Len(f[u]) <= HistorySize
    BY <1>1, <1>9, <1>10, <2>1 DEF Ends
  <2>3. QED
    BY <1>1, <2>1, <2>2, ShortHistories
<1>12. CASE s = asking /\ left # <<>>
  <2>1. asking' = None /\ left' = <<>> /\ best' = [o \in Ids |-> 0] /\ tree' = tree /\ decisions' = {}
    BY <1>1, <1>2, <1>12 DEF SessionInv, Searching
  <2>2. Session!TypeOK'
    BY <1>11, <2>1 DEF SessionInv, Session!TypeOK, Session!ToSet
  <2>3. QED
    BY <1>9, <1>10, <2>1, <2>2 DEF SessionInv
<1>13. CASE ~(s = asking /\ left # <<>>)
  <2>1. UNCHANGED <<tree, decisions, recent, seen, always, asking, left, best>>
    BY <1>2, <1>13
  <2>2. Session!TypeOK'
    BY <1>11, <2>1 DEF SessionInv, Session!TypeOK, Session!ToSet
  <2>3. Searching => Searching'
    BY <2>1 DEF Searching, Session!Registered, Session!Matches, Session!ToSet
  <2>4. QED
    BY <1>9, <1>10, <2>1, <2>2, <2>3 DEF SessionInv
<1>14. QED
  BY <1>12, <1>13

\* The types of the variables, and what the constants are.
LEMMA SessionFacts ==
    ASSUME SessionInv
    PROVE  /\ histories \in [Sessions -> Seq(Prompts)] /\ log \in [Sessions -> Seq(Prompts)] /\ left \in Seq(Prompts)
           /\ best \in [Ids -> Nat] /\ tree \in [Ids -> Spans \cup {None}] /\ asking \in Sessions \cup {None}
           /\ None \notin Sessions /\ None \notin Spans /\ Spans \subseteq Seq(Nat) /\ HistorySize \in Nat \ {0}
BY SessionAssumption DEF SessionInv, Session!TypeOK

\* What was found stays found when more was registered.
LEMMA MatchesGrow == ASSUME NEW R, NEW Q, R \subseteq Q, NEW o PROVE Session!Matches(R, o) \subseteq Session!Matches(Q, o)
BY DEF Session!Matches

\* A block that comes while a prediction searches is one it has seen.
LEMMA RegisterStep ==
    ASSUME SessionInv, NEW o \in Ids, NEW p \in Spans, Session!Register(o, p)
    PROVE  SessionInv'
<1>1. /\ tree[o] = None /\ tree' = [tree EXCEPT ![o] = p] /\ seen' = seen \cup {<<o, p>>}
      /\ UNCHANGED <<histories, asking, left, best, decisions, log, recent, always>>
  BY DEF Session!Register
<1>2. tree \in [Ids -> Spans \cup {None}] /\ None \notin Spans
  BY SessionFacts
<1>3. Session!TypeOK'
  BY <1>1 DEF SessionInv, Session!TypeOK, Session!ToSet
<1>4. Searching => Searching'
  <2> SUFFICES ASSUME Searching PROVE Searching'
    OBVIOUS
  <2>1. Session!Registered \subseteq Session!Registered' /\ Session!Registered' \subseteq Session!Registered \cup {<<o, p>>}
    BY <1>1, <1>2 DEF Session!Registered
  <2>2. always' \subseteq Session!Registered' /\ Session!Registered' \subseteq seen'
    BY <1>1, <2>1 DEF Searching
  <2>3. ASSUME NEW b \in Ids, best'[b] # 0 PROVE best'[b] \in Session!Matches(seen, b)'
    <3>1. best[b] \in Session!Matches(seen, b) /\ best'[b] = best[b]
      BY <1>1, <2>3 DEF Searching
    <3>2. Session!Matches(seen, b) \subseteq Session!Matches(seen', b)
      BY <1>1, MatchesGrow
    <3>3. Session!Matches(seen, b)' = Session!Matches(seen', b)
      BY <1>1 DEF Session!Matches
    <3>4. QED
      BY <3>1, <3>2, <3>3
  <2>4. /\ decisions' = {} /\ \A i \in DOMAIN left' : left'[i] \in recent'
        /\ \A r \in always', x \in recent' :
              Session!IsPrefix(r[2], x) => x \in Session!ToSet(left)' \/ best'[r[1]] >= Len(r[2])
    BY <1>1, <2>2 DEF Searching, Session!ToSet
  <2>5. QED
    BY <2>2, <2>3, <2>4 DEF Searching
<1>5. QED
  BY <1>1, <1>3, <1>4 DEF SessionInv, Ends

\* A block that goes while a prediction searches was not there all the time.
LEMMA UnregisterStep ==
    ASSUME SessionInv, NEW o \in Ids, Session!Unregister(o)
    PROVE  SessionInv'
<1>1. /\ tree[o] # None /\ tree' = [tree EXCEPT ![o] = None] /\ always' = always \ {<<o, tree[o]>>}
      /\ UNCHANGED <<histories, asking, left, best, decisions, log, recent, seen>>
  BY DEF Session!Unregister
<1>2. tree \in [Ids -> Spans \cup {None}] /\ None \notin Spans
  BY SessionFacts
<1>3. Session!TypeOK'
  BY <1>1 DEF SessionInv, Session!TypeOK, Session!ToSet
<1>4. Searching => Searching'
  <2> SUFFICES ASSUME Searching PROVE Searching'
    OBVIOUS
  <2>1. Session!Registered' = Session!Registered \ {<<o, tree[o]>>}
    BY <1>1, <1>2 DEF Session!Registered
  <2>2. always' \subseteq Session!Registered' /\ Session!Registered' \subseteq seen' /\ always' \subseteq always
    BY <1>1, <2>1 DEF Searching
  <2>3. ASSUME NEW b \in Ids, best'[b] # 0 PROVE best'[b] \in Session!Matches(seen, b)'
    <3>1. best[b] \in Session!Matches(seen, b) /\ best'[b] = best[b]
      BY <1>1, <2>3 DEF Searching
    <3>2. Session!Matches(seen, b)' = Session!Matches(seen, b)
      BY <1>1 DEF Session!Matches
    <3>3. QED
      BY <3>1, <3>2
  <2>4. /\ decisions' = {} /\ \A i \in DOMAIN left' : left'[i] \in recent'
        /\ \A r \in always', x \in recent' :
              Session!IsPrefix(r[2], x) => x \in Session!ToSet(left)' \/ best'[r[1]] >= Len(r[2])
    BY <1>1, <2>2 DEF Searching, Session!ToSet
  <2>5. QED
    BY <2>2, <2>3, <2>4 DEF Searching
<1>5. QED
  BY <1>1, <1>3, <1>4 DEF SessionInv, Ends

\* The prompts a session remembers are the recent ones of its record.
LEMMA RememberedAreRecent ==
    ASSUME SessionInv, NEW s \in Sessions
    PROVE  Session!ToSet(histories[s]) = Session!Recent(s)
<1>1. PICK h \in Seq(Prompts), g \in Seq(Prompts) : h = histories[s] /\ g = log[s]
  BY SessionFacts
<1>2. PICK n \in Nat, m \in Nat : n = Len(h) /\ m = Len(g)
  BY <1>1
<1>3. HistorySize \in Nat \ {0} /\ n = (IF m < HistorySize THEN m ELSE HistorySize) /\ \A i \in 1..n : h[i] = g[m - n + i]
  BY <1>1, <1>2, SessionAssumption DEF SessionInv, Ends
<1>4. Session!Recent(s) = {g[j] : j \in {i \in 1..m : i > m - HistorySize}} /\ Session!ToSet(h) = {h[i] : i \in 1..n}
  BY <1>1, <1>2 DEF Session!Recent, Session!ToSet
<1>5. ASSUME NEW i \in 1..n PROVE h[i] \in Session!Recent(s)
  <2>1. m - n + i \in 1..m /\ m - n + i > m - HistorySize
    BY <1>3
  <2>2. QED
    BY <1>3, <1>4, <2>1
<1>6. ASSUME NEW j \in 1..m, j > m - HistorySize PROVE g[j] \in Session!ToSet(h)
  <2>1. j - (m - n) \in 1..n /\ m - n + (j - (m - n)) = j
    BY <1>3, <1>6
  <2>2. h[j - (m - n)] = g[j]
    BY <1>3, <2>1
  <2>3. QED
    BY <1>4, <2>1, <2>2
<1>7. Session!ToSet(h) \subseteq Session!Recent(s)
  BY <1>4, <1>5
<1>8. Session!Recent(s) \subseteq Session!ToSet(h)
  BY <1>4, <1>6
<1>9. QED
  BY <1>1, <1>7, <1>8

\* A prediction begins with every recent prompt of its session left.
LEMMA BeginPredictStep ==
    ASSUME SessionInv, NEW s \in Sessions, Session!BeginPredict(s)
    PROVE  SessionInv'
<1>1. /\ asking' = s /\ left' = histories[s] /\ best' = [o \in Ids |-> 0] /\ decisions' = {}
      /\ recent' = Session!Recent(s) /\ seen' = Session!Registered /\ always' = Session!Registered
      /\ UNCHANGED <<histories, tree, log>>
  BY DEF Session!BeginPredict
<1>2. histories[s] \in Seq(Prompts) /\ Session!ToSet(histories[s]) = Session!Recent(s)
  BY SessionFacts, RememberedAreRecent
<1>3. PICK h \in Seq(Prompts) : h = histories[s]
  BY <1>2
<1>4. left' = h /\ Session!ToSet(h) = recent' /\ Session!ToSet(h) \subseteq Prompts
  BY <1>1, <1>2, <1>3 DEF Session!ToSet
<1>5. Session!ToSet(left)' = Session!ToSet(h) /\ Session!Registered' = Session!Registered
  BY <1>1, <1>4 DEF Session!ToSet, Session!Registered
<1>6. Session!TypeOK'
  BY <1>1, <1>4, <1>5 DEF SessionInv, Session!TypeOK
<1>7. Searching'
  <2>1. \A i \in DOMAIN left' : left'[i] \in recent'
    BY <1>3, <1>4 DEF Session!ToSet
  <2>2. \A r \in always', p \in recent' : p \in Session!ToSet(left)'
    BY <1>4, <1>5
  <2>3. \A o \in Ids : best'[o] = 0
    BY <1>1
  <2>4. decisions' = {} /\ always' \subseteq Session!Registered' /\ Session!Registered' \subseteq seen'
    BY <1>1, <1>5
  <2>5. QED
    BY <2>1, <2>2, <2>3, <2>4 DEF Searching
<1>8. left' \in Seq(Prompts) /\ best' \in [Ids -> Nat]
  BY <1>1, <1>3
<1>9. QED
  BY <1>1, <1>6, <1>7, <1>8 DEF SessionInv, Ends

\* A list is its front and its last member.
LEMMA FrontAndLast ==
    ASSUME NEW S, NEW s \in Seq(S), s # <<>>
    PROVE  /\ Session!Front(s) \in Seq(S) /\ Session!Last(s) \in Session!ToSet(s)
           /\ \A i \in DOMAIN Session!Front(s) : Session!Front(s)[i] \in Session!ToSet(s)
           /\ \A x \in Session!ToSet(s) : x = Session!Last(s) \/ x \in Session!ToSet(Session!Front(s))
<1>1. PICK n \in Nat : n = Len(s) /\ n > 0
  OBVIOUS
<1>2. PICK f : f = SubSeq(s, 1, n - 1)
  OBVIOUS
<1>3. f \in Seq(S) /\ Len(f) = n - 1 /\ \A i \in 1..(n - 1) : f[i] = s[i]
  BY <1>1, <1>2
<1>4. Session!Front(s) = f /\ Session!Last(s) = s[n]
  BY <1>1, <1>2 DEF Session!Front, Session!Last
<1>5. Session!ToSet(s) = {s[i] : i \in 1..n} /\ Session!ToSet(f) = {f[i] : i \in 1..(n - 1)}
  BY <1>1, <1>3 DEF Session!ToSet
<1>6. ASSUME NEW i \in 1..n PROVE s[i] = s[n] \/ s[i] \in Session!ToSet(f)
  BY <1>3, <1>5
<1>7. \A i \in DOMAIN f : f[i] \in Session!ToSet(s)
  <2>1. \A i \in 1..(n - 1) : i \in 1..n /\ f[i] = s[i]
    BY <1>1, <1>3
  <2>2. DOMAIN f = 1..(n - 1)
    BY <1>1, <1>3
  <2>3. QED
    BY <1>5, <2>1, <2>2
<1>8. \A x \in Session!ToSet(s) : x = s[n] \/ x \in Session!ToSet(f)
  BY <1>5, <1>6
<1>9. s[n] \in Session!ToSet(s)
  BY <1>1, <1>5
<1>10. QED
  BY <1>3, <1>4, <1>7, <1>8, <1>9

\* A search finds the blocks that match its prompt, and forgets no match.
LEMMA SearchStep ==
    ASSUME SessionInv, Session!Search
    PROVE  SessionInv'
<1>1. /\ asking # None /\ left # <<>>
      /\ UNCHANGED <<histories, tree, asking, decisions, log, recent, seen, always>>
  BY DEF Session!Search, Session!history
<1>2. PICK p : p = Session!Last(left)
  OBVIOUS
<1>3. PICK f : f = Session!Front(left)
  OBVIOUS
<1>4. best' = [o \in Ids |-> IF Session!Match(o, p) > best[o] THEN Session!Match(o, p) ELSE best[o]] /\ left' = f
  BY <1>2, <1>3 DEF Session!Search
<1>5. /\ f \in Seq(Prompts) /\ p \in Session!ToSet(left) /\ \A i \in DOMAIN f : f[i] \in Session!ToSet(left)
      /\ \A x \in Session!ToSet(left) : x = p \/ x \in Session!ToSet(f)
  <2>1. left \in Seq(Prompts)
    BY SessionFacts
  <2>2. QED
    BY <1>1, <1>2, <1>3, <2>1, FrontAndLast
<1>6. Searching
  BY <1>1 DEF SessionInv
<1>7. p \in recent /\ \A i \in DOMAIN f : f[i] \in recent
  BY <1>5, <1>6 DEF Searching, Session!ToSet
<1>8. \A o \in Ids : /\ Session!Match(o, p) \in Nat /\ Session!Match(o, p) \in {0} \cup {Len(q) : q \in Spans}
                     /\ Session!Match(o, p) # 0 => Session!Match(o, p) \in Session!Matches(seen, o)
  <2>1. SUFFICES ASSUME NEW o \in Ids
                 PROVE  /\ Session!Match(o, p) \in Nat /\ Session!Match(o, p) \in {0} \cup {Len(q) : q \in Spans}
                        /\ Session!Match(o, p) # 0 => Session!Match(o, p) \in Session!Matches(seen, o)
    OBVIOUS
  <2>2. CASE tree[o] # None /\ Session!IsPrefix(tree[o], p)
    <3>1. tree[o] \in Spans /\ tree[o] \in Seq(Nat)
      BY <2>2, SessionFacts
    <3>2. <<o, tree[o]>> \in seen
      BY <3>1, <1>6 DEF Searching, Session!Registered
    <3>3. Session!Match(o, p) = Len(tree[o])
      BY <2>2 DEF Session!Match
    <3>4. Len(tree[o]) \in Session!Matches(seen, o)
      <4>1. PICK q : q = <<o, tree[o]>>
        OBVIOUS
      <4>2. q \in {r \in seen : r[1] = o /\ \E x \in recent : Session!IsPrefix(r[2], x)} /\ Len(q[2]) = Len(tree[o])
        BY <1>7, <2>2, <3>2, <4>1
      <4>3. QED
        BY <4>2 DEF Session!Matches
    <3>5. QED
      BY <3>1, <3>3, <3>4
  <2>3. CASE ~(tree[o] # None /\ Session!IsPrefix(tree[o], p))
    BY <2>3 DEF Session!Match
  <2>4. QED
    BY <2>2, <2>3
<1>9. best \in [Ids -> Nat] /\ \A o \in Ids : best[o] \in {0} \cup {Len(q) : q \in Spans}
  BY DEF SessionInv, Session!TypeOK
<1>10. ASSUME NEW o \in Ids
       PROVE  /\ best'[o] \in Nat /\ best'[o] \in {0} \cup {Len(q) : q \in Spans}
              /\ best'[o] # 0 => best'[o] \in Session!Matches(seen, o)
              /\ best'[o] >= best[o] /\ best'[o] >= Session!Match(o, p)
  <2>1. best[o] # 0 => best[o] \in Session!Matches(seen, o)
    BY <1>6 DEF Searching
  <2>2. best'[o] = IF Session!Match(o, p) > best[o] THEN Session!Match(o, p) ELSE best[o]
    BY <1>4
  <2>3. /\ Session!Match(o, p) \in Nat /\ Session!Match(o, p) \in {0} \cup {Len(q) : q \in Spans}
        /\ Session!Match(o, p) # 0 => Session!Match(o, p) \in Session!Matches(seen, o)
        /\ best[o] \in Nat /\ best[o] \in {0} \cup {Len(q) : q \in Spans}
    BY <1>8, <1>9
  <2>4. QED
    BY <2>1, <2>2, <2>3
<1>11. best' \in [Ids -> Nat] /\ DOMAIN best' = Ids
  BY <1>4, <1>8, <1>9
<1>12. Session!ToSet(f) \subseteq Prompts /\ Session!ToSet(left)' = Session!ToSet(f)
  BY <1>4, <1>5 DEF Session!ToSet
<1>13. decisions' = {} /\ decisions = {}
  BY <1>1, <1>6 DEF Searching
<1>14. Session!TypeOK'
  BY <1>1, <1>10, <1>11, <1>12, <1>13 DEF SessionInv, Session!TypeOK
<1>15. ASSUME NEW r \in always, NEW q \in recent, Session!IsPrefix(r[2], q)
       PROVE  q \in Session!ToSet(f) \/ best'[r[1]] >= Len(r[2])
  <2>1. r \in Session!Registered
    BY <1>6 DEF Searching
  <2>2. r[1] \in Ids /\ r[2] \in Spans /\ tree[r[1]] = r[2]
    BY <2>1 DEF Session!Registered
  <2>3. q \in Session!ToSet(left) \/ best[r[1]] >= Len(r[2])
    BY <1>6, <1>15 DEF Searching
  <2>4. CASE q = p
    <3>1. Session!Match(r[1], p) = Len(r[2])
      BY <1>15, <2>2, <2>4, SessionFacts DEF Session!Match
    <3>2. QED
      BY <1>10, <2>2, <3>1
  <2>5. CASE best[r[1]] >= Len(r[2])
    <3>1. Len(r[2]) \in Nat
      BY <2>2, SessionFacts
    <3>2. best'[r[1]] >= best[r[1]] /\ best'[r[1]] \in Nat /\ best[r[1]] \in Nat
      BY <1>9, <1>10, <2>2
    <3>3. QED
      BY <2>5, <3>1, <3>2
  <2>6. QED
    BY <1>5, <2>3, <2>4, <2>5
<1>16. Searching'
  <2>1. Session!Registered' = Session!Registered /\ \A o \in Ids : Session!Matches(seen, o)' = Session!Matches(seen, o)
    BY <1>1 DEF Session!Registered, Session!Matches
  <2>2. always' \subseteq Session!Registered' /\ Session!Registered' \subseteq seen'
    BY <1>1, <1>6, <2>1 DEF Searching
  <2>3. \A o \in Ids : best'[o] # 0 => best'[o] \in Session!Matches(seen, o)'
    BY <1>10, <2>1
  <2>4. \A i \in DOMAIN left' : left'[i] \in recent'
    BY <1>1, <1>4, <1>7
  <2>5. \A r \in always', q \in recent' :
           Session!IsPrefix(r[2], q) => q \in Session!ToSet(left)' \/ best'[r[1]] >= Len(r[2])
    BY <1>1, <1>12, <1>15
  <2>6. QED
    BY <1>13, <2>2, <2>3, <2>4, <2>5 DEF Searching
<1>17. QED
  BY <1>1, <1>4, <1>5, <1>11, <1>14, <1>16 DEF SessionInv, Ends

\* A search under which the tree changes ends the prediction without a decision.
LEMMA SearchRaisesStep ==
    ASSUME SessionInv, Session!SearchRaises
    PROVE  SessionInv' /\ decisions' = {} /\ left # <<>>
<1>1. /\ asking # None /\ left # <<>> /\ asking' = None /\ left' = <<>> /\ best' = [o \in Ids |-> 0]
      /\ UNCHANGED <<histories, tree, decisions, log, recent, seen, always>>
  BY DEF Session!SearchRaises, Session!history
<1>2. decisions' = {}
  BY <1>1 DEF SessionInv, Searching
<1>3. Session!TypeOK'
  BY <1>1, <1>2 DEF SessionInv, Session!TypeOK, Session!ToSet
<1>4. QED
  BY <1>1, <1>2, <1>3 DEF SessionInv, Ends

\* A prediction names blocks it has found.
LEMMA PredictStep ==
    ASSUME SessionInv, Session!Predict
    PROVE  SessionInv' /\ \A o \in decisions' : o \in Ids /\ best[o] # 0
<1>1. asking' = None /\ decisions' \in Session!TopMatches /\ UNCHANGED <<histories, tree, left, best, log>>
  BY DEF Session!Predict, Session!history
<1>2. best \in [Ids -> Nat]
  BY SessionFacts
<1>3. \A o \in decisions' : o \in Ids /\ best[o] # 0
  BY <1>1, <1>2 DEF Session!TopMatches
<1>4. Session!TypeOK'
  BY <1>1, <1>3 DEF SessionInv, Session!TypeOK, Session!ToSet
<1>5. QED
  BY <1>1, <1>3, <1>4 DEF SessionInv, Ends

\* Every step of any thread keeps the invariant.
LEMMA SessionStep == SessionInv /\ [Session!Next]_Session!vars => SessionInv'
<1> SUFFICES ASSUME SessionInv, [Session!Next]_Session!vars PROVE SessionInv'
  OBVIOUS
<1>1. ASSUME NEW s \in Sessions, Session!BeginPredict(s) PROVE SessionInv'
  BY <1>1, BeginPredictStep
<1>2. ASSUME NEW s \in Sessions, NEW p \in Prompts, Session!Complete(s, p) PROVE SessionInv'
  BY <1>2, CompleteStep
<1>3. ASSUME NEW o \in Ids, Session!Unregister(o) PROVE SessionInv'
  BY <1>3, UnregisterStep
<1>4. ASSUME NEW o \in Ids, NEW p \in Spans, Session!Register(o, p) PROVE SessionInv'
  BY <1>4, RegisterStep
<1>5. CASE Session!Search
  BY <1>5, SearchStep
<1>6. CASE Session!Predict
  BY <1>6, PredictStep
<1>7. CASE UNCHANGED Session!vars
  <2>1. UNCHANGED <<histories, tree, asking, left, best, decisions, log, recent, seen, always>>
    BY <1>7 DEF Session!vars, Session!history
  <2>2. Session!TypeOK' /\ (Searching => Searching')
    BY <2>1 DEF SessionInv, Session!TypeOK, Session!ToSet, Searching, Session!Registered, Session!Matches
  <2>3. QED
    BY <2>1, <2>2 DEF SessionInv, Ends
<1>8. CASE Session!SearchRaises
  BY <1>8, SearchRaisesStep
<1>9. QED
  BY <1>1, <1>2, <1>3, <1>4, <1>5, <1>6, <1>7, <1>8 DEF Session!Next

\* While a prediction is being made, decisions come from its last step only.
LEMMA OnlyPredictDecides ==
    ASSUME SessionInv, [Session!Next]_Session!vars, asking # None
    PROVE  /\ decisions' = {} \/ Session!Predict
           /\ left = <<>> /\ asking' = None => Session!Predict
<1>1. decisions = {}
  BY DEF SessionInv, Searching
<1>2. ASSUME NEW s \in Sessions, NEW p \in Prompts, Session!Complete(s, p)
      PROVE  decisions' = {} /\ (left = <<>> => asking' # None)
  BY <1>1, <1>2 DEF Session!Complete
<1>3. ASSUME NEW o \in Ids, Session!Unregister(o) \/ \E p \in Spans : Session!Register(o, p)
      PROVE  decisions' = {} /\ asking' # None
  BY <1>1, <1>3 DEF Session!Unregister, Session!Register
<1>4. CASE Session!Search
  BY <1>1, <1>4 DEF Session!Search
<1>5. CASE UNCHANGED Session!vars
  BY <1>1, <1>5 DEF Session!vars
<1>6. ASSUME NEW s \in Sessions, Session!BeginPredict(s) PROVE FALSE
  BY <1>6 DEF Session!BeginPredict
<1>7. CASE Session!SearchRaises
  BY <1>7, SearchRaisesStep
<1>8. QED
  BY <1>2, <1>3, <1>4, <1>5, <1>6, <1>7 DEF Session!Next

\* What a prediction names was registered while it searched, and matches.
LEMMA DecisionsWereFound ==
    ASSUME SessionInv, [Session!Next]_Session!vars, asking # None, decisions' # {}
    PROVE  \A o \in decisions' : best[o] \in Session!Matches(seen, o)
<1>1. Session!Predict
  BY OnlyPredictDecides
<1>2. \A o \in decisions' : o \in Ids /\ best[o] # 0
  BY <1>1, PredictStep
<1>3. Searching
  BY DEF SessionInv
<1>4. QED
  BY <1>2, <1>3 DEF Searching

\* The instance counts as FiniteSets does.
LEMMA SameCardinality == ASSUME NEW S PROVE Session!Cardinality(S) = Cardinality(S)
BY DEF Session!Cardinality, Cardinality

\* What was there all the time has been found, and gives way only to top_k matches as long.
LEMMA BestAreNamed ==
    ASSUME SessionInv, [Session!Next]_Session!vars,
           asking # None, left = <<>>, asking' = None,
           NEW o \in Ids \ decisions', NEW n \in Session!Matches(always, o)
    PROVE  Session!Cardinality(decisions') = TopK /\ \A d \in decisions' : best[d] >= n
<1>1. Session!Predict
  BY OnlyPredictDecides
<1>2. decisions' \in Session!TopMatches
  BY <1>1 DEF Session!Predict
<1>3. PICK r \in always, p \in recent : r[1] = o /\ n = Len(r[2]) /\ Session!IsPrefix(r[2], p)
  BY DEF Session!Matches
<1>4. best[o] >= n
  <2>1. p \notin Session!ToSet(left)
    BY DEF Session!ToSet
  <2>2. Searching
    BY DEF SessionInv
  <2>3. QED
    BY <1>3, <2>1, <2>2 DEF Searching
<1>5. n \in Nat \ {0}
  <2>1. r \in Session!Registered
    BY DEF SessionInv, Searching
  <2>2. r[2] \in Seq(Nat) \ {<<>>}
    BY <2>1, SessionAssumption DEF Session!Registered
  <2>3. QED
    BY <1>3, <2>2
<1>6. best \in [Ids -> Nat]
  BY SessionFacts
<1>7. PICK matched : matched = {b \in Ids : best[b] > 0}
  OBVIOUS
<1>8. o \in matched
  BY <1>4, <1>5, <1>6, <1>7
<1>9. PICK D : D = decisions'
  OBVIOUS
<1>10. /\ D \subseteq matched /\ \A d \in D : \A m \in matched \ D : best[d] >= best[m]
       /\ Session!Cardinality(D) = (IF Session!Cardinality(matched) < TopK THEN Session!Cardinality(matched) ELSE TopK)
  BY <1>2, <1>7, <1>9 DEF Session!TopMatches
<1>11. Session!Cardinality(D) = TopK
  <2>1. SUFFICES ASSUME Session!Cardinality(matched) < TopK PROVE FALSE
    BY <1>10
  <2>2. Cardinality(D) = Cardinality(matched)
    BY <1>10, <2>1, SameCardinality
  <2>3. IsFiniteSet(matched)
    BY <1>7, FS_Subset, SessionAssumption
  <2>4. D = matched
    BY <1>10, <2>2, <2>3, FS_Subset
  <2>5. QED
    BY <1>8, <1>9, <2>4
<1>12. ASSUME NEW d \in D PROVE best[d] >= n
  <2>1. best[d] >= best[o] /\ d \in Ids
    BY <1>7, <1>8, <1>9, <1>10
  <2>2. QED
    BY <1>4, <1>5, <1>6, <2>1
<1>13. QED
  BY <1>9, <1>11, <1>12

-----------------------------------------------------------------------------
(* AdaptivePrefetch *)

\* The first window begins at the initial depth.
LEMMA AdaptiveInit == Adaptive!Init => Adaptive!TypeOK
BY AdaptiveAssumption DEF Adaptive!Init, Adaptive!TypeOK

\* A reported prefetch is counted or ends its window.
LEMMA AdaptiveStep == Adaptive!TypeOK /\ [Adaptive!Next]_Adaptive!vars => Adaptive!TypeOK'
<1> SUFFICES ASSUME Adaptive!TypeOK, [Adaptive!Next]_Adaptive!vars PROVE Adaptive!TypeOK'
  OBVIOUS
<1>1. /\ Interval \in Nat \ {0} /\ MinDepth \in Int /\ MaxDepth \in Int
      /\ depth \in MinDepth..MaxDepth /\ total \in 0..(Interval - 1) /\ useful \in 0..total /\ events = total
  BY AdaptiveAssumption DEF Adaptive!TypeOK
<1>2. ASSUME NEW u \in BOOLEAN, Adaptive!Count(u) PROVE Adaptive!TypeOK'
  BY <1>1, <1>2 DEF Adaptive!Count, Adaptive!TypeOK
<1>3. ASSUME NEW u \in BOOLEAN, Adaptive!Adjust(u) PROVE Adaptive!TypeOK'
  BY <1>1, <1>3 DEF Adaptive!Adjust, Adaptive!TypeOK
<1>4. CASE UNCHANGED Adaptive!vars
  BY <1>4 DEF Adaptive!vars, Adaptive!TypeOK
<1>5. QED
  BY <1>2, <1>3, <1>4 DEF Adaptive!Next

\* The cardinality of AdaptivePrefetch is that of the theorems about finite sets.
LEMMA SameCount == ASSUME NEW S PROVE Adaptive!Cardinality(S) = Cardinality(S)
BY DEF Adaptive!Cardinality, Cardinality

\* Products of natural numbers.
LEMMA Products ==
    ASSUME NEW a \in Nat, NEW b \in Nat, NEW n \in Nat, a <= b
    PROVE  /\ a * n \in Nat /\ b * n \in Nat /\ a * n <= b * n
           /\ (a + 1) * n = a * n + n
OBVIOUS

\* A report added to the log changes no window that has ended, and the one that has begun by itself.
LEMMA HitsOfMore ==
    ASSUME NEW l \in Seq(BOOLEAN), NEW u \in BOOLEAN, NEW a \in 1..(Len(l) + 1)
    PROVE  /\ \A b, c \in Nat : b > 0 /\ c <= Len(l) => Adaptive!Hits(Append(l, u), b, c) = Adaptive!Hits(l, b, c)
           /\ Adaptive!Hits(Append(l, u), a, Len(l) + 1) = Adaptive!Hits(l, a, Len(l)) + (IF u THEN 1 ELSE 0)
<1> DEFINE m == Append(l, u)
<1>1. Len(l) \in Nat /\ m[Len(l) + 1] = u /\ \A i \in 1..Len(l) : m[i] = l[i]
  OBVIOUS
<1> HIDE DEF m
<1>2. ASSUME NEW b \in Nat \ {0}, NEW c \in Nat, c <= Len(l) PROVE Adaptive!Hits(m, b, c) = Adaptive!Hits(l, b, c)
  <2>1. {i \in b..c : m[i]} = {i \in b..c : l[i]}
    <3>1. \A i \in b..c : i \in 1..Len(l)
      BY <1>1, <1>2
    <3>2. \A i \in b..c : m[i] = l[i]
      BY <1>1, <3>1
    <3>3. QED
      BY <3>2
  <2>2. QED
    BY <2>1 DEF Adaptive!Hits
<1> DEFINE S == {i \in a..Len(l) : l[i]}
           T == {i \in a..(Len(l) + 1) : m[i]}
<1>3. IsFiniteSet(S)
  <2>1. IsFiniteSet(a..Len(l))
    BY <1>1, FS_Interval
  <2>2. QED
    BY <2>1, FS_Subset
<1>4. \A i \in a..(Len(l) + 1) : (i \in a..Len(l) /\ i \in 1..Len(l)) \/ i = Len(l) + 1
  BY <1>1
<1>5. Len(l) + 1 \in a..(Len(l) + 1) /\ Len(l) + 1 \notin a..Len(l) /\ a..Len(l) \subseteq a..(Len(l) + 1)
  BY <1>1
<1>6. Cardinality(T) = Cardinality(S) + (IF u THEN 1 ELSE 0)
  <2>1. CASE u
    <3>1. T = S \cup {Len(l) + 1} /\ Len(l) + 1 \notin S
      BY <1>1, <1>4, <1>5, <2>1
    <3>2. Cardinality(T) = Cardinality(S) + 1
      BY <1>3, <3>1, FS_AddElement
    <3>3. QED
      BY <2>1, <3>2
  <2>2. CASE ~u
    <3>1. T = S
      BY <1>1, <1>4, <1>5, <2>2
    <3>2. Cardinality(S) \in Nat
      BY <1>3, FS_CardinalityType
    <3> HIDE DEF S, T
    <3>3. QED
      BY <2>2, <3>1, <3>2
  <2>3. QED
    BY <2>1, <2>2
<1>7. Adaptive!Hits(m, a, Len(l) + 1) = Adaptive!Hits(l, a, Len(l)) + (IF u THEN 1 ELSE 0)
  <2>1. Adaptive!Hits(m, a, Len(l) + 1) = Cardinality(T)
    BY SameCount DEF Adaptive!Hits
  <2>2. Adaptive!Hits(l, a, Len(l)) = Cardinality(S)
    BY SameCount DEF Adaptive!Hits
  <2> HIDE DEF S, T
  <2>3. QED
    BY <1>6, <2>1, <2>2
<1>8. \A b, c \in Nat : b > 0 /\ c <= Len(l) => Adaptive!Hits(m, b, c) = Adaptive!Hits(l, b, c)
  BY <1>2
<1>9. QED
  BY <1>7, <1>8 DEF m

\* A window of no reports has no useful ones.
LEMMA NoHits == ASSUME NEW l, NEW n \in Nat PROVE Adaptive!Hits(l, n + 1, n) = 0
<1>1. {i \in (n + 1)..n : l[i]} = {}
  OBVIOUS
<1>2. Adaptive!Hits(l, n + 1, n) = Cardinality({i \in (n + 1)..n : l[i]})
  BY SameCount DEF Adaptive!Hits
<1>3. QED
  BY <1>1, <1>2, FS_EmptySet

\* The log is one, and the depth is what its windows make of it.
AdaptiveInv == Adaptive!TypeOK /\ reported \in Seq(BOOLEAN) /\ DepthFollowsWindows

\* The numbers of a state.
LEMMA AdaptiveNumbers ==
    Adaptive!TypeOK => /\ Interval \in Nat \ {0} /\ MinDepth \in Int /\ MaxDepth \in Int
                       /\ depth \in MinDepth..MaxDepth /\ total \in 0..(Interval - 1) /\ total \in Nat
                       /\ useful \in 0..total /\ useful \in Nat /\ events = total
BY AdaptiveAssumption DEF Adaptive!TypeOK

\* No report makes no window.
LEMMA WindowsInit == Adaptive!Init => AdaptiveInv
<1> SUFFICES ASSUME Adaptive!Init PROVE AdaptiveInv
  OBVIOUS
<1>1. Adaptive!TypeOK /\ reported = <<>> /\ depth = InitialDepth /\ total = 0 /\ useful = 0
  BY AdaptiveInit DEF Adaptive!Init
<1>2. Interval \in Nat \ {0} /\ InitialDepth \in MinDepth..MaxDepth
  BY AdaptiveAssumption
<1>3. Len(reported) = 0 /\ reported \in Seq(BOOLEAN) /\ 0 * Interval = 0
  BY <1>1, <1>2
<1>4. Adaptive!Hits(reported, 0 * Interval + 1, Len(reported)) = 0
  BY <1>3, NoHits
<1>5. DepthFollowsWindows
  <2>1. PICK f \in [0..0 -> MinDepth..MaxDepth] : f[0] = InitialDepth
    <3>1. [w \in 0..0 |-> InitialDepth] \in [0..0 -> MinDepth..MaxDepth]
      BY <1>2
    <3>2. [w \in 0..0 |-> InitialDepth][0] = InitialDepth
      OBVIOUS
    <3>3. QED
      BY <3>1, <3>2
  <2>2. \A w \in 1..0 : FALSE
    OBVIOUS
  <2>3. 0 \in 0..Len(reported) /\ Len(reported) = 0 * Interval + total /\ total < Interval
    BY <1>1, <1>2, <1>3
  <2>4. QED
    BY <1>1, <1>4, <2>1, <2>2, <2>3 DEF DepthFollowsWindows, Adaptive!DepthFollowsWindows
<1>6. QED
  BY <1>1, <1>3, <1>5 DEF AdaptiveInv

\* The ends of the windows so far are within the log.
LEMMA WindowsEnd ==
    ASSUME NEW n \in Nat \ {0}, NEW l \in Nat, NEW t \in Nat, NEW k \in Nat, l = k * n + t
    PROVE  /\ \A w \in 1..k : (w - 1) * n + 1 \in Nat /\ (w - 1) * n + 1 > 0 /\ w * n \in Nat /\ w * n <= l
           /\ k * n \in Nat /\ k * n + 1 \in 1..(l + 1) /\ k <= l
<1>1. \A w \in Nat : w * n \in Nat /\ (w + 1) * n = w * n + n
  BY Products
<1>2. ASSUME NEW w \in 1..k PROVE (w - 1) * n + 1 \in Nat /\ (w - 1) * n + 1 > 0 /\ w * n \in Nat /\ w * n <= l
  <2>1. w \in Nat /\ w - 1 \in Nat /\ w <= k
    OBVIOUS
  <2>2. w * n \in Nat /\ k * n \in Nat /\ w * n <= k * n /\ (w - 1) * n \in Nat
    BY <1>1, <2>1, Products
  <2>3. QED
    BY <2>2
<1>3. k * n \in Nat /\ k <= k * n
  BY <1>1, Products
<1>4. QED
  BY <1>2, <1>3

\* A report is counted in its window.
LEMMA CountWindows == ASSUME AdaptiveInv, NEW u \in BOOLEAN, Adaptive!Count(u) PROVE DepthFollowsWindows'
<1>1. /\ events + 1 < Interval /\ total' = total + 1 /\ useful' = useful + (IF u THEN 1 ELSE 0)
      /\ reported' = Append(reported, u) /\ depth' = depth
  BY DEF Adaptive!Count
<1>2. /\ Interval \in Nat \ {0} /\ total \in Nat /\ useful \in Nat /\ events = total
      /\ reported \in Seq(BOOLEAN) /\ Len(reported) \in Nat /\ Len(reported') = Len(reported) + 1
  BY <1>1, AdaptiveNumbers DEF AdaptiveInv
<1>3. PICK k \in 0..Len(reported) :
        /\ Len(reported) = k * Interval + total
        /\ useful = Adaptive!Hits(reported, k * Interval + 1, Len(reported))
        /\ \E f \in [0..k -> MinDepth..MaxDepth] :
              /\ f[0] = InitialDepth /\ f[k] = depth
              /\ \A w \in 1..k :
                    f[w] = Adaptive!After(f[w - 1], Adaptive!Hits(reported, (w - 1) * Interval + 1, w * Interval))
  BY DEF AdaptiveInv, DepthFollowsWindows, Adaptive!DepthFollowsWindows
<1>4. PICK f \in [0..k -> MinDepth..MaxDepth] :
              /\ f[0] = InitialDepth /\ f[k] = depth
              /\ \A w \in 1..k :
                    f[w] = Adaptive!After(f[w - 1], Adaptive!Hits(reported, (w - 1) * Interval + 1, w * Interval))
  BY <1>3
<1>5. /\ \A w \in 1..k : (w - 1) * Interval + 1 \in Nat /\ (w - 1) * Interval + 1 > 0
                         /\ w * Interval \in Nat /\ w * Interval <= Len(reported)
      /\ k \in Nat /\ k * Interval \in Nat /\ k * Interval + 1 \in 1..(Len(reported) + 1) /\ k <= Len(reported)
  <2>1. k \in Nat
    BY <1>2
  <2>2. QED
    BY <1>2, <1>3, <2>1, WindowsEnd
<1>6. \A w \in 1..k : Adaptive!Hits(reported', (w - 1) * Interval + 1, w * Interval)
                         = Adaptive!Hits(reported, (w - 1) * Interval + 1, w * Interval)
  BY <1>1, <1>2, <1>5, HitsOfMore
<1>7. useful' = Adaptive!Hits(reported', k * Interval + 1, Len(reported'))
  <2>1. useful' = Adaptive!Hits(reported', k * Interval + 1, Len(reported) + 1)
    <3>1. Adaptive!Hits(reported', k * Interval + 1, Len(reported) + 1)
             = Adaptive!Hits(reported, k * Interval + 1, Len(reported)) + (IF u THEN 1 ELSE 0)
      BY <1>1, <1>2, <1>5, HitsOfMore
    <3>2. QED
      BY <1>1, <1>3, <3>1
  <2>2. QED
    BY <1>2, <2>1
<1>8. k \in 0..Len(reported') /\ Len(reported') = k * Interval + total' /\ total' < Interval
  BY <1>1, <1>2, <1>3, <1>5
<1>9. \A w \in 1..k :
         f[w] = Adaptive!After(f[w - 1], Adaptive!Hits(reported', (w - 1) * Interval + 1, w * Interval))
  BY <1>4, <1>6
<1>10. f[k] = depth'
  BY <1>1, <1>4
<1>11. QED
  BY <1>4, <1>7, <1>8, <1>9, <1>10 DEF DepthFollowsWindows, Adaptive!DepthFollowsWindows

\* The last report of a window decides of the depth, and the next window begins.
LEMMA AdjustWindows == ASSUME AdaptiveInv, NEW u \in BOOLEAN, Adaptive!Adjust(u) PROVE DepthFollowsWindows'
<1> DEFINE hits == useful + (IF u THEN 1 ELSE 0)
<1>1. /\ events + 1 >= Interval /\ total' = 0 /\ useful' = 0
      /\ reported' = Append(reported, u)
      /\ depth' = IF 100 * hits > High * (total + 1) THEN (IF depth < MaxDepth THEN depth + 1 ELSE MaxDepth)
                  ELSE IF 100 * hits < Low * (total + 1) THEN (IF depth > MinDepth THEN depth - 1 ELSE MinDepth)
                  ELSE depth
  BY DEF Adaptive!Adjust
<1>2. /\ Interval \in Nat \ {0} /\ total \in Nat /\ total + 1 = Interval /\ useful \in Nat
      /\ depth \in MinDepth..MaxDepth /\ MinDepth \in Int /\ MaxDepth \in Int
      /\ reported \in Seq(BOOLEAN) /\ Len(reported) \in Nat /\ Len(reported') = Len(reported) + 1
  BY <1>1, AdaptiveNumbers DEF AdaptiveInv
<1>3. PICK k \in 0..Len(reported) :
        /\ Len(reported) = k * Interval + total
        /\ useful = Adaptive!Hits(reported, k * Interval + 1, Len(reported))
        /\ \E f \in [0..k -> MinDepth..MaxDepth] :
              /\ f[0] = InitialDepth /\ f[k] = depth
              /\ \A w \in 1..k :
                    f[w] = Adaptive!After(f[w - 1], Adaptive!Hits(reported, (w - 1) * Interval + 1, w * Interval))
  BY DEF AdaptiveInv, DepthFollowsWindows, Adaptive!DepthFollowsWindows
<1>4. PICK f \in [0..k -> MinDepth..MaxDepth] :
              /\ f[0] = InitialDepth /\ f[k] = depth
              /\ \A w \in 1..k :
                    f[w] = Adaptive!After(f[w - 1], Adaptive!Hits(reported, (w - 1) * Interval + 1, w * Interval))
  BY <1>3
<1>5. /\ \A w \in 1..k : (w - 1) * Interval + 1 \in Nat /\ (w - 1) * Interval + 1 > 0
                         /\ w * Interval \in Nat /\ w * Interval <= Len(reported)
      /\ k \in Nat /\ k * Interval \in Nat /\ k * Interval + 1 \in 1..(Len(reported) + 1) /\ k <= Len(reported)
  <2>1. k \in Nat
    BY <1>2
  <2>2. QED
    BY <1>2, <1>3, <2>1, WindowsEnd
<1>6. \A w \in 1..k : Adaptive!Hits(reported', (w - 1) * Interval + 1, w * Interval)
                         = Adaptive!Hits(reported, (w - 1) * Interval + 1, w * Interval)
  BY <1>1, <1>2, <1>5, HitsOfMore
<1>7. (k + 1) * Interval = k * Interval + Interval
  BY <1>2, <1>5, Products
<1>8. Len(reported') = (k + 1) * Interval /\ k + 1 \in 0..Len(reported')
  BY <1>2, <1>3, <1>5, <1>7
<1>9. hits = Adaptive!Hits(reported', ((k + 1) - 1) * Interval + 1, (k + 1) * Interval)
  <2>1. hits = Adaptive!Hits(reported', k * Interval + 1, Len(reported) + 1)
    <3>1. Adaptive!Hits(reported', k * Interval + 1, Len(reported) + 1)
             = Adaptive!Hits(reported, k * Interval + 1, Len(reported)) + (IF u THEN 1 ELSE 0)
      BY <1>1, <1>2, <1>5, HitsOfMore
    <3>2. QED
      BY <1>3, <3>1
  <2>2. (k + 1) - 1 = k
    BY <1>5
  <2>3. QED
    BY <1>2, <1>8, <2>1, <2>2
<1> HIDE DEF hits
<1>10. depth' = Adaptive!After(depth, hits) /\ depth' \in MinDepth..MaxDepth
  <2>1. depth' = IF 100 * hits > High * Interval THEN (IF depth = MaxDepth THEN depth ELSE depth + 1)
                 ELSE IF 100 * hits < Low * Interval THEN (IF depth = MinDepth THEN depth ELSE depth - 1)
                 ELSE depth
    <3>1. (depth < MaxDepth <=> depth # MaxDepth) /\ (depth > MinDepth <=> depth # MinDepth)
      BY <1>2
    <3>2. depth' = IF 100 * hits > High * Interval THEN (IF depth < MaxDepth THEN depth + 1 ELSE MaxDepth)
                   ELSE IF 100 * hits < Low * Interval THEN (IF depth > MinDepth THEN depth - 1 ELSE MinDepth)
                   ELSE depth
      BY <1>1, <1>2
    <3>3. QED
      BY <3>1, <3>2
  <2>2. depth' \in MinDepth..MaxDepth
    BY <1>2, <2>1
  <2>3. depth' = Adaptive!After(depth, hits)
    BY <2>1 DEF Adaptive!After
  <2>4. QED
    BY <2>2, <2>3
<1>11. PICK e : e = depth'
  OBVIOUS
<1>12. PICK h \in [0..(k + 1) -> MinDepth..MaxDepth] : h[k + 1] = e /\ \A w \in 0..k : h[w] = f[w]
  <2>1. [w \in 0..(k + 1) |-> IF w = k + 1 THEN e ELSE f[w]] \in [0..(k + 1) -> MinDepth..MaxDepth]
    BY <1>5, <1>10, <1>11
  <2>2. \A w \in 0..k : w # k + 1 /\ w \in 0..(k + 1)
    BY <1>5
  <2>3. PICK h : h = [w \in 0..(k + 1) |-> IF w = k + 1 THEN e ELSE f[w]]
    OBVIOUS
  <2>4. h[k + 1] = e /\ \A w \in 0..k : h[w] = f[w]
    BY <1>5, <2>2, <2>3
  <2>5. QED
    BY <2>1, <2>3, <2>4
<1>13. ASSUME NEW w \in 1..(k + 1)
       PROVE  h[w] = Adaptive!After(h[w - 1], Adaptive!Hits(reported', (w - 1) * Interval + 1, w * Interval))
  <2>1. CASE w = k + 1
    <3>1. (k + 1) - 1 = k /\ k \in 0..k
      BY <1>5
    <3>2. h[w - 1] = depth /\ h[w] = depth'
      BY <1>4, <1>11, <1>12, <2>1, <3>1
    <3>3. QED
      BY <1>9, <1>10, <2>1, <3>2
  <2>2. CASE w # k + 1
    <3>1. w \in 1..k /\ w \in 0..k /\ w - 1 \in 0..k
      BY <1>5, <2>2
    <3>2. QED
      BY <1>4, <1>6, <1>12, <3>1
  <2>3. QED
    BY <2>1, <2>2
<1>14. h[0] = InitialDepth /\ h[k + 1] = depth'
  BY <1>4, <1>5, <1>11, <1>12
<1>15. useful' = Adaptive!Hits(reported', (k + 1) * Interval + 1, Len(reported'))
  <2>1. Len(reported') \in Nat /\ (k + 1) * Interval + 1 = Len(reported') + 1
    <3>1. PICK n : n = (k + 1) * Interval
      OBVIOUS
    <3>2. Len(reported') \in Nat
      BY <1>2
    <3>3. Len(reported') = n
      BY <1>8, <3>1
    <3>4. QED
      BY <3>1, <3>2, <3>3
  <2>2. Adaptive!Hits(reported', Len(reported') + 1, Len(reported')) = 0
    BY <2>1, NoHits
  <2>3. QED
    BY <1>1, <2>1, <2>2
<1>16. Len(reported') = (k + 1) * Interval + total' /\ total' < Interval
  BY <1>1, <1>2, <1>8
<1>17. QED
  BY <1>8, <1>12, <1>13, <1>14, <1>15, <1>16 DEF DepthFollowsWindows, Adaptive!DepthFollowsWindows

\* Every report keeps it so.
LEMMA WindowsStep == AdaptiveInv /\ [Adaptive!Next]_Adaptive!vars => AdaptiveInv'
<1> SUFFICES ASSUME AdaptiveInv, [Adaptive!Next]_Adaptive!vars PROVE AdaptiveInv'
  OBVIOUS
<1>1. Adaptive!TypeOK'
  BY AdaptiveStep DEF AdaptiveInv
<1>2. ASSUME NEW u \in BOOLEAN, Adaptive!Count(u) PROVE AdaptiveInv'
  <2>1. reported' \in Seq(BOOLEAN)
    BY <1>2 DEF Adaptive!Count, AdaptiveInv
  <2>2. QED
    BY <1>1, <1>2, <2>1, CountWindows DEF AdaptiveInv
<1>3. ASSUME NEW u \in BOOLEAN, Adaptive!Adjust(u) PROVE AdaptiveInv'
  <2>1. reported' \in Seq(BOOLEAN)
    BY <1>3 DEF Adaptive!Adjust, AdaptiveInv
  <2>2. QED
    BY <1>1, <1>3, <2>1, AdjustWindows DEF AdaptiveInv
<1>4. CASE UNCHANGED Adaptive!vars
  BY <1>1, <1>4 DEF Adaptive!vars, AdaptiveInv, DepthFollowsWindows, Adaptive!DepthFollowsWindows
<1>5. QED
  BY <1>2, <1>3, <1>4 DEF Adaptive!Next

-----------------------------------------------------------------------------

\* Each part makes its own steps, and keeps still while another makes one.
LEMMA PartsRunAlone == PrefetchSpec => Spec /\ Eviction!Spec /\ Session!Spec /\ Adaptive!Spec
<1>1. PrefetchInit => Init /\ Eviction!Init /\ Session!Init /\ Adaptive!Init
  BY DEF PrefetchInit
<1>2. ASSUME [PrefetchNext]_<<vars, eviction, session, adaptive>>
      PROVE  /\ [Next]_vars /\ [Eviction!Next]_Eviction!vars
             /\ [Session!Next]_Session!vars /\ [Adaptive!Next]_Adaptive!vars
  <2>1. \/ Next /\ UNCHANGED <<eviction, session, adaptive>>
        \/ Eviction!Next /\ UNCHANGED <<vars, session, adaptive>>
        \/ Session!Next /\ UNCHANGED <<vars, eviction, adaptive>>
        \/ Adaptive!Next /\ UNCHANGED <<vars, eviction, session>>
        \/ UNCHANGED <<vars, eviction, session, adaptive>>
    BY <1>2 DEF PrefetchNext
  <2>2. UNCHANGED eviction => UNCHANGED Eviction!vars
    BY DEF eviction, Eviction!vars, Eviction!blocks, Eviction!history
  <2>3. UNCHANGED session => UNCHANGED Session!vars
    BY DEF session, Session!vars, Session!history
  <2>4. UNCHANGED adaptive => UNCHANGED Adaptive!vars
    BY DEF adaptive, Adaptive!vars
  <2>5. QED
    BY <2>1, <2>2, <2>3, <2>4
<1>3. QED
  BY <1>1, <1>2, PTL DEF PrefetchSpec, Spec, Eviction!Spec, Session!Spec, Adaptive!Spec

\* The invariants hold in every state of their part.
LEMMA BatchAlways == Spec => []BatchInv
BY BatchInit, BatchStep, PTL DEF Spec

LEMMA EvictionAlways == Eviction!Spec => []EvictionInv
BY EvictionInit, EvictionStep, PTL DEF Eviction!Spec

LEMMA SessionAlways == Session!Spec => []SessionInv
BY SessionInit, SessionStep, PTL DEF Session!Spec

LEMMA AdaptiveAlways == Adaptive!Spec => []AdaptiveInv
BY WindowsInit, WindowsStep, PTL DEF Adaptive!Spec

\* Of all four parts (PrefetchTypeOK): the order of LRU names a block once and every block in L2 is
\* known to the policy, a session's history keeps to its size, the counters of a window stay below
\* its length and the depth within its limits.
THEOREM PrefetchTypeCorrect == PrefetchSpec => []PrefetchTypeOK
<1>1. BatchInv /\ EvictionInv /\ SessionInv /\ AdaptiveInv => PrefetchTypeOK
  BY DEF BatchInv, EvictionInv, SessionInv, AdaptiveInv, PrefetchTypeOK
<1>2. QED
  BY <1>1, PartsRunAlone, BatchAlways, EvictionAlways, SessionAlways, AdaptiveAlways, PTL

\* What a batch brings was in the store during the call, under its id and with its type, and it
\* brings everything that was there all the time, but for types that cannot travel and ids an
\* earlier decision named with another type, for any requests, types and changes of the store.
THEOREM BatchIsRight == PrefetchSpec => []AnswersAreRight
<1>1. BatchInv => AnswersAreRight
  BY InvHonest, InvComplete DEF AnswersAreRight
<1>2. QED
  BY <1>1, PartsRunAlone, BatchAlways, PTL

\* Without a refusal by the backend only a request of one id with two types fails.
THEOREM OnlyMixedBatchesFail == PrefetchSpec => []OnlyMixedRequestsFail
BY InvMixed, PartsRunAlone, BatchAlways, PTL

\* Whatever is added, used and evicted, and whatever use is reported late, LRU names the candidate
\* that was used the longest ago, and a scoring policy none that is worse in no respect than
\* another and was used later (select_victim of the policies under policies/eviction).
THEOREM VictimsAreWorst == PrefetchSpec => []VictimIsWorst
<1>1. EvictionInv => VictimIsWorst
  BY OldestGoes, WorseIsNoVictim DEF VictimIsWorst
<1>2. QED
  BY <1>1, PartsRunAlone, EvictionAlways, PTL

\* Whatever the length of a window, the limits and the thresholds, the depth is what the windows of
\* the reported prefetches make of it one by one, each by its own hits (on_prefetch_used).
THEOREM DepthIsOfWindows == PrefetchSpec => []DepthFollowsWindows
<1>1. AdaptiveInv => DepthFollowsWindows
  BY DEF AdaptiveInv
<1>2. QED
  BY <1>1, PartsRunAlone, AdaptiveAlways, PTL

\* However blocks come and go while a prediction searches, it names blocks that match a recent
\* prompt of its session, and leaves one out only for top_k that match as much.
THEOREM PredictionsAreOfHistory == PrefetchSpec => PredictionsFollowHistory
<1>1. ASSUME SessionInv, [Session!Next]_Session!vars
      PROVE  [asking # None /\ decisions' # {} =>
                 \A o \in decisions' : best[o] \in Session!Matches(seen, o)]_Session!vars
  BY <1>1, DecisionsWereFound
<1>2. ASSUME SessionInv, [Session!Next]_Session!vars
      PROVE  [asking # None /\ left = <<>> /\ asking' = None =>
                 \A o \in Ids \ decisions' : \A n \in Session!Matches(always, o) :
                     Session!Cardinality(decisions') = TopK /\ \A d \in decisions' : best[d] >= n]_Session!vars
  BY <1>2, BestAreNamed
<1>3. QED
  BY <1>1, <1>2, PartsRunAlone, SessionAlways, PTL
     DEF PredictionsFollowHistory, Session!PredictsOwnHistory, Session!LongestMatchesWin, Session!Spec
=============================================================================
