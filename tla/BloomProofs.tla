----------------------------- MODULE BloomProofs -----------------------------
(***************************************************************************)
(* BloomFilter implements BloomSet, for any number of threads and any hash *)
(* function.  The argument: bits are only ever set (BitsGrow), so what a   *)
(* loop read or wrote in its earlier turns still holds (Progress), and at  *)
(* the last turn that is every probe of the key.                           *)
(***************************************************************************)
EXTENDS BloomFilter, TLAPS

\* The hash function stays within the filter.
LEMMA ProbeInRange ==
    ASSUME NEW k \in Keys, NEW j \in Probes
    PROVE  Hash[k][j] \in Positions
  BY FilterAssumption

LEMMA LastProbe == NumHashes \in Probes /\ 1 \in Probes
  BY FilterAssumption DEF Probes

\* The filter starts well formed.
LEMMA TypeOKInit == Init => TypeOK
<1> SUFFICES ASSUME Init PROVE TypeOK
  OBVIOUS
<1>1. (CHOOSE k \in Keys : TRUE) \in Keys
  BY FilterAssumption
<1>2. QED
  BY <1>1, LastProbe DEF Init, TypeOK

\* Every step keeps it well formed.
LEMMA TypeOKStep == TypeOK /\ [Next]_vars => TypeOK'
<1> SUFFICES ASSUME TypeOK, [Next]_vars PROVE TypeOK'
  OBVIOUS
<1>1. CASE UNCHANGED vars
  BY <1>1 DEF vars, TypeOK
<1>2. ASSUME NEW t \in Threads, Begin(t) PROVE TypeOK'
  BY <1>2, LastProbe DEF TypeOK, Begin
<1>3. ASSUME NEW t \in Threads, Add(t) PROVE TypeOK'
  <2>1. Probe(t) \in Positions
    BY ProbeInRange DEF Probe, TypeOK
  <2>2. i[t] + 1 \in Probes
    BY <1>3, FilterAssumption DEF Add, Probes, TypeOK
  <2>3. QED
    BY <1>3, <2>1, <2>2 DEF TypeOK, Add, SetBit
<1>4. ASSUME NEW t \in Threads, EndAdd(t) PROVE TypeOK'
  <2>1. Probe(t) \in Positions
    BY ProbeInRange DEF Probe, TypeOK
  <2>2. QED
    BY <1>4, <2>1 DEF TypeOK, EndAdd, SetBit
<1>5. ASSUME NEW t \in Threads, Query(t) PROVE TypeOK'
  <2>1. i[t] + 1 \in Probes
    BY <1>5, FilterAssumption DEF Query, Probes, TypeOK
  <2>2. QED
    BY <1>5, <2>1 DEF TypeOK, Query
<1>6. ASSUME NEW t \in Threads, EndQueryYes(t) PROVE TypeOK'
  BY <1>6 DEF TypeOK, EndQueryYes, Answer
<1>7. ASSUME NEW t \in Threads, EndQueryNo(t) PROVE TypeOK'
  BY <1>7 DEF TypeOK, EndQueryNo, Answer
<1>8. QED
  BY <1>1, <1>2, <1>3, <1>4, <1>5, <1>6, <1>7 DEF Next

\* No step clears a bit.
LEMMA BitsGrow == [Next]_vars => bits \subseteq bits'
  BY DEF Next, vars, Begin, Add, EndAdd, Query, EndQueryYes, EndQueryNo, Answer, SetBit

\* A turn of the loop extends the probes done by the one it made; every other
\* step leaves the loop of a thread where it was, at its start, or outside it.
Turn(u) ==
    /\ key'[u] = key[u]
    /\ i'[u] = i[u] + 1
    /\ op'[u] = op[u]
    /\ Probe(u) \in bits'

Rest(u) ==
    \/ i'[u] = 1
    \/ op'[u] = "none"
    \/ UNCHANGED <<key[u], i[u], op[u]>>

LEMMA LoopMoves ==
    ASSUME TypeOK, [Next]_vars, NEW u \in Threads
    PROVE  Turn(u) \/ Rest(u)
<1>1. CASE UNCHANGED vars
  BY <1>1 DEF vars, Rest
<1>2. ASSUME NEW t \in Threads, Begin(t) PROVE Rest(u)
  BY <1>2 DEF Begin, TypeOK, Rest
<1>3. ASSUME NEW t \in Threads, Add(t) PROVE Turn(u) \/ Rest(u)
  BY <1>3 DEF Add, TypeOK, Turn, Rest, SetBit, Probe
<1>4. ASSUME NEW t \in Threads, EndAdd(t) PROVE Rest(u)
  BY <1>4 DEF EndAdd, TypeOK, Rest
<1>5. ASSUME NEW t \in Threads, Query(t) PROVE Turn(u) \/ Rest(u)
  BY <1>5 DEF Query, TypeOK, Turn, Rest, Probe
<1>6. ASSUME NEW t \in Threads, EndQueryYes(t) PROVE Rest(u)
  BY <1>6 DEF EndQueryYes, Answer, TypeOK, Rest
<1>7. ASSUME NEW t \in Threads, EndQueryNo(t) PROVE Rest(u)
  BY <1>7 DEF EndQueryNo, Answer, TypeOK, Rest
<1>8. QED
  BY <1>1, <1>2, <1>3, <1>4, <1>5, <1>6, <1>7 DEF Next

LEMMA ProgressStep == IInv /\ [Next]_vars => Progress'
<1> SUFFICES ASSUME IInv, [Next]_vars,
                    NEW u \in Threads, op'[u] # "none",
                    NEW j \in Probes, j < i'[u]
             PROVE  Hash[key'[u]][j] \in bits'
  BY DEF Progress, QueryProgress, AddProgress
<1>1. bits \subseteq bits'
  BY BitsGrow
<1>2. /\ TypeOK
      /\ TypeOK'
  BY TypeOKStep DEF IInv
<1>3. CASE Turn(u)
  <2>1. CASE j = i[u]
    BY <1>3, <2>1 DEF Turn, Probe
  <2>2. CASE j # i[u]
    <3>1. j < i[u]
      BY <1>2, <1>3, <2>2, FilterAssumption DEF Turn, TypeOK, Probes
    <3>2. op[u] \in {"add", "query"}
      BY <1>2, <1>3 DEF Turn, TypeOK
    <3>3. QED
      BY <1>1, <1>3, <3>1, <3>2 DEF Turn, IInv, Progress, QueryProgress, AddProgress
  <2>3. QED
    BY <2>1, <2>2
<1>4. CASE Rest(u)
  <2>1. i'[u] # 1
    BY FilterAssumption DEF Probes
  <2>2. UNCHANGED <<key[u], i[u], op[u]>>
    BY <1>4, <2>1 DEF Rest
  <2>3. op[u] \in {"add", "query"}
    BY <1>2, <2>2 DEF TypeOK
  <2>4. QED
    BY <1>1, <2>2, <2>3 DEF IInv, Progress, QueryProgress, AddProgress
<1>5. QED
  BY <1>2, <1>3, <1>4, LoopMoves

THEOREM LoopsKeepTheirProbes == Spec => []IInv
<1>1. Init => Progress
  BY DEF Init, Progress, QueryProgress, AddProgress
<1>2. Init => IInv
  BY <1>1, TypeOKInit DEF IInv
<1>3. IInv /\ [Next]_vars => IInv'
  BY TypeOKStep, ProgressStep DEF IInv
<1>4. QED
  BY <1>2, <1>3, PTL DEF Spec

-----------------------------------------------------------------------------
Members == {k \in Keys : Covered(k)}

LEMMA MembersGrow == [Next]_vars => Members \subseteq Members' /\ Members' \subseteq Keys
  BY BitsGrow DEF Members, Covered

\* A loop at its last turn has every other probe behind it.
LEMMA OneToGo ==
    ASSUME NEW t \in Threads, IInv, op[t] # "none", i[t] = NumHashes, Probe(t) \in bits
    PROVE  Covered(key[t])
<1> SUFFICES ASSUME NEW j \in Probes PROVE Hash[key[t]][j] \in bits
  BY DEF Covered
<1>1. j = NumHashes \/ j < i[t]
  BY FilterAssumption DEF Probes
<1>2. op[t] \in {"add", "query"}
  BY DEF IInv, TypeOK
<1>3. QED
  BY <1>1, <1>2 DEF IInv, Progress, QueryProgress, AddProgress, Probe

CallOf == [t \in Threads |-> IF op[t] = "none" THEN [op |-> "none"]
                             ELSE [op |-> op[t], key |-> key[t]]]

LEMMA CallOfIdle ==
    ASSUME NEW t \in Threads
    PROVE  CallOf[t] = [op |-> "none"] <=> op[t] = "none"
<1>1. CASE op[t] = "none"
  BY <1>1 DEF CallOf
<1>2. CASE op[t] # "none"
  <2>1. CallOf[t] = [op |-> op[t], key |-> key[t]]
    BY <1>2 DEF CallOf
  <2>2. CallOf[t].op # "none"
    BY <1>2, <2>1
  <2>3. QED
    BY <1>2, <2>2
<1>3. QED
  BY <1>1, <1>2
\* The abstract step each step of the code stands for.
LEMMA StepImplements ==
    ASSUME IInv, [Next]_vars, IInv'
    PROVE  [Abstract!Next]_(Abstract!vars)
<1> USE DEF CallOf, Members
<1>1. CASE UNCHANGED vars
  BY <1>1 DEF vars, Abstract!vars, Covered
<1>2. ASSUME NEW t \in Threads, Begin(t) PROVE Abstract!Begin(t)
  <2>1. PICK k \in Keys, o \in {"add", "query"} :
            key' = [key EXCEPT ![t] = k] /\ op' = [op EXCEPT ![t] = o]
    BY <1>2 DEF Begin
  <2>2. CallOf' = [CallOf EXCEPT ![t] = [op |-> o, key |-> k]]
    BY <2>1 DEF IInv, TypeOK
  <2>3. [op |-> o, key |-> k] \in Abstract!Calls
    BY DEF Abstract!Calls
  <2>4. CallOf[t] = [op |-> "none"]
    BY <1>2 DEF Begin
  <2>5. Members' = Members
    BY <1>2 DEF Begin, Covered
  <2>6. QED
    BY <1>2, <2>2, <2>3, <2>4, <2>5 DEF Begin, Abstract!Begin, Abstract!NoCall
<1>3. ASSUME NEW t \in Threads, Add(t) PROVE Abstract!Add(t)
  <2>1. CallOf' = CallOf /\ answer' = answer
    BY <1>3 DEF Add
  <2>2. CallOf[t] # [op |-> "none"]
    BY <1>3, CallOfIdle DEF Add
  <2>3. CallOf[t].op = "add"
    BY <1>3 DEF Add
  <2>4. QED
    BY <2>1, <2>2, <2>3, MembersGrow DEF Abstract!Add, Abstract!Grow, Abstract!NoCall
<1>4. ASSUME NEW t \in Threads, EndAdd(t) PROVE Abstract!EndAdd(t)
  <2>1. key[t] \in Members'
    <3>1. \A j \in Probes : j < i[t] => Hash[key[t]][j] \in bits'
      BY <1>4, BitsGrow DEF EndAdd, IInv, Progress, AddProgress
    <3>2. Probe(t) \in bits'
      BY <1>4 DEF EndAdd, SetBit
    <3>3. \A j \in Probes : j < i[t] \/ j = i[t]
      BY <1>4, FilterAssumption DEF EndAdd, Probes
    <3>4. Covered(key[t])'
      BY <1>4, <3>1, <3>2, <3>3 DEF Covered, Probe, EndAdd
    <3>5. key[t] \in Keys /\ key' = key
      BY <1>4 DEF EndAdd, IInv, TypeOK
    <3>6. QED
      BY <3>4, <3>5 DEF Covered
  <2>2. CallOf[t] # [op |-> "none"]
    BY <1>4, CallOfIdle DEF EndAdd
  <2>3. CallOf[t] = [op |-> "add", key |-> key[t]]
    BY <1>4 DEF EndAdd
  <2>4. CallOf' = [CallOf EXCEPT ![t] = [op |-> "none"]]
    BY <1>4 DEF EndAdd, IInv, TypeOK
  <2>5. answer' = answer
    BY <1>4 DEF EndAdd
  <2>6. QED
    BY <2>1, <2>2, <2>3, <2>4, <2>5, MembersGrow
    DEF Abstract!EndAdd, Abstract!Grow, Abstract!NoCall
<1>5. ASSUME NEW t \in Threads, Query(t) PROVE UNCHANGED Abstract!vars
  BY <1>5 DEF Query, Abstract!vars, Covered
<1>6. ASSUME NEW t \in Threads, NEW a, op[t] = "query", Answer(t, a),
             a = (IF Covered(key[t]) THEN "yes" ELSE "no")
      PROVE  Abstract!EndQuery(t)
  <2>1. CallOf[t] # [op |-> "none"]
    BY <1>6, CallOfIdle
  <2>2. CallOf[t] = [op |-> "query", key |-> key[t]]
    BY <1>6
  <2>3. CallOf' = [CallOf EXCEPT ![t] = [op |-> "none"]]
    BY <1>6 DEF Answer, IInv, TypeOK
  <2>4. Members' = Members
    BY <1>6 DEF Answer, Covered
  <2>5. key[t] \in Members <=> Covered(key[t])
    BY DEF IInv, TypeOK
  <2>6. answer' = [answer EXCEPT ![t] = IF CallOf[t].key \in Members THEN "yes" ELSE "no"]
    BY <1>6, <2>2, <2>5 DEF Answer
  <2>7. QED
    BY <2>1, <2>2, <2>3, <2>4, <2>6 DEF Abstract!EndQuery, Abstract!NoCall
<1>7. ASSUME NEW t \in Threads, EndQueryYes(t) PROVE Abstract!EndQuery(t)
  BY <1>6, <1>7, OneToGo DEF EndQueryYes
<1>8. ASSUME NEW t \in Threads, EndQueryNo(t) PROVE Abstract!EndQuery(t)
  <2>1. ~Covered(key[t])
    BY <1>8 DEF EndQueryNo, Probe, Covered, IInv, TypeOK
  <2>2. QED
    BY <1>6, <1>8, <2>1 DEF EndQueryNo
<1>9. QED
  BY <1>1, <1>2, <1>3, <1>4, <1>5, <1>7, <1>8 DEF Next, Abstract!Next

LEMMA InitImplements == Init => Abstract!Init
<1> SUFFICES ASSUME Init PROVE Abstract!Init
  OBVIOUS
<1>1. Members = {}
  BY LastProbe DEF Init, Members, Covered
<1>2. CallOf = [t \in Threads |-> [op |-> "none"]]
  BY DEF Init, CallOf
<1>3. QED
  BY <1>1, <1>2 DEF Init, Abstract!Init, Abstract!NoCall, Members, CallOf

\* Whatever the threads and their interleaving, might_exist answers as a set
\* that only grows would, at the moment it returns: no false negative.
THEOREM FilterIsGrowingSet == Spec => ImplementsBloomSet
<1>1. IInv /\ [Next]_vars /\ IInv' => [Abstract!Next]_(Abstract!vars)
  BY StepImplements
<1>2. QED
  BY <1>1, LoopsKeepTheirProbes, InitImplements, PTL DEF Spec, ImplementsBloomSet, Abstract!Spec
=============================================================================
