---------------------------- MODULE StoreProofs ----------------------------
(***************************************************************************)
(* Proofs about ObjectStore: its types, what its callers and the searches  *)
(* rely on (StoreHistory), and that it implements AtomicStore              *)
(* (StoreRefinement).                                                      *)
(***************************************************************************)
EXTENDS StoreHistory, StoreRefinement, TLAPS

-----------------------------------------------------------------------------
(* Types.                                                                   *)

LEMMA OutcomeShape ==
    /\ \A kind \in {"none", "put", "deleted", "not_deleted", "raised", "missing"} :
          Outcome(kind) \in Outcomes
    /\ \A m, d \in Stored : Object(m, d) \in Outcomes
BY DEF Outcome, Object, Outcomes, Stored

LEMMA TypeOKInit == Init => TypeOK
<1> SUFFICES ASSUME Init PROVE TypeOK
  OBVIOUS
<1>1. (CHOOSE i \in Ids : TRUE) \in Ids
  BY IdsAssumption
<1>2. arg \in [Threads -> Ids]
  BY <1>1 DEF Init
<1>3. QED
  BY <1>2, OutcomeShape, BoundsAssumption
  DEF Init, TypeOK, StoreShapes, ThreadShapes, CallOK, Stored, Labels, Writing, Puts, Gets, Deletes

\* Each way a step ends keeps the variables of the threads well typed.
LEMMA GotoShapes ==
    ASSUME ThreadShapes, NEW t \in Threads, NEW label \in Labels, Goto(t, label)
    PROVE  ThreadShapes'
BY DEF ThreadShapes, Goto, locals

LEMMA KeepShapes ==
    ASSUME ThreadShapes, NEW t \in Threads, NEW v \in Stored, NEW label \in Labels, Keep(t, v, label)
    PROVE  ThreadShapes'
BY DEF ThreadShapes, Keep

LEMMA ReturnShapes ==
    ASSUME ThreadShapes, NEW t \in Threads, NEW o \in Outcomes, Return(t, o)
    PROVE  ThreadShapes'
<1>1. pc' \in [Threads -> Labels] /\ arg' \in [Threads -> Ids] /\ out' \in [Threads -> Outcomes]
  BY DEF ThreadShapes, Return, Labels
<1>2. val' \in [Threads -> Stored] /\ got' \in [Threads -> Stored]
  BY DEF ThreadShapes, Return, Stored
<1>3. todo' \in [Threads -> SUBSET {"meta", "data"}] /\ count' \in [Threads -> Nat]
  BY DEF ThreadShapes, Return
<1>4. QED
  BY <1>1, <1>2, <1>3 DEF ThreadShapes

LEMMA RaiseShapes ==
    ASSUME ThreadShapes, NEW t \in Threads, Raise(t)
    PROVE  ThreadShapes'
BY ReturnShapes, OutcomeShape DEF Raise

LEMMA CallShapes ==
    ASSUME ThreadShapes, NEW t \in Threads, NEW i \in Ids, NEW label \in Labels, Call(t, i, label)
    PROVE  /\ pc' \in [Threads -> Labels]
           /\ arg' \in [Threads -> Ids]
           /\ got' \in [Threads -> Stored]
           /\ count' \in [Threads -> Nat]
           /\ out' \in [Threads -> Outcomes]
BY OutcomeShape DEF ThreadShapes, Call

LEMMA ThreadShapesStep == TypeOK /\ [Next]_vars => ThreadShapes'
<1> SUFFICES ASSUME TypeOK, [Next]_vars PROVE ThreadShapes'
  OBVIOUS
<1> USE DEF TypeOK, Labels, Writing, Puts, Gets, Deletes
<1>1. CASE Restart
  BY <1>1, OutcomeShape DEF Restart, ThreadShapes, Stored
<1>2. ASSUME NEW t \in Threads, Begin(t) PROVE ThreadShapes'
  <2>1. ASSUME NEW i \in Ids, NEW v \in Versions, BeginPut(t, i, v) PROVE ThreadShapes'
    BY <2>1, CallShapes DEF BeginPut, ThreadShapes, Stored
  <2>2. ASSUME NEW i \in Ids, BeginGet(t, i) PROVE ThreadShapes'
    BY <2>2, CallShapes DEF BeginGet, ThreadShapes
  <2>3. ASSUME NEW i \in Ids, BeginDelete(t, i) PROVE ThreadShapes'
    BY <2>3, CallShapes DEF BeginDelete, ThreadShapes
  <2> QED
    BY <1>2, <2>1, <2>2, <2>3 DEF Begin
<1>3. ASSUME NEW t \in Threads, Put(t) PROVE ThreadShapes'
  <2>1. CASE PutMeta(t)
    BY <2>1, GotoShapes DEF PutMeta
  <2>2. CASE PutMetaFails(t)
    BY <2>2, RaiseShapes DEF PutMetaFails
  <2>3. CASE PutData(t)
    BY <2>3, GotoShapes DEF PutData
  <2>4. CASE PutDataFails(t)
    BY <2>4, GotoShapes DEF PutDataFails
  <2>5. CASE Rollback(t)
    BY <2>5, RaiseShapes DEF Rollback
  <2>6. CASE RollbackFails(t)
    BY <2>6, RaiseShapes DEF RollbackFails
  <2>7. CASE BloomAdd(t)
    BY <2>7, GotoShapes, ReturnShapes, OutcomeShape DEF BloomAdd
  <2>8. CASE IndexAdd(t)
    BY <2>8, GotoShapes, ReturnShapes, OutcomeShape DEF IndexAdd
  <2>9. CASE IndexAddFull(t)
    BY <2>9, RaiseShapes DEF IndexAddFull
  <2>10. CASE BloomSetBits(t)
    BY <2>10 DEF BloomSetBits, ThreadShapes, locals
  <2> QED
    BY <1>3, <2>1, <2>2, <2>3, <2>4, <2>5, <2>6, <2>7, <2>8, <2>9, <2>10 DEF Put
<1>4. ASSUME NEW t \in Threads, Get(t) PROVE ThreadShapes'
  <2>1. CASE MightExist(t)
    BY <2>1, GotoShapes, ReturnShapes, OutcomeShape DEF MightExist
  <2>2. CASE GetMeta(t)
    BY <2>2, KeepShapes, ReturnShapes, OutcomeShape DEF GetMeta, ThreadShapes, StoreShapes, Stored
  <2>3. CASE GetData(t)
    BY <2>3, GotoShapes, ReturnShapes, OutcomeShape DEF GetData, ThreadShapes, StoreShapes, Stored
  <2>4. CASE ReadFails(t)
    BY <2>4, RaiseShapes DEF ReadFails
  <2> QED
    BY <1>4, <2>1, <2>2, <2>3, <2>4 DEF Get
<1>5. ASSUME NEW t \in Threads, Delete(t) PROVE ThreadShapes'
  <2>1. CASE DeleteManyRaises(t)
    BY <2>1, RaiseShapes DEF DeleteManyRaises
  <2>2. CASE DeleteManyReturns(t)
    BY <2>2, GotoShapes, ReturnShapes, OutcomeShape DEF DeleteManyReturns
  <2>3. CASE IndexRemove(t)
    BY <2>3, GotoShapes, ReturnShapes, OutcomeShape DEF IndexRemove
  <2>4. CASE Exists(t)
    BY <2>4, KeepShapes DEF Exists, ThreadShapes, StoreShapes, Stored
  <2>5. CASE ExistsFails(t)
    BY <2>5, KeepShapes DEF ExistsFails, ThreadShapes, StoreShapes, Stored
  <2>6. CASE DeleteMeta(t)
    BY <2>6, GotoShapes, ReturnShapes, OutcomeShape DEF DeleteMeta
  <2>7. CASE DeleteMetaFails(t)
    BY <2>7, RaiseShapes DEF DeleteMetaFails
  <2>8. ASSUME NEW key \in {"meta", "data"}, DeleteKey(t, key) PROVE ThreadShapes'
    BY <2>8 DEF DeleteKey, ThreadShapes
  <2>9. ASSUME NEW key \in {"meta", "data"}, DeleteKeyError(t, key) PROVE ThreadShapes'
    BY <2>9 DEF DeleteKeyError, ThreadShapes
  <2> QED
    BY <1>5, <2>1, <2>2, <2>3, <2>4, <2>5, <2>6, <2>7, <2>8, <2>9 DEF Delete
<1>6. CASE UNCHANGED vars
  BY <1>6 DEF vars, ThreadShapes
<1>7. QED
  BY <1>1, <1>2, <1>3, <1>4, <1>5, <1>6 DEF Next, Step

LEMMA StoreShapesStep == TypeOK /\ [Next]_vars => StoreShapes'
<1> SUFFICES ASSUME TypeOK, [Next]_vars PROVE StoreShapes'
  OBVIOUS
<1> USE BoundsAssumption, IdsAssumption
    DEF TypeOK, StoreShapes, Stored, Puts, stored, indexes, outside, Fault, Maybe
<1>1. CASE Restart
  BY <1>1 DEF Restart
<1>2. ASSUME NEW t \in Threads, Begin(t) PROVE StoreShapes'
  BY <1>2 DEF Begin, BeginPut, BeginGet, BeginDelete, Call
<1>3. ASSUME NEW t \in Threads, Put(t) PROVE StoreShapes'
  <2>1. CASE PutMeta(t)
    BY <2>1 DEF PutMeta, CallOK, ThreadShapes
  <2>2. CASE PutMetaFails(t)
    BY <2>2 DEF PutMetaFails, CallOK, ThreadShapes
  <2>3. CASE PutData(t)
    BY <2>3 DEF PutData, CallOK, ThreadShapes
  <2>4. CASE PutDataFails(t)
    BY <2>4 DEF PutDataFails, CallOK, ThreadShapes
  <2>5. CASE Rollback(t)
    BY <2>5 DEF Rollback, CallOK, ThreadShapes
  <2>6. CASE RollbackFails(t)
    BY <2>6 DEF RollbackFails, CallOK, ThreadShapes
  <2>7. CASE BloomAdd(t)
    BY <2>7 DEF BloomAdd, CallOK, ThreadShapes
  <2>8. CASE IndexAdd(t)
    BY <2>8 DEF IndexAdd, CallOK, ThreadShapes
  <2>9. CASE IndexAddFull(t)
    BY <2>9 DEF IndexAddFull, CallOK, ThreadShapes
  <2>10. CASE BloomSetBits(t)
    BY <2>10 DEF BloomSetBits, StoreShapes, stored, outside
  <2> QED
    BY <1>3, <2>1, <2>2, <2>3, <2>4, <2>5, <2>6, <2>7, <2>8, <2>9, <2>10 DEF Put
<1>4. ASSUME NEW t \in Threads, Get(t) PROVE StoreShapes'
  <2>1. CASE MightExist(t)
    BY <2>1 DEF MightExist, CallOK, ThreadShapes
  <2>2. CASE GetMeta(t)
    BY <2>2 DEF GetMeta, CallOK, ThreadShapes
  <2>3. CASE GetData(t)
    BY <2>3 DEF GetData, CallOK, ThreadShapes
  <2>4. CASE ReadFails(t)
    BY <2>4 DEF ReadFails, CallOK, ThreadShapes
  <2> QED
    BY <1>4, <2>1, <2>2, <2>3, <2>4 DEF Get
<1>5. ASSUME NEW t \in Threads, Delete(t) PROVE StoreShapes'
  <2>1. CASE DeleteManyRaises(t)
    BY <2>1 DEF DeleteManyRaises, CallOK, ThreadShapes
  <2>2. CASE DeleteManyReturns(t)
    BY <2>2 DEF DeleteManyReturns, CallOK, ThreadShapes
  <2>3. CASE IndexRemove(t)
    BY <2>3 DEF IndexRemove, CallOK, ThreadShapes
  <2>4. CASE Exists(t)
    BY <2>4 DEF Exists, CallOK, ThreadShapes
  <2>5. CASE ExistsFails(t)
    BY <2>5 DEF ExistsFails, CallOK, ThreadShapes
  <2>6. CASE DeleteMeta(t)
    BY <2>6 DEF DeleteMeta, CallOK, ThreadShapes
  <2>7. CASE DeleteMetaFails(t)
    BY <2>7 DEF DeleteMetaFails, CallOK, ThreadShapes
  <2>8. ASSUME NEW key \in {"meta", "data"}, DeleteKey(t, key) PROVE StoreShapes'
    BY <2>8 DEF DeleteKey, CallOK, ThreadShapes
  <2>9. ASSUME NEW key \in {"meta", "data"}, DeleteKeyError(t, key) PROVE StoreShapes'
    BY <2>9 DEF DeleteKeyError, CallOK, ThreadShapes
  <2> QED
    BY <1>5, <2>1, <2>2, <2>3, <2>4, <2>5, <2>6, <2>7, <2>8, <2>9 DEF Delete
<1>6. CASE UNCHANGED vars
  BY <1>6 DEF vars
<1>7. QED
  BY <1>1, <1>2, <1>3, <1>4, <1>5, <1>6 DEF Next, Step

LEMMA CallOKStep == TypeOK /\ [Next]_vars => \A u \in Threads : CallOK(u)'
<1> SUFFICES ASSUME TypeOK, [Next]_vars, NEW u \in Threads PROVE CallOK(u)'
  OBVIOUS
<1> USE DEF TypeOK, ThreadShapes, Labels, Writing, Puts, Gets, Deletes, CallOK, Goto, Keep, Return, Raise, locals
<1>1. CASE Restart
  BY <1>1 DEF Restart
<1>2. ASSUME NEW t \in Threads, Begin(t) PROVE CallOK(u)'
  BY <1>2 DEF Begin, BeginPut, BeginGet, BeginDelete, Call, Ids
<1>3. ASSUME NEW t \in Threads, Put(t) PROVE CallOK(u)'
  <2>1. CASE PutMeta(t)
    BY <2>1, IdsAssumption DEF PutMeta, StoreShapes, Stored, Ids
  <2>2. CASE PutMetaFails(t)
    BY <2>2, IdsAssumption DEF PutMetaFails, StoreShapes, Stored, Ids
  <2>3. CASE PutData(t)
    BY <2>3, IdsAssumption DEF PutData, StoreShapes, Stored, Ids
  <2>4. CASE PutDataFails(t)
    BY <2>4, IdsAssumption DEF PutDataFails, StoreShapes, Stored, Ids
  <2>5. CASE Rollback(t)
    BY <2>5, IdsAssumption DEF Rollback, StoreShapes, Stored, Ids
  <2>6. CASE RollbackFails(t)
    BY <2>6, IdsAssumption DEF RollbackFails, StoreShapes, Stored, Ids
  <2>7. CASE BloomAdd(t)
    BY <2>7, IdsAssumption DEF BloomAdd, StoreShapes, Stored, Ids
  <2>8. CASE IndexAdd(t)
    BY <2>8, IdsAssumption DEF IndexAdd, StoreShapes, Stored, Ids
  <2>9. CASE IndexAddFull(t)
    BY <2>9, IdsAssumption DEF IndexAddFull, StoreShapes, Stored, Ids
  <2>10. CASE BloomSetBits(t)
    BY <2>10 DEF BloomSetBits, CallOK, ThreadShapes, locals
  <2> QED
    BY <1>3, <2>1, <2>2, <2>3, <2>4, <2>5, <2>6, <2>7, <2>8, <2>9, <2>10 DEF Put
<1>4. ASSUME NEW t \in Threads, Get(t) PROVE CallOK(u)'
  <2>1. CASE MightExist(t)
    BY <2>1, IdsAssumption DEF MightExist, StoreShapes, Stored, Ids
  <2>2. CASE GetMeta(t)
    BY <2>2, IdsAssumption DEF GetMeta, StoreShapes, Stored, Ids
  <2>3. CASE GetData(t)
    BY <2>3, IdsAssumption DEF GetData, StoreShapes, Stored, Ids
  <2>4. CASE ReadFails(t)
    BY <2>4, IdsAssumption DEF ReadFails, StoreShapes, Stored, Ids
  <2> QED
    BY <1>4, <2>1, <2>2, <2>3, <2>4 DEF Get
<1>5. ASSUME NEW t \in Threads, Delete(t) PROVE CallOK(u)'
  <2>1. CASE DeleteManyRaises(t)
    BY <2>1, IdsAssumption DEF DeleteManyRaises, StoreShapes, Stored, Ids
  <2>2. CASE DeleteManyReturns(t)
    BY <2>2, IdsAssumption DEF DeleteManyReturns, StoreShapes, Stored, Ids
  <2>3. CASE IndexRemove(t)
    BY <2>3, IdsAssumption DEF IndexRemove, StoreShapes, Stored, Ids
  <2>4. CASE Exists(t)
    BY <2>4, IdsAssumption DEF Exists, StoreShapes, Stored, Ids
  <2>5. CASE ExistsFails(t)
    BY <2>5, IdsAssumption DEF ExistsFails, StoreShapes, Stored, Ids
  <2>6. CASE DeleteMeta(t)
    BY <2>6, IdsAssumption DEF DeleteMeta, StoreShapes, Stored, Ids
  <2>7. CASE DeleteMetaFails(t)
    BY <2>7, IdsAssumption DEF DeleteMetaFails, StoreShapes, Stored, Ids
  <2>8. ASSUME NEW key \in {"meta", "data"}, DeleteKey(t, key) PROVE CallOK(u)'
    BY <2>8, IdsAssumption DEF DeleteKey, StoreShapes, Stored, Ids
  <2>9. ASSUME NEW key \in {"meta", "data"}, DeleteKeyError(t, key) PROVE CallOK(u)'
    BY <2>9, IdsAssumption DEF DeleteKeyError, StoreShapes, Stored, Ids
  <2> QED
    BY <1>5, <2>1, <2>2, <2>3, <2>4, <2>5, <2>6, <2>7, <2>8, <2>9 DEF Delete
<1>6. CASE UNCHANGED vars
  BY <1>6 DEF vars
<1>7. QED
  BY <1>1, <1>2, <1>3, <1>4, <1>5, <1>6 DEF Next, Step

\* The store, the metadata and every thread stay well typed, and a thread inside
\* a call always holds what the next request of that call needs.
THEOREM TypeCorrect == Spec => []TypeOK
<1>1. TypeOK /\ [Next]_vars => TypeOK'
  BY ThreadShapesStep, StoreShapesStep, CallOKStep DEF TypeOK
<1>2. QED
  BY TypeOKInit, <1>1, PTL DEF Spec

-----------------------------------------------------------------------------
(* What a step of one thread may do to what the others rely on.             *)

\* A step of t moves no other thread and touches only the object of its call,
\* and only if that call writes.
StepIsLocal(t) ==
    /\ arg' = arg
    /\ pc[t] # "idle"
    /\ \A u \in Threads \ {t} :
          /\ pc'[u] = pc[u] /\ val'[u] = val[u] /\ got'[u] = got[u]
          /\ todo'[u] = todo[u] /\ count'[u] = count[u] /\ out'[u] = out[u]
    /\ pc'[t] \in IF pc[t] \in Writing THEN Writing \cup {"idle"} ELSE Gets \cup {"idle"}
    /\ \A i \in Ids : \/ pc[t] \in Writing /\ arg[t] = i
                      \/ meta'[i] = meta[i] /\ data'[i] = data[i] /\ (i \in index <=> i \in index')
    /\ bloom \subseteq bloom'
    /\ restarts' = restarts

LEMMA StepLocal == \A t \in Threads : TypeOK /\ Step(t) => StepIsLocal(t)
<1> SUFFICES ASSUME TypeOK, NEW u \in Threads, Step(u) PROVE StepIsLocal(u)
  OBVIOUS
<1> USE DEF TypeOK, StoreShapes, ThreadShapes, StepIsLocal, Labels, Writing, Puts, Gets, Deletes,
            Goto, Keep, Return, Raise, Fault, Maybe, locals, stored, indexes, outside
<1>3. ASSUME NEW t \in Threads, Put(t) PROVE StepIsLocal(t)
  <2>1. CASE PutMeta(t)
    BY <2>1 DEF PutMeta
  <2>2. CASE PutMetaFails(t)
    BY <2>2 DEF PutMetaFails
  <2>3. CASE PutData(t)
    BY <2>3 DEF PutData
  <2>4. CASE PutDataFails(t)
    BY <2>4 DEF PutDataFails
  <2>5. CASE Rollback(t)
    BY <2>5 DEF Rollback
  <2>6. CASE RollbackFails(t)
    BY <2>6 DEF RollbackFails
  <2>7. CASE BloomAdd(t)
    BY <2>7 DEF BloomAdd
  <2>8. CASE IndexAdd(t)
    BY <2>8 DEF IndexAdd
  <2>9. CASE IndexAddFull(t)
    BY <2>9 DEF IndexAddFull
  <2>10. CASE BloomSetBits(t)
    BY <2>10 DEF BloomSetBits
  <2> QED
    BY <1>3, <2>1, <2>2, <2>3, <2>4, <2>5, <2>6, <2>7, <2>8, <2>9, <2>10 DEF Put
<1>4. ASSUME NEW t \in Threads, Get(t) PROVE StepIsLocal(t)
  <2>1. CASE MightExist(t)
    BY <2>1 DEF MightExist
  <2>2. CASE GetMeta(t)
    BY <2>2 DEF GetMeta
  <2>3. CASE GetData(t)
    BY <2>3 DEF GetData
  <2>4. CASE ReadFails(t)
    BY <2>4 DEF ReadFails
  <2> QED
    BY <1>4, <2>1, <2>2, <2>3, <2>4 DEF Get
<1>5. ASSUME NEW t \in Threads, Delete(t) PROVE StepIsLocal(t)
  <2>1. CASE DeleteManyRaises(t)
    BY <2>1 DEF DeleteManyRaises
  <2>2. CASE DeleteManyReturns(t)
    BY <2>2 DEF DeleteManyReturns
  <2>3. CASE IndexRemove(t)
    BY <2>3 DEF IndexRemove
  <2>4. CASE Exists(t)
    BY <2>4 DEF Exists
  <2>5. CASE ExistsFails(t)
    BY <2>5 DEF ExistsFails
  <2>6. CASE DeleteMeta(t)
    BY <2>6 DEF DeleteMeta
  <2>7. CASE DeleteMetaFails(t)
    BY <2>7 DEF DeleteMetaFails
  <2>8. ASSUME NEW key \in {"meta", "data"}, DeleteKey(t, key) PROVE StepIsLocal(t)
    BY <2>8 DEF DeleteKey
  <2>9. ASSUME NEW key \in {"meta", "data"}, DeleteKeyError(t, key) PROVE StepIsLocal(t)
    BY <2>9 DEF DeleteKeyError
  <2> QED
    BY <1>5, <2>1, <2>2, <2>3, <2>4, <2>5, <2>6, <2>7, <2>8, <2>9 DEF Delete
<1>6. QED
  BY <1>3, <1>4, <1>5 DEF Step

-----------------------------------------------------------------------------
(* The store is wait-free.                                                  *)

\* The order of the places of a call.
LEMMA Places ==
    /\ Left["idle"] = 0
    /\ \A p \in {"rollback", "index_add", "get_data", "index_remove", "delete_meta"} : Left[p] = 1
    /\ \A p \in {"bloom_add", "get_meta", "delete_many", "exists"} : Left[p] = 2
    /\ \A p \in {"put_data", "might_exist"} : Left[p] = 3
    /\ Left["put_meta"] = 4
BY DEF Left, Labels, Gets, Writing, Puts, Deletes

\* A return ends the call.
LEMMA ReturnGetsOn ==
    ASSUME TypeOK, NEW t \in Threads, pc[t] # "idle", NEW o, Return(t, o)
    PROVE  GetsOn(t)
<1>1. pc'[t] = "idle" /\ pc[t] \in Labels
  BY DEF TypeOK, ThreadShapes, Return
<1>2. Left[pc[t]] > 0
  BY <1>1, Places DEF Labels, Gets, Writing, Puts, Deletes
<1>3. QED
  BY <1>1, <1>2, Places DEF GetsOn

\* Each step of a call brings it closer to its end, or is the setting of a bit that was set.
LEMMA StepGetsOn == ASSUME TypeOK, NEW t \in Threads, Step(t) PROVE GetsOn(t) \/ UNCHANGED vars
<1> USE DEF TypeOK, ThreadShapes, locals
<1>1. ASSUME Put(t) PROVE GetsOn(t) \/ UNCHANGED vars
  <2>1. CASE PutMeta(t)
    BY <2>1, Places DEF PutMeta, Goto, GetsOn
  <2>2. CASE PutMetaFails(t) \/ Rollback(t) \/ RollbackFails(t) \/ IndexAdd(t) \/ IndexAddFull(t)
    BY <2>2, ReturnGetsOn DEF PutMetaFails, Rollback, RollbackFails, IndexAdd, IndexAddFull, Raise
  <2>3. CASE PutData(t) \/ PutDataFails(t)
    BY <2>3, Places DEF PutData, PutDataFails, Goto, GetsOn
  <2>4. CASE BloomSetBits(t)
    BY <2>4 DEF BloomSetBits, GetsOn, vars, stored, outside
  <2>5. CASE BloomAdd(t)
    <3>1. CASE Goto(t, "index_add")
      BY <2>5, <3>1, Places DEF BloomAdd, Goto, GetsOn
    <3>2. CASE Return(t, Outcome("put"))
      BY <2>5, <3>2, ReturnGetsOn DEF BloomAdd
    <3>3. QED
      BY <2>5, <3>1, <3>2 DEF BloomAdd
  <2>6. QED
    BY <1>1, <2>1, <2>2, <2>3, <2>4, <2>5 DEF Put
<1>2. ASSUME Get(t) PROVE GetsOn(t)
  <2>1. CASE MightExist(t)
    <3>1. CASE Goto(t, "get_meta")
      BY <2>1, <3>1, Places DEF MightExist, Goto, GetsOn
    <3>2. CASE Return(t, Outcome("missing"))
      BY <2>1, <3>2, ReturnGetsOn DEF MightExist
    <3>3. QED
      BY <2>1, <3>1, <3>2 DEF MightExist
  <2>2. CASE GetMeta(t)
    <3>1. CASE Keep(t, meta[arg[t]], "get_data")
      BY <2>2, <3>1, Places DEF GetMeta, Keep, GetsOn
    <3>2. CASE \E o : Return(t, o)
      BY <2>2, <3>2, ReturnGetsOn DEF GetMeta
    <3>3. QED
      BY <2>2, <3>1, <3>2 DEF GetMeta
  <2>3. CASE GetData(t) \/ ReadFails(t)
    BY <2>3, ReturnGetsOn DEF GetData, ReadFails, Raise
  <2>4. QED
    BY <1>2, <2>1, <2>2, <2>3 DEF Get
<1>3. ASSUME Delete(t) PROVE GetsOn(t)
  <2>1. ASSUME NEW key \in {"meta", "data"}, DeleteKey(t, key) \/ DeleteKeyError(t, key) PROVE GetsOn(t)
    <3>1. todo'[t] = todo[t] \ {key} /\ key \in todo[t] /\ pc'[t] = pc[t]
      BY <2>1 DEF DeleteKey, DeleteKeyError
    <3>2. QED
      BY <3>1 DEF GetsOn
  <2>2. CASE DeleteManyRaises(t) \/ IndexRemove(t) \/ DeleteMeta(t) \/ DeleteMetaFails(t)
    BY <2>2, ReturnGetsOn DEF DeleteManyRaises, IndexRemove, DeleteMeta, DeleteMetaFails, Raise
  <2>3. CASE DeleteManyReturns(t)
    <3>1. CASE Goto(t, "index_remove")
      BY <2>3, <3>1, Places DEF DeleteManyReturns, Goto, GetsOn
    <3>2. CASE Return(t, Outcome("not_deleted"))
      BY <2>3, <3>2, ReturnGetsOn DEF DeleteManyReturns
    <3>3. QED
      BY <2>3, <3>1, <3>2 DEF DeleteManyReturns
  <2>4. CASE Exists(t) \/ ExistsFails(t)
    BY <2>4, Places DEF Exists, ExistsFails, Keep, GetsOn
  <2>5. QED
    BY <1>3, <2>1, <2>2, <2>3, <2>4 DEF Delete
<1>4. QED
  BY <1>1, <1>2, <1>3 DEF Step

\* A step of another thread, and a call that begins, leave the locals of a call alone.
LEMMA OthersLeaveLocals ==
    ASSUME TypeOK, Next, NEW t \in Threads, pc[t] # "idle", ~Step(t)
    PROVE  GetsOn(t) \/ UNCHANGED <<pc[t], arg[t], val[t], got[t], todo[t], count[t], out[t]>>
<1>1. CASE Restart
  <2>1. pc'[t] = "idle" /\ pc[t] \in Labels
    BY <1>1 DEF Restart, TypeOK, ThreadShapes
  <2>2. Left[pc[t]] > 0
    BY <2>1, Places DEF Labels, Gets, Writing, Puts, Deletes
  <2>3. QED
    BY <2>1, <2>2, Places DEF GetsOn
<1>2. ASSUME NEW u \in Threads, Begin(u)
      PROVE  UNCHANGED <<pc[t], arg[t], val[t], got[t], todo[t], count[t], out[t]>>
  <2>1. u # t
    BY <1>2 DEF Begin, BeginPut, BeginGet, BeginDelete, Call
  <2>2. QED
    BY <1>2, <2>1 DEF Begin, BeginPut, BeginGet, BeginDelete, Call, TypeOK, ThreadShapes
<1>3. ASSUME NEW u \in Threads, Step(u)
      PROVE  UNCHANGED <<pc[t], arg[t], val[t], got[t], todo[t], count[t], out[t]>>
  <2>1. u # t /\ StepIsLocal(u)
    BY <1>3, StepLocal
  <2>2. QED
    BY <2>1 DEF StepIsLocal
<1>4. QED
  BY <1>1, <1>2, <1>3 DEF Next

\* The store is wait-free: every step of a call brings it closer to its end, whatever fails and however
\* often, and no step of another thread sends it back.
THEOREM CallsAreWaitFree == Spec => CallsGetOn
<1>1. TypeOK /\ [Next]_vars =>
        [\A t \in Threads : pc[t] # "idle" =>
            \/ GetsOn(t)
            \/ ~Step(t) /\ UNCHANGED <<pc[t], arg[t], val[t], got[t], todo[t], count[t], out[t]>>]_vars
  <2>1. ASSUME TypeOK, Next, ~UNCHANGED vars, NEW t \in Threads, pc[t] # "idle"
        PROVE  \/ GetsOn(t)
               \/ ~Step(t) /\ UNCHANGED <<pc[t], arg[t], val[t], got[t], todo[t], count[t], out[t]>>
    <3>1. CASE Step(t)
      BY <2>1, <3>1, StepGetsOn
    <3>2. CASE ~Step(t)
      BY <2>1, <3>2, OthersLeaveLocals
    <3>3. QED
      BY <3>1, <3>2
  <2>2. QED
    BY <2>1
<1>2. QED
  BY <1>1, TypeCorrect, PTL DEF Spec, CallsGetOn

-----------------------------------------------------------------------------
(* An acknowledged put stays readable.                                      *)

\* Two writing calls never overlap on an exclusive id.
Exclusion ==
    \A t, u \in Threads :
        /\ pc[t] \in Writing /\ pc[u] \in Writing
        /\ arg[t] = arg[u] /\ arg[t] \in ExclusiveIds
        => t = u

\* What a put has done when it reaches each of its steps.
PutProgress(t) ==
    /\ pc[t] \in {"put_data", "bloom_add", "index_add"} => meta[arg[t]] = val[t]
    /\ pc[t] \in {"bloom_add", "index_add"} /\ arg[t] \in PairIds => data[arg[t]] = val[t]
    /\ pc[t] = "index_add" => arg[t] \in bloom

Quiet == \A i \in ExclusiveIds : live[i] # NoVersion => NoWriterOf(i)

IInv ==
    /\ TypeOK
    /\ live \in [Ids -> Stored]
    /\ Exclusion
    /\ \A t \in Threads : arg[t] \in ExclusiveIds => PutProgress(t)
    /\ Quiet
    /\ AcknowledgedPutIsReadable

\* The thread that moves carries its put one step further, and a put that is
\* acknowledged has left its object readable.
LEMMA PutAdvances ==
    ASSUME TypeOK, NEW t \in Threads, PutProgress(t), Step(t),
           NEW i, i = arg[t], NEW v, v = val[t]
    PROVE  /\ PutProgress(t)'
           /\ pc[t] \in Writing /\ pc'[t] = "idle" /\ out'[t].kind = "put" => Readable(i, v)'
<1> DEFINE Goal == PutProgress(t)' /\ (pc[t] \in Writing /\ pc'[t] = "idle" /\ out'[t].kind = "put" => Readable(i, v)')
<1> SUFFICES Goal
  OBVIOUS
<1> USE DEF TypeOK, StoreShapes, ThreadShapes, PutProgress, Readable, Labels, Writing, Puts, Gets, Deletes,
            Goto, Keep, Return, Raise, Outcome, Fault, Maybe, locals, stored, indexes, outside
<1>3. CASE Put(t)
  <2>1. CASE PutMeta(t)
    BY <2>1, IdsAssumption DEF PutMeta
  <2>2. CASE PutMetaFails(t)
    BY <2>2 DEF PutMetaFails
  <2>3. CASE PutData(t)
    BY <2>3 DEF PutData
  <2>4. CASE PutDataFails(t)
    BY <2>4 DEF PutDataFails
  <2>5. CASE Rollback(t)
    BY <2>5 DEF Rollback
  <2>6. CASE RollbackFails(t)
    BY <2>6 DEF RollbackFails
  <2>7. CASE BloomAdd(t)
    BY <2>7, IdsAssumption DEF BloomAdd
  <2>8. CASE IndexAdd(t)
    BY <2>8 DEF IndexAdd
  <2>9. CASE IndexAddFull(t)
    BY <2>9 DEF IndexAddFull
  <2>10. CASE BloomSetBits(t)
    BY <2>10 DEF BloomSetBits
  <2> QED
    BY <1>3, <2>1, <2>2, <2>3, <2>4, <2>5, <2>6, <2>7, <2>8, <2>9, <2>10 DEF Put
<1>4. CASE Get(t)
  <2>1. CASE MightExist(t)
    BY <2>1 DEF MightExist
  <2>2. CASE GetMeta(t)
    BY <2>2 DEF GetMeta, Object, CallOK
  <2>3. CASE GetData(t)
    BY <2>3 DEF GetData, Object, CallOK
  <2>4. CASE ReadFails(t)
    BY <2>4 DEF ReadFails
  <2> QED
    BY <1>4, <2>1, <2>2, <2>3, <2>4 DEF Get
<1>5. CASE Delete(t)
  <2>1. CASE DeleteManyRaises(t)
    BY <2>1 DEF DeleteManyRaises
  <2>2. CASE DeleteManyReturns(t)
    BY <2>2 DEF DeleteManyReturns
  <2>3. CASE IndexRemove(t)
    BY <2>3 DEF IndexRemove
  <2>4. CASE Exists(t)
    BY <2>4 DEF Exists
  <2>5. CASE ExistsFails(t)
    BY <2>5 DEF ExistsFails
  <2>6. CASE DeleteMeta(t)
    BY <2>6 DEF DeleteMeta
  <2>7. CASE DeleteMetaFails(t)
    BY <2>7 DEF DeleteMetaFails
  <2>8. ASSUME NEW key \in {"meta", "data"}, DeleteKey(t, key) PROVE Goal
    BY <2>8 DEF DeleteKey
  <2>9. ASSUME NEW key \in {"meta", "data"}, DeleteKeyError(t, key) PROVE Goal
    BY <2>9 DEF DeleteKeyError
  <2> QED
    BY <1>5, <2>1, <2>2, <2>3, <2>4, <2>5, <2>6, <2>7, <2>8, <2>9 DEF Delete
<1>6. QED
  BY <1>3, <1>4, <1>5 DEF Step

LEMMA IInvInit == HInit => IInv
<1> SUFFICES ASSUME HInit PROVE IInv
  OBVIOUS
<1>1. TypeOK
  BY TypeOKInit DEF HInit
<1>2. \A t \in Threads : pc[t] = "idle"
  BY DEF HInit, Init
<1>3. QED
  BY <1>1, <1>2, IdsAssumption
  DEF IInv, HInit, Exclusion, PutProgress, Quiet, AcknowledgedPutIsReadable, Stored, Writing, Puts, Deletes

\* A caller begins: nothing is stored or indexed, and what it is about to write
\* is no longer the version of an acknowledged put.
LEMMA IInvBegin ==
    ASSUME IInv, TypeOK', NEW t \in Threads, Begin(t), RememberLive
    PROVE  IInv'
<1> USE DEF IInv
<1>1. /\ UNCHANGED <<meta, data, bloom, index, restarts>>
      /\ \A u \in Threads \ {t} : pc'[u] = pc[u] /\ arg'[u] = arg[u] /\ val'[u] = val[u]
      /\ pc[t] = "idle" /\ pc'[t] \in {"put_meta", "might_exist", "delete_many", "exists"}
      /\ pc'[t] \in Writing /\ arg'[t] \in ExclusiveIds => NoWriterOf(arg'[t])
      /\ arg'[t] \in Ids
  BY DEF TypeOK, ThreadShapes, Begin, BeginPut, BeginGet, BeginDelete, Call, MayWrite, stored, indexes,
         Writing, Puts, Deletes
<1>2. live' = [i \in Ids |-> IF pc'[t] \in Writing /\ arg'[t] = i THEN NoVersion ELSE live[i]]
  <2>1. \A u \in Threads, i \in Ids : BeganWriting(u, i) <=> u = t /\ pc'[t] \in Writing /\ arg'[t] = i
    BY <1>1 DEF BeganWriting, Began, Writing, Puts, Deletes
  <2>2. \A u \in Threads, i \in Ids : ~Answered(u, i, "put")
    BY <1>1 DEF Answered, Returned
  <2>3. QED
    BY <1>1, <2>1, <2>2 DEF RememberLive, Restarted
<1>3. live' \in [Ids -> Stored]
  BY <1>2 DEF Stored
<1>4. Exclusion'
  BY <1>1 DEF Exclusion, NoWriterOf
<1>5. ASSUME NEW u \in Threads, arg'[u] \in ExclusiveIds PROVE PutProgress(u)'
  BY <1>1, <1>5 DEF PutProgress
<1>6. ASSUME NEW i \in ExclusiveIds, live'[i] # NoVersion PROVE NoWriterOf(i)' /\ Readable(i, live[i])'
  <2>1. live'[i] = live[i] /\ ~(pc'[t] \in Writing /\ arg'[t] = i)
    BY <1>2, <1>6, IdsAssumption
  <2>2. NoWriterOf(i) /\ Readable(i, live[i])
    BY <1>6, <2>1 DEF Quiet, AcknowledgedPutIsReadable
  <2>3. NoWriterOf(i)'
    BY <1>1, <2>1, <2>2 DEF NoWriterOf
  <2>4. Readable(i, live[i])'
    BY <1>1, <2>1, <2>2 DEF Readable
  <2>5. QED
    BY <2>3, <2>4
<1>7. QED
  BY <1>3, <1>4, <1>5, <1>6 DEF Quiet, AcknowledgedPutIsReadable

\* A thread inside a call moves: on an exclusive id it is the only writer, so
\* the others keep their progress and the acknowledged objects stay as they are.
LEMMA IInvMove ==
    ASSUME IInv, TypeOK', NEW t \in Threads, Step(t), RememberLive
    PROVE  IInv'
<1> USE DEF IInv
<1>1. StepIsLocal(t)
  BY StepLocal
<1>2. PICK i \in Ids : i = arg[t]
  BY DEF TypeOK, ThreadShapes
<1>3. PICK v \in Stored : v = val[t]
  BY DEF TypeOK, ThreadShapes
<1>4. i \in ExclusiveIds =>
        /\ PutProgress(t)'
        /\ pc[t] \in Writing /\ pc'[t] = "idle" /\ out'[t].kind = "put" => Readable(i, v)'
  BY <1>2, <1>3, PutAdvances
<1>5. live' = [j \in Ids |-> IF Answered(t, j, "put") THEN v ELSE live[j]]
  <2>1. \A u \in Threads, j \in Ids : ~BeganWriting(u, j)
    BY <1>1 DEF StepIsLocal, BeganWriting, Began
  <2>2. \A u \in Threads, j \in Ids : Answered(u, j, "put") => u = t
    BY <1>1 DEF StepIsLocal, Answered, Returned
  <2>3. ~Restarted
    BY <1>1 DEF StepIsLocal, Restarted
  <2>4. QED
    BY <1>3, <2>1, <2>2, <2>3 DEF RememberLive
<1>6. live' \in [Ids -> Stored]
  BY <1>5
<1>7. \A u \in Threads : pc'[u] \in Writing => pc[u] \in Writing
  BY <1>1 DEF StepIsLocal, Writing, Puts, Gets, Deletes
<1>8. Exclusion'
  BY <1>1, <1>7 DEF Exclusion, StepIsLocal
<1>9. ASSUME NEW u \in Threads, arg'[u] \in ExclusiveIds PROVE PutProgress(u)'
  <2>1. CASE u = t
    BY <1>1, <1>2, <1>4, <1>9, <2>1 DEF StepIsLocal
  <2>2. CASE u # t /\ pc[u] \in Puts
    <3>1. ~(pc[t] \in Writing /\ arg[t] = arg[u])
      BY <1>1, <1>9, <2>2 DEF Exclusion, StepIsLocal, Writing
    <3>2. PutProgress(u) /\ arg[u] \in Ids
      BY <1>1, <1>9 DEF StepIsLocal, TypeOK, ThreadShapes
    <3>3. QED
      BY <1>1, <2>2, <3>1, <3>2 DEF PutProgress, StepIsLocal
  <2>3. CASE u # t /\ pc[u] \notin Puts
    BY <1>1, <2>3 DEF PutProgress, StepIsLocal, Puts
  <2>4. QED
    BY <2>1, <2>2, <2>3
<1>10. ASSUME NEW j \in ExclusiveIds, live'[j] # NoVersion PROVE NoWriterOf(j)' /\ Readable(j, live[j])'
  <2>1. CASE Answered(t, j, "put")
    <3>1. j = i /\ pc[t] \in Writing /\ pc'[t] = "idle" /\ out'[t].kind = "put"
      BY <1>2, <2>1 DEF Answered, Returned
    <3>2. live'[j] = v
      BY <1>5, <2>1, IdsAssumption
    <3>3. NoWriterOf(j)'
      BY <1>1, <1>2, <1>7, <3>1 DEF NoWriterOf, Exclusion, StepIsLocal, Writing, Puts, Deletes
    <3>4. QED
      BY <1>4, <3>1, <3>2, <3>3 DEF Readable
  <2>2. CASE ~Answered(t, j, "put")
    <3>1. live'[j] = live[j]
      BY <1>5, <2>2, IdsAssumption
    <3>2. NoWriterOf(j) /\ Readable(j, live[j])
      BY <1>10, <3>1 DEF Quiet, AcknowledgedPutIsReadable
    <3>3. NoWriterOf(j)'
      BY <1>1, <1>7, <3>2 DEF NoWriterOf, StepIsLocal
    <3>4. Readable(j, live[j])'
      <4>1. meta'[j] = meta[j] /\ data'[j] = data[j] /\ (j \in index => j \in index')
        BY <1>1, <3>2, IdsAssumption DEF NoWriterOf, StepIsLocal
      <4>2. bloom \subseteq bloom'
        BY <1>1 DEF StepIsLocal
      <4>3. QED
        BY <3>1, <3>2, <4>1, <4>2 DEF Readable
    <3>5. QED
      BY <3>1, <3>3, <3>4 DEF Readable
  <2>3. QED
    BY <2>1, <2>2
<1>11. QED
  BY <1>6, <1>8, <1>9, <1>10 DEF Quiet, AcknowledgedPutIsReadable

LEMMA IInvStep == IInv /\ [HNext]_hvars => IInv'
<1> SUFFICES ASSUME IInv, [HNext]_hvars PROVE IInv'
  OBVIOUS
<1>1. TypeOK'
  <2>1. TypeOK /\ [Next]_vars
    BY DEF IInv, HNext, hvars
  <2>2. QED
    BY <2>1, ThreadShapesStep, StoreShapesStep, CallOKStep DEF TypeOK
<1>2. CASE Restart /\ RememberLive
  <2>1. \A t \in Threads : pc'[t] = "idle"
    BY <1>2 DEF Restart
  <2>2. live' = [i \in Ids |-> NoVersion]
    BY <1>2, BoundsAssumption DEF RememberLive, Restarted, Restart, IInv, TypeOK, StoreShapes
  <2>3. QED
    BY <1>1, <2>1, <2>2, IdsAssumption
    DEF IInv, Exclusion, PutProgress, Quiet, AcknowledgedPutIsReadable, Stored, Writing, Puts, Deletes
<1>3. ASSUME NEW t \in Threads, Begin(t), RememberLive PROVE IInv'
  BY <1>1, <1>3, IInvBegin
<1>4. ASSUME NEW t \in Threads, Step(t), RememberLive PROVE IInv'
  BY <1>1, <1>4, IInvMove
<1>5. CASE UNCHANGED hvars
  BY <1>1, <1>5
  DEF IInv, hvars, vars, Exclusion, PutProgress, Quiet, AcknowledgedPutIsReadable, NoWriterOf, Readable
<1>6. QED
  BY <1>2, <1>3, <1>4, <1>5 DEF HNext, Next

\* On ids whose writers do not overlap, an acknowledged put stays readable and
\* searchable until the next writing call on the id begins or the process
\* restarts, for any number of threads, ids, versions, faults and restarts.
THEOREM AcknowledgedPutStaysReadable == HSpec => []AcknowledgedPutIsReadable
<1>1. IInv => AcknowledgedPutIsReadable
  BY DEF IInv
<1>2. QED
  BY <1>1, IInvInit, IInvStep, PTL DEF HSpec

-----------------------------------------------------------------------------
(* Searches name stored objects.                                            *)

\* A delete of i that has removed a key, and will remove the entry of i.
Removing(t, i) ==
    /\ arg[t] = i
    /\ \/ pc[t] = "index_remove"
       \/ pc[t] = "delete_many" /\ count[t] > 0

\* The state of an entry that no writing call has left behind by raising.
EntryOK(i) == Complete(i) \/ \E t \in Threads : Removing(t, i)

EntriesOwned ==
    /\ hit \subseteq Ids
    /\ \A i \in (index \cap ExclusiveIds) \ hit : EntryOK(i)

\* A step of the writer of i keeps its entry in order, unless the call raises; a
\* call that answers "put" or "deleted" leaves it in order whatever it found.
LEMMA EntryKept ==
    ASSUME TypeOK, NEW t \in Threads, PutProgress(t), Step(t), pc[t] \in Writing,
           NEW i \in Ids, i = arg[t],
           i \in index',
           ~(pc'[t] = "idle" /\ out'[t].kind = "raised"),
           \/ i \in index => Complete(i) \/ Removing(t, i)
           \/ pc'[t] = "idle" /\ out'[t].kind \in {"put", "deleted"}
    PROVE  Complete(i)' \/ Removing(t, i)'
<1> DEFINE Goal == Complete(i)' \/ Removing(t, i)'
<1> SUFFICES Goal
  OBVIOUS
<1> USE DEF TypeOK, StoreShapes, ThreadShapes, PutProgress, Complete, Removing, Labels, Writing, Puts, Gets, Deletes,
            Goto, Keep, Return, Raise, Outcome, Fault, Maybe, locals, stored, indexes, outside
<1>0. i \in IndexedIds /\ i \in PairIds /\ NoVersion \notin Versions /\ i \notin MetaIds
  <2>1. index' \subseteq IndexedIds
    BY StoreShapesStep DEF Next
  <2> QED
    BY <2>1, IdsAssumption
<1>3. CASE Put(t)
  <2>1. CASE PutMeta(t)
    BY <1>0, <2>1 DEF PutMeta, CallOK
  <2>2. CASE PutMetaFails(t)
    BY <2>2 DEF PutMetaFails
  <2>3. CASE PutData(t)
    BY <1>0, <2>3 DEF PutData, CallOK
  <2>4. CASE PutDataFails(t)
    BY <1>0, <2>4 DEF PutDataFails, CallOK
  <2>5. CASE Rollback(t)
    BY <2>5 DEF Rollback
  <2>6. CASE RollbackFails(t)
    BY <2>6 DEF RollbackFails
  <2>7. CASE BloomAdd(t)
    BY <1>0, <2>7 DEF BloomAdd, CallOK
  <2>8. CASE IndexAdd(t)
    BY <1>0, <2>8 DEF IndexAdd, CallOK
  <2>9. CASE IndexAddFull(t)
    BY <2>9 DEF IndexAddFull
  <2>10. CASE BloomSetBits(t)
    BY <1>0, <2>10 DEF BloomSetBits, CallOK
  <2> QED
    BY <1>3, <2>1, <2>2, <2>3, <2>4, <2>5, <2>6, <2>7, <2>8, <2>9, <2>10 DEF Put
<1>4. CASE Get(t)
  BY <1>4 DEF Get, MightExist, GetMeta, GetData, ReadFails
<1>5. CASE Delete(t)
  <2>1. CASE DeleteManyRaises(t)
    BY <2>1 DEF DeleteManyRaises
  <2>2. CASE DeleteManyReturns(t)
    BY <2>2 DEF DeleteManyReturns
  <2>3. CASE IndexRemove(t)
    BY <2>3 DEF IndexRemove
  <2>4. CASE Exists(t)
    BY <1>0, <2>4 DEF Exists, CallOK
  <2>5. CASE ExistsFails(t)
    BY <1>0, <2>5 DEF ExistsFails, CallOK
  <2>6. CASE DeleteMeta(t)
    BY <1>0, <2>6 DEF DeleteMeta, CallOK
  <2>7. CASE DeleteMetaFails(t)
    BY <1>0, <2>7 DEF DeleteMetaFails, CallOK
  <2>8. ASSUME NEW key \in {"meta", "data"}, DeleteKey(t, key) PROVE Goal
    BY <1>0, <2>8 DEF DeleteKey, Present
  <2>9. ASSUME NEW key \in {"meta", "data"}, DeleteKeyError(t, key) PROVE Goal
    BY <2>9 DEF DeleteKeyError
  <2> QED
    BY <1>5, <2>1, <2>2, <2>3, <2>4, <2>5, <2>6, <2>7, <2>8, <2>9 DEF Delete
<1>6. QED
  BY <1>3, <1>4, <1>5 DEF Step

LEMMA EntriesBegin ==
    ASSUME IInv, EntriesOwned, NEW t \in Threads, Begin(t), RememberHit
    PROVE  EntriesOwned'
<1>1. /\ UNCHANGED <<meta, data, index>>
      /\ \A u \in Threads \ {t} : pc'[u] = pc[u] /\ arg'[u] = arg[u] /\ count'[u] = count[u]
      /\ pc[t] = "idle" /\ pc'[t] # "idle"
  BY DEF IInv, TypeOK, ThreadShapes, Begin, BeginPut, BeginGet, BeginDelete, Call, stored, indexes
<1>2. hit' = hit
  <2>1. \A u \in Threads, i \in Ids, kind \in {"raised", "put", "deleted"} : ~Answered(u, i, kind)
    BY <1>1 DEF Answered, Returned
  <2>2. QED
    BY <2>1 DEF RememberHit, EntriesOwned
<1>3. QED
  BY <1>1, <1>2 DEF EntriesOwned, EntryOK, Complete, Removing

LEMMA EntriesMove ==
    ASSUME IInv, EntriesOwned, NEW t \in Threads, Step(t), RememberHit
    PROVE  EntriesOwned'
<1> SUFFICES ASSUME NEW i \in (index' \cap ExclusiveIds) \ hit' PROVE EntryOK(i)'
  BY DEF EntriesOwned, RememberHit
<1> USE DEF IInv
<1>1. StepIsLocal(t) /\ i \in Ids /\ arg[t] \in Ids /\ TypeOK
  BY StepLocal, IdsAssumption DEF TypeOK, ThreadShapes
<1>2. \A u \in Threads, kind \in {"put", "deleted", "raised"} :
         Answered(u, i, kind) <=> u = t /\ pc'[t] = "idle" /\ arg[t] = i /\ pc[t] \in Writing /\ out'[t].kind = kind
  BY <1>1 DEF StepIsLocal, Answered, Returned, Restarted
<1>3. ~Answered(t, i, "raised") /\ (i \notin hit \/ Answered(t, i, "put") \/ Answered(t, i, "deleted"))
  BY <1>1, <1>2 DEF RememberHit
<1>4. CASE pc[t] \in Writing /\ arg[t] = i
  <2>1. PutProgress(t)
    BY <1>4
  <2>2. i \in index /\ i \notin hit => Complete(i) \/ Removing(t, i)
    <3>1. SUFFICES ASSUME i \in index, i \notin hit PROVE Complete(i) \/ Removing(t, i)
      OBVIOUS
    <3>2. \A u \in Threads : Removing(u, i) => u = t
      BY <1>4 DEF Removing, Exclusion, Writing, Deletes
    <3>3. QED
      BY <3>1, <3>2 DEF EntriesOwned, EntryOK
  <2>3. Complete(i)' \/ Removing(t, i)'
    BY <1>1, <1>2, <1>3, <1>4, <2>1, <2>2, EntryKept
  <2>4. QED
    BY <2>3 DEF EntryOK
<1>5. CASE ~(pc[t] \in Writing /\ arg[t] = i)
  <2>1. i \in index \ hit /\ meta'[i] = meta[i] /\ data'[i] = data[i]
    BY <1>1, <1>2, <1>3, <1>5 DEF StepIsLocal
  <2>2. EntryOK(i)
    BY <2>1 DEF EntriesOwned
  <2>3. \A u \in Threads : Removing(u, i) => Removing(u, i)'
    BY <1>1, <1>5 DEF StepIsLocal, Removing, Writing, Deletes
  <2>4. QED
    BY <2>1, <2>2, <2>3 DEF EntryOK, Complete
<1>6. QED
  BY <1>4, <1>5

LEMMA EntriesStep == IInv /\ EntriesOwned /\ [HNext]_hvars => EntriesOwned'
<1> SUFFICES ASSUME IInv, EntriesOwned, [HNext]_hvars PROVE EntriesOwned'
  OBVIOUS
<1>1. hit' \subseteq Ids
  BY DEF HNext, RememberHit, hvars, EntriesOwned
<1>2. CASE Restart
  BY <1>1, <1>2 DEF Restart, EntriesOwned
<1>3. ASSUME NEW t \in Threads, Begin(t), RememberHit PROVE EntriesOwned'
  BY <1>3, EntriesBegin
<1>4. ASSUME NEW t \in Threads, Step(t), RememberHit PROVE EntriesOwned'
  BY <1>4, EntriesMove
<1>5. CASE UNCHANGED hvars
  BY <1>5 DEF hvars, vars, EntriesOwned, EntryOK, Complete, Removing
<1>6. QED
  BY <1>1, <1>2, <1>3, <1>4, <1>5 DEF HNext, Next

\* On ids whose writers do not overlap, every entry of the prefix tree and of the
\* HNSW index names an object that is in the backend, outside writing calls and
\* unless the last of them raised: no delete_*, whatever S3 counts and whichever
\* of its keys S3 refuses, leaves an entry behind, and no put_* adds one early.
THEOREM SearchesNameStoredObjects == HSpec => []SearchFindsStored
<1>1. HInit => EntriesOwned
  BY DEF HInit, Init, EntriesOwned
<1>2. IInv /\ EntriesOwned => SearchFindsStored
  <2>1. SUFFICES ASSUME EntriesOwned, NEW i \in (index \cap ExclusiveIds) \ hit, NoWriterOf(i)
                 PROVE  Complete(i)
    BY DEF SearchFindsStored
  <2>2. \A t \in Threads : ~Removing(t, i)
    BY <2>1 DEF NoWriterOf, Removing, Writing, Deletes
  <2>3. QED
    BY <2>1, <2>2 DEF EntriesOwned, EntryOK
<1>3. QED
  BY <1>1, <1>2, IInvInit, IInvStep, EntriesStep, PTL DEF HSpec

-----------------------------------------------------------------------------
(* A search result always passes the Bloom check of the get that follows.   *)

BitsBeforeEntry ==
    /\ SearchHitsPassBloom
    /\ \A t \in Threads : pc[t] = "index_add" => arg[t] \in bloom

LEMMA BitsBeforeEntryStep == TypeOK /\ BitsBeforeEntry /\ [Next]_vars => BitsBeforeEntry'
<1> SUFFICES ASSUME TypeOK, BitsBeforeEntry, [Next]_vars PROVE BitsBeforeEntry'
  OBVIOUS
<1> USE DEF TypeOK, ThreadShapes, BitsBeforeEntry, SearchHitsPassBloom,
            Goto, Keep, Return, Raise, locals, stored, indexes
<1>1. CASE Restart
  BY <1>1 DEF Restart
<1>2. ASSUME NEW t \in Threads, Begin(t) PROVE BitsBeforeEntry'
  BY <1>2 DEF Begin, BeginPut, BeginGet, BeginDelete, Call
<1>3. ASSUME NEW t \in Threads, Put(t) PROVE BitsBeforeEntry'
  <2>1. CASE PutMeta(t)
    BY <2>1 DEF PutMeta
  <2>2. CASE PutMetaFails(t)
    BY <2>2 DEF PutMetaFails
  <2>3. CASE PutData(t)
    BY <2>3 DEF PutData
  <2>4. CASE PutDataFails(t)
    BY <2>4 DEF PutDataFails
  <2>5. CASE Rollback(t)
    BY <2>5 DEF Rollback
  <2>6. CASE RollbackFails(t)
    BY <2>6 DEF RollbackFails
  <2>7. CASE BloomAdd(t)
    BY <2>7 DEF BloomAdd
  <2>8. CASE IndexAdd(t)
    BY <2>8 DEF IndexAdd
  <2>9. CASE IndexAddFull(t)
    BY <2>9 DEF IndexAddFull
  <2>10. CASE BloomSetBits(t)
    BY <2>10 DEF BloomSetBits
  <2> QED
    BY <1>3, <2>1, <2>2, <2>3, <2>4, <2>5, <2>6, <2>7, <2>8, <2>9, <2>10 DEF Put
<1>4. ASSUME NEW t \in Threads, Get(t) PROVE BitsBeforeEntry'
  <2>1. CASE MightExist(t)
    BY <2>1 DEF MightExist
  <2>2. CASE GetMeta(t)
    BY <2>2 DEF GetMeta
  <2>3. CASE GetData(t)
    BY <2>3 DEF GetData
  <2>4. CASE ReadFails(t)
    BY <2>4 DEF ReadFails
  <2> QED
    BY <1>4, <2>1, <2>2, <2>3, <2>4 DEF Get
<1>5. ASSUME NEW t \in Threads, Delete(t) PROVE BitsBeforeEntry'
  <2>1. CASE DeleteManyRaises(t)
    BY <2>1 DEF DeleteManyRaises
  <2>2. CASE DeleteManyReturns(t)
    BY <2>2 DEF DeleteManyReturns
  <2>3. CASE IndexRemove(t)
    BY <2>3 DEF IndexRemove
  <2>4. CASE Exists(t)
    BY <2>4 DEF Exists
  <2>5. CASE ExistsFails(t)
    BY <2>5 DEF ExistsFails
  <2>6. CASE DeleteMeta(t)
    BY <2>6 DEF DeleteMeta
  <2>7. CASE DeleteMetaFails(t)
    BY <2>7 DEF DeleteMetaFails
  <2>8. ASSUME NEW key \in {"meta", "data"}, DeleteKey(t, key) PROVE BitsBeforeEntry'
    BY <2>8 DEF DeleteKey
  <2>9. ASSUME NEW key \in {"meta", "data"}, DeleteKeyError(t, key) PROVE BitsBeforeEntry'
    BY <2>9 DEF DeleteKeyError
  <2> QED
    BY <1>5, <2>1, <2>2, <2>3, <2>4, <2>5, <2>6, <2>7, <2>8, <2>9 DEF Delete
<1>6. CASE UNCHANGED vars
  BY <1>6 DEF vars
<1>7. QED
  BY <1>1, <1>2, <1>3, <1>4, <1>5, <1>6 DEF Next, Step

\* The metadata sets the Bloom bits of an object before it enters the prefix tree
\* or the HNSW index and never clears them alone, so the existence check of get_*
\* rejects no id that a search returned.
THEOREM SearchHitsAlwaysPassBloom == Spec => []SearchHitsPassBloom
<1>1. Init => BitsBeforeEntry
  BY DEF Init, BitsBeforeEntry, SearchHitsPassBloom
<1>2. BitsBeforeEntry => SearchHitsPassBloom
  BY DEF BitsBeforeEntry
<1>3. QED
  BY <1>1, <1>2, BitsBeforeEntryStep, TypeCorrect, PTL DEF Spec

-----------------------------------------------------------------------------
(* The store implements AtomicStore, as long as the process does not        *)
(* restart and the callers put each pair once and do not overlap writing    *)
(* calls on it.  Workflows, steps, artifacts and traces are not restricted. *)

CallersAssumption ==
    /\ PairIds \subseteq WriteOnceIds
    /\ PairIds \subseteq ExclusiveIds
    /\ MaxRestarts = 0

\* The version v of i is somewhere: stored, in a put or in a get.
Holds(i, v) ==
    \/ meta[i] = v
    \/ data[i] = v
    \/ \E t \in Threads : /\ arg[t] = i
                          /\ \/ pc[t] \in Puts /\ val[t] = v
                             \/ pc[t] = "get_data" /\ got[t] = v

\* A pair that is put once has one version.
OneVersion ==
    \A i \in PairIds, v, w \in Versions :
        /\ Holds(i, v) /\ Holds(i, w) => v = w
        /\ i \notin used => ~Holds(i, v)

\* What a delete has done once it counts a key: the object is not whole.
DeleteProgress(t) ==
    arg[t] \in PairIds /\ (pc[t] = "index_remove" \/ (pc[t] = "delete_many" /\ count[t] > 0))
        => meta[arg[t]] = NoVersion \/ data[arg[t]] = NoVersion

\* A call that ends resets the count of delete_many.
IdleCount == \A t \in Threads : pc[t] = "idle" => count[t] = 0

\* The writing calls no other overlaps are alone on their id, and as far as
\* their step says; on a pair every writing call is one of them.
CleanCalls ==
    /\ \A t \in clean : t \in Threads /\ pc[t] \in Writing /\ PutProgress(t) /\ DeleteProgress(t)
    /\ \A t \in clean, u \in Threads : u # t /\ pc[u] \in Writing => arg[u] # arg[t]
    /\ \A t \in Threads : pc[t] \in Writing /\ arg[t] \in PairIds => t \in clean

\* A thread past the Bloom filter is past it for good.
PastBloom == \A t \in Threads : pc[t] \in {"get_meta", "get_data", "index_add"} => arg[t] \in bloom

\* What is stored and not visible yet is of a put in progress or of one that raised.
HiddenIsJustified ==
    \A i \in Ids \ bloom : meta[i] # NoVersion =>
        \/ <<i, meta[i]>> \in doubt
        \/ \E t \in Threads : pc[t] \in Puts /\ arg[t] = i /\ val[t] = meta[i]

\* A get in progress has seen what the object is now, and what it will answer.
ReadsAreSeen ==
    \A t \in Threads :
        /\ pc[t] \in Gets => Seen(arg[t]) \in seen[t]
        /\ pc[t] = "get_data" /\ data[arg[t]] # NoVersion => got[t] \in seen[t]

RInv ==
    TypeOK /\ OneVersion /\ IdleCount /\ CleanCalls /\ PastBloom /\ HiddenIsJustified /\ ReadsAreSeen

\* What a step of t may do to its own call and to the object of the call.
StepKind(t) ==
    /\ \/ pc'[t] = "idle"
       \/ pc[t] \in Puts /\ pc'[t] \in Puts
       \/ pc[t] \in Gets /\ pc'[t] \in Gets
       \/ pc[t] \in Deletes /\ pc'[t] \in Deletes
    /\ pc'[t] # "idle" => val'[t] = val[t] /\ out'[t] = out[t]
    /\ pc'[t] = "idle" => count'[t] = 0
    /\ pc'[t] = "get_meta" => arg[t] \in bloom
    /\ pc'[t] = "get_data" => pc[t] = "get_meta" /\ got'[t] = meta[arg[t]]
    /\ pc'[t] = "index_add" => arg[t] \in bloom'
    /\ bloom' # bloom => pc[t] = "bloom_add"
    /\ used' = used
    /\ pc[t] = "put_data" => meta' = meta
    /\ meta'[arg[t]] \in {meta[arg[t]], NoVersion} \cup {v \in {val[t]} : pc[t] \in Puts}
    /\ data'[arg[t]] \in {data[arg[t]], NoVersion} \cup {v \in {val[t]} : pc[t] = "put_data"}

\* How a call may end.
EndKind(t) ==
    pc'[t] = "idle" =>
        \/ out'[t] = Outcome("raised")
        \/ /\ pc[t] \in Puts /\ out'[t] = Outcome("put")
           /\ arg[t] \in bloom' \/ pc[t] = "index_add"
        \/ pc[t] \in Deletes /\ out'[t] = Outcome("not_deleted")
        \/ out'[t] = Outcome("deleted") /\ \/ pc[t] = "index_remove"
                                           \/ pc[t] = "delete_meta" /\ meta'[arg[t]] = NoVersion
        \/ /\ out'[t] = Outcome("missing")
           /\ \/ pc[t] = "might_exist" /\ arg[t] \notin bloom
              \/ pc[t] = "get_meta" /\ meta[arg[t]] = NoVersion
              \/ pc[t] = "get_data" /\ data[arg[t]] = NoVersion
        \/ /\ pc[t] = "get_meta" /\ arg[t] \notin PairIds /\ meta[arg[t]] # NoVersion
           /\ out'[t] = Object(meta[arg[t]], NoVersion)
        \/ /\ pc[t] = "get_data" /\ data[arg[t]] # NoVersion
           /\ out'[t] = Object(got[t], data[arg[t]])

LEMMA StepKinds == \A t \in Threads : TypeOK /\ Step(t) => StepKind(t) /\ EndKind(t)
<1> SUFFICES ASSUME TypeOK, NEW t \in Threads, Step(t) PROVE StepKind(t) /\ EndKind(t)
  OBVIOUS
<1> USE DEF TypeOK, StoreShapes, ThreadShapes, StepKind, EndKind, Labels, Writing, Puts, Gets, Deletes,
            Goto, Keep, Return, Raise, Fault, Maybe, locals, stored, indexes, outside
<1>1. CASE Put(t)
  <2>1. CASE PutMeta(t)
    BY <2>1 DEF PutMeta
  <2>2. CASE PutMetaFails(t)
    BY <2>2 DEF PutMetaFails
  <2>3. CASE PutData(t)
    BY <2>3 DEF PutData
  <2>4. CASE PutDataFails(t)
    BY <2>4 DEF PutDataFails
  <2>5. CASE Rollback(t)
    BY <2>5 DEF Rollback
  <2>6. CASE RollbackFails(t)
    BY <2>6 DEF RollbackFails
  <2>7. CASE BloomSetBits(t)
    BY <2>7 DEF BloomSetBits
  <2>8. CASE BloomAdd(t)
    BY <2>8 DEF BloomAdd
  <2>9. CASE IndexAdd(t)
    BY <2>9 DEF IndexAdd
  <2>10. CASE IndexAddFull(t)
    BY <2>10 DEF IndexAddFull
  <2> QED
    BY <1>1, <2>1, <2>2, <2>3, <2>4, <2>5, <2>6, <2>7, <2>8, <2>9, <2>10 DEF Put
<1>2. CASE Get(t)
  <2>1. CASE MightExist(t)
    BY <2>1 DEF MightExist
  <2>2. CASE GetMeta(t)
    BY <2>2 DEF GetMeta
  <2>3. CASE GetData(t)
    BY <2>3 DEF GetData
  <2>4. CASE ReadFails(t)
    BY <2>4 DEF ReadFails
  <2> QED
    BY <1>2, <2>1, <2>2, <2>3, <2>4 DEF Get
<1>3. CASE Delete(t)
  <2>1. CASE DeleteManyRaises(t)
    BY <2>1 DEF DeleteManyRaises
  <2>2. CASE DeleteManyReturns(t)
    BY <2>2 DEF DeleteManyReturns
  <2>3. CASE IndexRemove(t)
    BY <2>3 DEF IndexRemove
  <2>4. CASE Exists(t)
    BY <2>4 DEF Exists
  <2>5. CASE ExistsFails(t)
    BY <2>5 DEF ExistsFails
  <2>6. CASE DeleteMeta(t)
    BY <2>6 DEF DeleteMeta
  <2>7. CASE DeleteMetaFails(t)
    BY <2>7 DEF DeleteMetaFails
  <2>8. ASSUME NEW key \in {"meta", "data"}, DeleteKey(t, key) PROVE StepKind(t) /\ EndKind(t)
    BY <2>8 DEF DeleteKey
  <2>9. ASSUME NEW key \in {"meta", "data"}, DeleteKeyError(t, key) PROVE StepKind(t) /\ EndKind(t)
    BY <2>9 DEF DeleteKeyError
  <2> QED
    BY <1>3, <2>1, <2>2, <2>3, <2>4, <2>5, <2>6, <2>7, <2>8, <2>9 DEF Delete
<1>4. QED
  BY <1>1, <1>2, <1>3 DEF Step

LEMMA HoldsStep ==
    ASSUME TypeOK, NEW t \in Threads, Step(t), NEW i \in PairIds, NEW v \in Versions, Holds(i, v)'
    PROVE  Holds(i, v)
<1> USE IdsAssumption DEF TypeOK, StoreShapes, ThreadShapes, Holds, Labels, Writing, Puts, Gets, Deletes,
            Goto, Keep, Return, Raise, Fault, Maybe, Ids, locals, stored, indexes, outside
<1>1. CASE Put(t)
  <2>1. CASE PutMeta(t)
    BY <2>1 DEF PutMeta
  <2>2. CASE PutMetaFails(t)
    BY <2>2 DEF PutMetaFails
  <2>3. CASE PutData(t)
    BY <2>3 DEF PutData
  <2>4. CASE PutDataFails(t)
    BY <2>4 DEF PutDataFails
  <2>5. CASE Rollback(t)
    BY <2>5 DEF Rollback
  <2>6. CASE RollbackFails(t)
    BY <2>6 DEF RollbackFails
  <2>7. CASE BloomSetBits(t)
    BY <2>7 DEF BloomSetBits
  <2>8. CASE BloomAdd(t)
    BY <2>8 DEF BloomAdd
  <2>9. CASE IndexAdd(t)
    BY <2>9 DEF IndexAdd
  <2>10. CASE IndexAddFull(t)
    BY <2>10 DEF IndexAddFull
  <2> QED
    BY <1>1, <2>1, <2>2, <2>3, <2>4, <2>5, <2>6, <2>7, <2>8, <2>9, <2>10 DEF Put
<1>2. CASE Get(t)
  <2>1. CASE MightExist(t)
    BY <2>1 DEF MightExist
  <2>2. CASE GetMeta(t)
    BY <2>2 DEF GetMeta
  <2>3. CASE GetData(t)
    BY <2>3 DEF GetData
  <2>4. CASE ReadFails(t)
    BY <2>4 DEF ReadFails
  <2> QED
    BY <1>2, <2>1, <2>2, <2>3, <2>4 DEF Get
<1>3. CASE Delete(t)
  <2>1. CASE DeleteManyRaises(t)
    BY <2>1 DEF DeleteManyRaises
  <2>2. CASE DeleteManyReturns(t)
    BY <2>2 DEF DeleteManyReturns
  <2>3. CASE IndexRemove(t)
    BY <2>3 DEF IndexRemove
  <2>4. CASE Exists(t)
    BY <2>4 DEF Exists
  <2>5. CASE ExistsFails(t)
    BY <2>5 DEF ExistsFails
  <2>6. CASE DeleteMeta(t)
    BY <2>6 DEF DeleteMeta
  <2>7. CASE DeleteMetaFails(t)
    BY <2>7 DEF DeleteMetaFails
  <2>8. ASSUME NEW key \in {"meta", "data"}, DeleteKey(t, key) PROVE Holds(i, v)
    BY <2>8 DEF DeleteKey
  <2>9. ASSUME NEW key \in {"meta", "data"}, DeleteKeyError(t, key) PROVE Holds(i, v)
    BY <2>9 DEF DeleteKeyError
  <2> QED
    BY <1>3, <2>1, <2>2, <2>3, <2>4, <2>5, <2>6, <2>7, <2>8, <2>9 DEF Delete
<1>4. QED
  BY <1>1, <1>2, <1>3 DEF Step

LEMMA OneVersionStep ==
    TypeOK /\ OneVersion /\ PairIds \subseteq WriteOnceIds /\ [Next]_vars => OneVersion'
<1> SUFFICES ASSUME TypeOK, OneVersion, PairIds \subseteq WriteOnceIds, [Next]_vars,
                    NEW i \in PairIds, NEW v \in Versions, NEW w \in Versions
             PROVE  /\ Holds(i, v)' /\ Holds(i, w)' => v = w
                    /\ i \notin used' => ~Holds(i, v)'
  BY DEF OneVersion
<1>1. ASSUME NEW t \in Threads, Begin(t)
      PROVE  /\ Holds(i, v)' /\ Holds(i, w)' => v = w
             /\ i \notin used' => ~Holds(i, v)'
  <2>1. /\ UNCHANGED <<meta, data, got>>
        /\ \A u \in Threads \ {t} : pc'[u] = pc[u] /\ arg'[u] = arg[u] /\ val'[u] = val[u]
        /\ pc[t] = "idle" /\ pc'[t] # "get_data" /\ used \subseteq used'
    BY <1>1 DEF TypeOK, ThreadShapes, Begin, BeginPut, BeginGet, BeginDelete, Call, stored
  <2>2. pc'[t] \in Puts /\ arg'[t] = i => i \notin used /\ i \in used'
    BY <1>1 DEF TypeOK, ThreadShapes, Begin, BeginPut, BeginGet, BeginDelete, Call, Puts
  <2>3. ASSUME NEW x \in Versions, Holds(i, x)' PROVE Holds(i, x) \/ (pc'[t] \in Puts /\ arg'[t] = i /\ val'[t] = x)
    BY <2>1, <2>3 DEF Holds
  <2>4. CASE pc'[t] \in Puts /\ arg'[t] = i
    BY <2>2, <2>3, <2>4 DEF OneVersion
  <2>5. CASE ~(pc'[t] \in Puts /\ arg'[t] = i)
    BY <2>1, <2>3, <2>5 DEF OneVersion
  <2>6. QED
    BY <2>4, <2>5
<1>2. ASSUME NEW t \in Threads, Step(t)
      PROVE  /\ Holds(i, v)' /\ Holds(i, w)' => v = w
             /\ i \notin used' => ~Holds(i, v)'
  <2>1. used' = used
    BY <1>2, StepKinds DEF StepKind
  <2>2. \A x \in Versions : Holds(i, x)' => Holds(i, x)
    BY <1>2, HoldsStep
  <2>3. QED
    BY <2>1, <2>2 DEF OneVersion
<1>3. CASE Restart
  <2>1. \A x \in Versions : Holds(i, x)' => Holds(i, x)
    BY <1>3 DEF Holds, Restart, stored, Puts
  <2>2. QED
    BY <1>3, <2>1 DEF OneVersion, Restart
<1>4. CASE UNCHANGED vars
  BY <1>4 DEF vars, OneVersion, Holds
<1>5. QED
  BY <1>1, <1>2, <1>3, <1>4 DEF Next

LEMMA OneVersionInit == Init => OneVersion
BY IdsAssumption DEF Init, OneVersion, Holds, Ids, Puts

LEMMA WholeStep == TypeOK /\ OneVersion /\ ReadsAreWhole /\ [Next]_vars => ReadsAreWhole'
<1> SUFFICES ASSUME TypeOK, OneVersion, ReadsAreWhole, [Next]_vars, NEW t \in Threads,
                    out'[t].kind = "object", arg'[t] \in PairIds
             PROVE  out'[t].meta = out'[t].data
  BY DEF ReadsAreWhole
<1>1. ASSUME NEW u \in Threads, Begin(u) PROVE out'[t].meta = out'[t].data
  <2>1. t # u /\ arg'[t] = arg[t] /\ out'[t] = out[t]
    BY <1>1 DEF TypeOK, ThreadShapes, Begin, BeginPut, BeginGet, BeginDelete, Call, Outcome
  <2>2. QED
    BY <2>1 DEF ReadsAreWhole
<1>2. ASSUME NEW u \in Threads, Step(u) PROVE out'[t].meta = out'[t].data
  <2>1. StepIsLocal(u) /\ StepKind(u) /\ EndKind(u)
    BY <1>2, StepLocal, StepKinds
  <2>2. CASE out'[t] = out[t]
    BY <2>1, <2>2 DEF ReadsAreWhole, StepIsLocal
  <2>3. CASE t = u /\ pc'[t] = "idle"
    <3>1. pc[t] = "get_data" /\ data[arg[t]] # NoVersion /\ out'[t] = Object(got[t], data[arg[t]])
      BY <2>1, <2>3 DEF EndKind, StepIsLocal, Outcome, Object
    <3>2. arg[t] \in PairIds /\ got[t] \in Versions /\ data[arg[t]] \in Versions
      BY <3>1 DEF TypeOK, StoreShapes, ThreadShapes, CallOK, Stored
    <3>3. Holds(arg[t], got[t]) /\ Holds(arg[t], data[arg[t]])
      BY <3>1 DEF Holds
    <3>4. QED
      BY <3>1, <3>2, <3>3 DEF OneVersion, Object
  <2>4. QED
    BY <2>1, <2>2, <2>3 DEF StepIsLocal, StepKind
<1>3. CASE Restart
  BY <1>3 DEF Restart, Outcome
<1>4. CASE UNCHANGED vars
  BY <1>4 DEF vars, ReadsAreWhole
<1>5. QED
  BY <1>1, <1>2, <1>3, <1>4 DEF Next

\* A pair that is put once (ObjectMeta draws a uuid4 for each KV block, RAG object
\* and plan) is read whole: the metadata and the tensors of the one put, whatever
\* deletes, failures and restarts come between its two requests.  The torn read of
\* store_torn_read needs an overwrite.
THEOREM PairsPutOnceAreReadWhole == PairIds \subseteq WriteOnceIds /\ Spec => []ReadsAreWhole
<1> SUFFICES ASSUME PairIds \subseteq WriteOnceIds PROVE Spec => []ReadsAreWhole
  OBVIOUS
<1>1. Init => OneVersion /\ ReadsAreWhole
  BY OneVersionInit DEF Init, ReadsAreWhole, Outcome
<1>2. TypeOK /\ OneVersion /\ [Next]_vars => OneVersion'
  BY OneVersionStep
<1>3. QED
  BY <1>1, <1>2, WholeStep, TypeCorrect, PTL DEF Spec

-----------------------------------------------------------------------------
(* Each part of RInv is kept.                                               *)

LEMMA DeleteAdvances ==
    ASSUME TypeOK, NEW t \in Threads, DeleteProgress(t), Step(t)
    PROVE  DeleteProgress(t)'
<1> USE DEF TypeOK, StoreShapes, ThreadShapes, DeleteProgress, Labels, Writing, Puts, Gets, Deletes,
            Goto, Keep, Return, Raise, Fault, Maybe, locals, stored, indexes, outside
<1>1. CASE Put(t)
  BY <1>1 DEF Put, PutMeta, PutMetaFails, PutData, PutDataFails, Rollback, RollbackFails,
              BloomSetBits, BloomAdd, IndexAdd, IndexAddFull
<1>2. CASE Get(t)
  BY <1>2 DEF Get, MightExist, GetMeta, GetData, ReadFails
<1>3. ASSUME NEW key \in {"meta", "data"}, DeleteKey(t, key) PROVE DeleteProgress(t)'
  BY <1>3 DEF DeleteKey, Present
<1>4. ASSUME NEW key \in {"meta", "data"}, DeleteKeyError(t, key) PROVE DeleteProgress(t)'
  BY <1>4 DEF DeleteKeyError
<1>5. CASE DeleteManyRaises(t) \/ DeleteManyReturns(t) \/ IndexRemove(t)
  BY <1>5 DEF DeleteManyRaises, DeleteManyReturns, IndexRemove
<1>6. CASE Exists(t) \/ ExistsFails(t) \/ DeleteMeta(t) \/ DeleteMetaFails(t)
  BY <1>6 DEF Exists, ExistsFails, DeleteMeta, DeleteMetaFails
<1>7. QED
  BY <1>1, <1>2, <1>3, <1>4, <1>5, <1>6 DEF Step, Delete

\* What the caller that begins changes.
LEMMA BeginEffect ==
    ASSUME TypeOK, NEW t \in Threads, Begin(t)
    PROVE  /\ UNCHANGED <<meta, data, bloom, index, restarts>>
           /\ \A u \in Threads \ {t} : /\ pc'[u] = pc[u] /\ arg'[u] = arg[u] /\ val'[u] = val[u]
                                       /\ got'[u] = got[u] /\ count'[u] = count[u] /\ out'[u] = out[u]
           /\ pc[t] = "idle" /\ pc'[t] \in {"put_meta", "might_exist", "delete_many", "exists"}
           /\ count'[t] = count[t] /\ out'[t] = Outcome("none")
           /\ pc'[t] \in Writing /\ arg'[t] \in ExclusiveIds => NoWriterOf(arg'[t])
           /\ arg'[t] \in Ids
           /\ pc'[t] = "put_meta" => val'[t] \in Versions
BY DEF TypeOK, ThreadShapes, Begin, BeginPut, BeginGet, BeginDelete, Call, MayWrite, stored, indexes,
       Writing, Puts, Deletes

LEMMA CleanOfBegin ==
    ASSUME TypeOK, CleanCalls, NEW t \in Threads, Begin(t), RememberClean
    PROVE  clean' = IF pc'[t] \notin Writing THEN clean
                    ELSE IF \E u \in Threads : pc[u] \in Writing /\ arg[u] = arg'[t]
                         THEN clean \ {u \in Threads \ {t} : pc[u] \in Writing /\ arg[u] = arg'[t]}
                         ELSE clean \cup {t}
<1>1. \A u \in Threads : Began(u) <=> u = t
  BY BeginEffect DEF Began
<1>2. \A u, v \in Threads : BeganWriting(u, arg'[v]) <=> u = t /\ pc'[t] \in Writing /\ arg'[t] = arg'[v]
  BY <1>1 DEF BeganWriting
<1>3. \A u \in Threads : u \in clean => u # t /\ pc[u] \in Writing
  BY BeginEffect DEF CleanCalls, Writing, Puts, Deletes
<1>4. \A u \in clean' : u \in Threads
  BY DEF RememberClean
<1>5. ASSUME NEW u \in Threads
      PROVE  u \in clean' <=> IF pc'[t] \notin Writing THEN u \in clean
                              ELSE IF u = t THEN ~\E v \in Threads : pc[v] \in Writing /\ arg[v] = arg'[t]
                              ELSE u \in clean /\ ~(pc[u] \in Writing /\ arg[u] = arg'[t])
  BY <1>1, <1>2, <1>3, BeginEffect DEF RememberClean, Writing, Puts, Deletes
<1>6. \A u \in clean : u \in Threads
  BY DEF CleanCalls
<1>7. QED
  BY <1>3, <1>4, <1>5, <1>6

LEMMA CleanOfStep ==
    ASSUME TypeOK, CleanCalls, NEW t \in Threads, Step(t), RememberClean
    PROVE  clean' = IF pc'[t] = "idle" THEN clean \ {t} ELSE clean
<1>1. StepIsLocal(t) /\ StepKind(t)
  BY StepLocal, StepKinds
<1>2. \A u \in Threads : ~Began(u)
  BY <1>1 DEF Began, StepIsLocal
<1>3. \A u, v \in Threads : ~BeganWriting(u, arg'[v])
  BY <1>2 DEF BeganWriting
<1>4. clean' = {u \in Threads : pc'[u] \in Writing /\ u \in clean}
  BY <1>2, <1>3 DEF RememberClean
<1>5. \A u \in clean : u \in Threads /\ pc[u] \in Writing
  BY DEF CleanCalls
<1>6. \A u \in clean : pc'[u] \in Writing <=> u # t \/ pc'[t] # "idle"
  BY <1>1, <1>5 DEF StepIsLocal, StepKind, Writing, Puts, Gets, Deletes
<1>7. CASE pc'[t] = "idle"
  BY <1>4, <1>5, <1>6, <1>7
<1>8. CASE pc'[t] # "idle"
  <2>1. \A u : u \in clean' <=> u \in clean
    BY <1>4, <1>5, <1>6, <1>8
  <2>2. QED
    BY <1>8, <2>1
<1>9. QED
  BY <1>7, <1>8

LEMMA CleanCallsBegin ==
    ASSUME TypeOK, IdleCount, CleanCalls, CallersAssumption, NEW t \in Threads, Begin(t), RememberClean
    PROVE  CleanCalls'
<1>1. \A u \in clean' : u \in Threads /\ (u = t => pc'[t] \in Writing) /\ (u # t => u \in clean)
  BY CleanOfBegin, BeginEffect DEF CleanCalls, Writing, Puts, Deletes
<1>2. ASSUME NEW u \in clean' PROVE pc'[u] \in Writing /\ PutProgress(u)' /\ DeleteProgress(u)'
  <2>1. CASE u = t
    <3>1. pc'[t] \in {"put_meta", "delete_many", "exists"}
      BY <1>1, <1>2, <2>1, BeginEffect DEF Writing, Puts, Deletes
    <3>2. pc'[t] = "delete_many" => ~(count'[t] > 0)
      BY BeginEffect DEF IdleCount, TypeOK, ThreadShapes
    <3>3. QED
      BY <2>1, <3>1, <3>2 DEF PutProgress, DeleteProgress, Writing, Puts, Deletes
  <2>2. CASE u # t
    BY <1>1, <1>2, <2>2, BeginEffect DEF CleanCalls, PutProgress, DeleteProgress
  <2>3. QED
    BY <2>1, <2>2
<1>3. ASSUME NEW u \in clean', NEW w \in Threads, w # u, pc'[w] \in Writing PROVE arg'[w] # arg'[u]
  BY <1>1, <1>3, CleanOfBegin, BeginEffect DEF CleanCalls, Writing, Puts, Deletes
<1>4. ASSUME NEW u \in Threads, pc'[u] \in Writing, arg'[u] \in PairIds PROVE u \in clean'
  <2>1. CASE u = t
    BY <1>4, <2>1, CleanOfBegin, BeginEffect DEF CallersAssumption, NoWriterOf
  <2>2. CASE u # t
    BY <1>4, <2>2, CleanOfBegin, BeginEffect DEF CallersAssumption, NoWriterOf, CleanCalls
  <2>3. QED
    BY <2>1, <2>2
<1>5. QED
  BY <1>1, <1>2, <1>3, <1>4 DEF CleanCalls

LEMMA CleanCallsMove ==
    ASSUME TypeOK, CleanCalls, NEW t \in Threads, Step(t), RememberClean
    PROVE  CleanCalls'
<1>1. StepIsLocal(t) /\ StepKind(t)
  BY StepLocal, StepKinds
<1>2. \A u \in clean' : u \in clean /\ u \in Threads /\ pc[u] \in Writing /\ pc'[u] \in Writing
  BY <1>1, CleanOfStep DEF CleanCalls, StepIsLocal, StepKind, Writing, Puts, Gets, Deletes
<1>3. ASSUME NEW u \in clean' PROVE PutProgress(u)' /\ DeleteProgress(u)'
  <2>1. PutProgress(u) /\ DeleteProgress(u) /\ arg[u] \in Ids
    BY <1>2 DEF CleanCalls, TypeOK, ThreadShapes
  <2>2. CASE u = t
    <3>1. PICK i \in Ids : i = arg[t]
      BY <2>1, <2>2
    <3>2. PICK v \in Stored : v = val[t]
      BY DEF TypeOK, ThreadShapes
    <3>3. PutProgress(t)'
      BY <2>1, <2>2, <3>1, <3>2, PutAdvances
    <3>4. DeleteProgress(t)'
      BY <2>1, <2>2, DeleteAdvances
    <3>5. QED
      BY <2>2, <3>3, <3>4
  <2>3. CASE u # t
    <3>1. ~(pc[t] \in Writing /\ arg[t] = arg[u])
      BY <1>2, <2>3 DEF CleanCalls
    <3>2. QED
      BY <1>1, <1>2, <2>1, <2>3, <3>1 DEF PutProgress, DeleteProgress, StepIsLocal
  <2>4. QED
    BY <2>2, <2>3
<1>4. \A u \in Threads : pc'[u] \in Writing => pc[u] \in Writing /\ arg'[u] = arg[u] /\ (u = t => pc'[t] # "idle")
  BY <1>1 DEF StepIsLocal, StepKind, Writing, Puts, Gets, Deletes
<1>5. QED
  BY <1>1, <1>2, <1>3, <1>4, CleanOfStep DEF CleanCalls, StepIsLocal

LEMMA IdleCountStep ==
    ASSUME TypeOK, IdleCount, NEW t \in Threads, Begin(t) \/ Step(t)
    PROVE  IdleCount'
<1>1. CASE Begin(t)
  BY <1>1, BeginEffect DEF IdleCount
<1>2. CASE Step(t)
  <2>1. StepIsLocal(t) /\ StepKind(t)
    BY <1>2, StepLocal, StepKinds
  <2>2. QED
    BY <2>1 DEF IdleCount, StepIsLocal, StepKind
<1>3. QED
  BY <1>1, <1>2

LEMMA PastBloomStep ==
    ASSUME TypeOK, PastBloom, [Next]_vars, ~Restart
    PROVE  PastBloom'
<1>1. ASSUME NEW t \in Threads, Begin(t) PROVE PastBloom'
  BY <1>1, BeginEffect DEF PastBloom
<1>2. ASSUME NEW t \in Threads, Step(t) PROVE PastBloom'
  <2>1. StepIsLocal(t) /\ StepKind(t)
    BY <1>2, StepLocal, StepKinds
  <2>2. QED
    BY <2>1 DEF PastBloom, StepIsLocal, StepKind
<1>3. CASE UNCHANGED vars
  BY <1>3 DEF PastBloom, vars
<1>4. QED
  BY <1>1, <1>2, <1>3 DEF Next

LEMMA HiddenStep ==
    ASSUME TypeOK, HiddenIsJustified, CleanCalls, PastBloom, [Next]_vars, ~Restart, RememberDoubt \/ UNCHANGED <<vars, doubt>>
    PROVE  HiddenIsJustified'
<1> SUFFICES ASSUME NEW i \in Ids, i \notin bloom', meta'[i] # NoVersion
             PROVE  \/ <<i, meta'[i]>> \in doubt'
                    \/ \E u \in Threads : pc'[u] \in Puts /\ arg'[u] = i /\ val'[u] = meta'[i]
  BY DEF HiddenIsJustified
<1>0. doubt \subseteq doubt'
  BY DEF RememberDoubt
<1>1. ASSUME NEW t \in Threads, Begin(t)
      PROVE  \/ <<i, meta'[i]>> \in doubt'
             \/ \E u \in Threads : pc'[u] \in Puts /\ arg'[u] = i /\ val'[u] = meta'[i]
  BY <1>0, <1>1, BeginEffect DEF HiddenIsJustified, Puts
<1>2. ASSUME NEW t \in Threads, Step(t)
      PROVE  \/ <<i, meta'[i]>> \in doubt'
             \/ \E u \in Threads : pc'[u] \in Puts /\ arg'[u] = i /\ val'[u] = meta'[i]
  <2>1. StepIsLocal(t) /\ StepKind(t) /\ EndKind(t) /\ i \notin bloom
    BY <1>2, StepLocal, StepKinds DEF StepIsLocal
  <2>2. CASE meta'[i] = meta[i] /\ <<i, meta[i]>> \in doubt
    BY <1>0, <2>2
  <2>3. ASSUME NEW u \in Threads, pc[u] \in Puts, arg[u] = i, val[u] = meta'[i]
        PROVE  \/ <<i, meta'[i]>> \in doubt'
               \/ \E w \in Threads : pc'[w] \in Puts /\ arg'[w] = i /\ val'[w] = meta'[i]
    <3>1. CASE u # t \/ pc'[u] # "idle"
      BY <2>1, <2>3, <3>1 DEF StepIsLocal, StepKind, Puts, Gets, Deletes
    <3>2. CASE u = t /\ pc'[t] = "idle"
      <4>1. out'[t] # Outcome("put")
        BY <2>1, <2>3, <3>2 DEF EndKind, PastBloom, Outcome, Object, StepIsLocal, Puts, Deletes
      <4>2. out'[t].kind = "raised" /\ Returned(t)
        BY <2>1, <2>3, <3>2, <4>1 DEF EndKind, Outcome, Returned, StepIsLocal, Restarted, Puts, Deletes
      <4>3. <<arg[t], val[t]>> \in doubt'
        BY <1>2, <2>3, <3>2, <4>2 DEF RememberDoubt, vars, Puts
      <4>4. QED
        BY <2>3, <3>2, <4>3
    <3>3. QED
      BY <3>1, <3>2
  <2>4. meta'[i] = meta[i] \/ (arg[t] = i /\ pc[t] \in Puts /\ val[t] = meta'[i])
    BY <2>1 DEF StepIsLocal, StepKind
  <2>5. QED
    BY <2>1, <2>2, <2>3, <2>4 DEF HiddenIsJustified
<1>3. CASE UNCHANGED vars
  BY <1>0, <1>3 DEF HiddenIsJustified, vars
<1>4. QED
  BY <1>1, <1>2, <1>3 DEF Next

-----------------------------------------------------------------------------
(* What a caller sees.                                                      *)

\* What a caller sees of an object is a version, or nothing.
SeenIsMeta == \A i \in Ids : Seen(i) = IF i \in bloom /\ Complete(i) THEN meta[i] ELSE NoVersion

LEMMA SeenMeta == TypeOK /\ OneVersion => SeenIsMeta
<1> SUFFICES ASSUME TypeOK, OneVersion, NEW i \in Ids
             PROVE  Seen(i) = IF i \in bloom /\ Complete(i) THEN meta[i] ELSE NoVersion
  BY DEF SeenIsMeta
<1>1. ASSUME i \in PairIds, Complete(i) PROVE data[i] = meta[i]
  BY <1>1, IdsAssumption DEF OneVersion, Holds, Complete, TypeOK, StoreShapes, Stored
<1>2. QED
  BY <1>1, IdsAssumption DEF Seen, VersionOf, Visible, Object, Outcome, Complete, Ids

LEMMA SeenMetaNext == (TypeOK /\ OneVersion)' => SeenIsMeta'
BY SeenMeta, PTL

\* Whatever a step changes is justified by a call in progress or by a put that
\* raised: the right-hand side is Atomic!Justified under the refinement mapping.
JustifiedBy(i, v) ==
    \/ v = Seen(i)
    \/ v \in Versions /\ \/ <<i, v>> \in doubt
                         \/ \E t \in Threads : pc[t] \in Puts /\ arg[t] = i /\ val[t] = v
    \/ v = NoVersion /\ \E t \in Threads : pc[t] \in Writing /\ arg[t] = i

LEMMA ChangesAreJustified ==
    ASSUME RInv, TypeOK', OneVersion', NEW t \in Threads, Step(t), NEW i \in Ids
    PROVE  JustifiedBy(i, Seen(i)')
<1> USE DEF RInv
<1>1. StepIsLocal(t) /\ StepKind(t)
  BY StepLocal, StepKinds
<1>2. Seen(i) = IF i \in bloom /\ Complete(i) THEN meta[i] ELSE NoVersion
  BY SeenMeta DEF SeenIsMeta
<1>3. Seen(i)' = IF i \in bloom' /\ Complete(i)' THEN meta'[i] ELSE NoVersion
  BY SeenMetaNext DEF SeenIsMeta
<1>4. meta[i] \in Stored /\ data[i] \in Stored /\ meta'[i] \in Stored /\ val[t] \in Stored
  BY DEF TypeOK, StoreShapes, ThreadShapes
<1>5. CASE pc[t] \in Writing /\ arg[t] = i
  <2>1. CASE Seen(i)' = NoVersion
    BY <1>5, <2>1 DEF JustifiedBy
  <2>2. CASE Seen(i)' # NoVersion /\ pc[t] \in Puts /\ meta'[i] = val[t]
    BY <1>3, <1>4, <1>5, <2>2 DEF JustifiedBy, Stored
  <2>3. CASE Seen(i)' # NoVersion /\ pc[t] \in Puts /\ meta'[i] # val[t]
    <3>1. Seen(i)' = meta[i] /\ meta[i] # NoVersion
      BY <1>1, <1>3, <1>5, <2>3 DEF StepKind
    <3>2. CASE i \notin bloom
      BY <1>4, <3>1, <3>2 DEF JustifiedBy, HiddenIsJustified, Stored
    <3>3. CASE i \in bloom /\ i \in PairIds
      <4>1. Holds(i, meta[i]) /\ Holds(i, val[t]) /\ val[t] \in Versions
        BY <1>5, <2>3 DEF Holds, TypeOK, CallOK
      <4>2. meta[i] = val[t]
        BY <1>4, <3>1, <3>3, <4>1 DEF OneVersion, Stored
      <4>3. QED
        BY <1>5, <2>3, <3>1, <4>1, <4>2 DEF JustifiedBy
    <3>4. CASE i \in bloom /\ i \notin PairIds
      BY <1>2, <3>1, <3>4 DEF JustifiedBy, Complete
    <3>5. QED
      BY <3>2, <3>3, <3>4
  <2>4. CASE Seen(i)' # NoVersion /\ pc[t] \in Deletes
    <3>1. meta'[i] = meta[i] /\ (i \in PairIds => data'[i] = data[i]) /\ bloom' = bloom
      BY <1>1, <1>3, <1>5, <2>4 DEF StepKind, Deletes, Puts, Complete
    <3>2. Seen(i)' = Seen(i)
      BY <1>2, <1>3, <3>1 DEF Complete
    <3>3. QED
      BY <3>2 DEF JustifiedBy
  <2>5. QED
    BY <1>5, <2>1, <2>2, <2>3, <2>4 DEF Writing
<1>6. CASE ~(pc[t] \in Writing /\ arg[t] = i)
  <2>1. meta'[i] = meta[i] /\ data'[i] = data[i] /\ bloom \subseteq bloom'
    BY <1>1, <1>6 DEF StepIsLocal
  <2>2. CASE i \in bloom \/ i \notin bloom' \/ ~Complete(i)
    BY <1>2, <1>3, <2>1, <2>2 DEF JustifiedBy, Complete
  <2>3. CASE i \notin bloom /\ i \in bloom' /\ Complete(i)
    <3>1. Seen(i)' = meta[i] /\ meta[i] \in Versions
      BY <1>3, <1>4, <2>1, <2>3 DEF Complete, Stored
    <3>2. QED
      BY <2>3, <3>1, IdsAssumption DEF JustifiedBy, HiddenIsJustified
  <2>4. QED
    BY <2>2, <2>3
<1>7. QED
  BY <1>5, <1>6

\* A get in progress goes on seeing what the object is and what it will answer.
LEMMA ReadsBegin ==
    ASSUME RInv, NEW t \in Threads, Begin(t), RememberSeen
    PROVE  ReadsAreSeen'
<1> SUFFICES ASSUME NEW u \in Threads
             PROVE  /\ pc'[u] \in Gets => Seen(arg[u])' \in seen'[u]
                    /\ pc'[u] = "get_data" /\ data'[arg'[u]] # NoVersion => got'[u] \in seen'[u]
  BY DEF ReadsAreSeen
<1>1. pc'[u] \in Gets => seen'[u] = (IF Began(u) THEN {} ELSE seen[u]) \cup {Seen(arg[u])'}
  BY DEF RememberSeen
<1>2. pc'[u] = "get_data" => u # t /\ data' = data /\ got'[u] = got[u] /\ arg'[u] = arg[u] /\ pc[u] = "get_data"
  BY BeginEffect DEF RInv
<1>3. QED
  BY <1>1, <1>2 DEF RInv, ReadsAreSeen, Began, Gets

LEMMA ReadsMove ==
    ASSUME RInv, TypeOK', OneVersion', NEW t \in Threads, Step(t), RememberSeen
    PROVE  ReadsAreSeen'
<1> SUFFICES ASSUME NEW u \in Threads
             PROVE  /\ pc'[u] \in Gets => Seen(arg[u])' \in seen'[u]
                    /\ pc'[u] = "get_data" /\ data'[arg'[u]] # NoVersion => got'[u] \in seen'[u]
  BY DEF ReadsAreSeen
<1> USE DEF RInv
<1>1. StepIsLocal(t) /\ StepKind(t)
  BY StepLocal, StepKinds
<1>2. PICK i \in Ids : i = arg[u] /\ i = arg'[u]
  BY <1>1 DEF StepIsLocal, TypeOK, ThreadShapes
<1>3. pc'[u] \in Gets => seen'[u] = seen[u] \cup {Seen(i)'} /\ pc[u] \in Gets
  <2>1. ~Began(u) /\ (pc'[u] \in Gets => pc[u] \in Gets)
    BY <1>1 DEF Began, StepIsLocal, StepKind, Gets, Puts, Deletes
  <2>2. Seen(arg[u])' = Seen(i)'
    BY <1>2
  <2>3. QED
    BY <2>1, <2>2 DEF RememberSeen
<1>4. ASSUME pc'[u] = "get_data", data'[i] # NoVersion PROVE got'[u] \in seen'[u]
  <2>1. CASE u = t
    <3>1. pc[u] = "get_meta" /\ got'[u] = meta[i] /\ data'[i] = data[i] /\ i \in bloom
      BY <1>1, <1>2, <1>4, <2>1 DEF StepIsLocal, StepKind, PastBloom, Gets, Writing, Puts, Deletes
    <3>2. i \in PairIds /\ got'[u] # NoVersion
      BY <1>2, <1>4, IdsAssumption DEF TypeOK, CallOK
    <3>3. Seen(i) = meta[i]
      BY <1>4, <3>1, <3>2, SeenMeta, IdsAssumption DEF SeenIsMeta, Complete, Ids
    <3>4. Seen(i) \in seen[u]
      BY <1>2, <3>1 DEF ReadsAreSeen, Gets
    <3>5. QED
      BY <1>3, <1>4, <3>1, <3>3, <3>4 DEF Gets
  <2>2. CASE u # t /\ data[i] # NoVersion
    BY <1>1, <1>2, <1>3, <1>4, <2>2 DEF StepIsLocal, ReadsAreSeen, Gets
  <2>3. CASE u # t /\ data[i] = NoVersion
    <3>1. pc[u] = "get_data" /\ got'[u] = got[u] /\ i \in PairIds /\ got[u] \in Versions /\ i \in bloom'
      BY <1>1, <1>2, <1>4, <2>3 DEF StepIsLocal, TypeOK, CallOK, PastBloom
    <3>2. pc[t] = "put_data" /\ arg[t] = i /\ data'[i] = val[t]
      BY <1>1, <1>4, <2>3 DEF StepIsLocal, StepKind
    <3>3. val[t] \in Versions /\ Holds(i, val[t]) /\ Holds(i, got[u])
      BY <1>2, <3>1, <3>2 DEF Holds, TypeOK, CallOK, Puts
    <3>4. got[u] = val[t]
      BY <3>1, <3>3 DEF OneVersion
    <3>5. meta'[i] = val[t]
      <4>1. meta[i] = val[t]
        BY <3>1, <3>2 DEF CleanCalls, PutProgress, Writing, Puts
      <4>2. QED
        BY <1>1, <3>2, <4>1 DEF StepKind
    <3>6. Seen(i)' = val[t]
      BY <1>4, <3>1, <3>3, <3>5, SeenMetaNext, IdsAssumption DEF SeenIsMeta, Complete, Ids
    <3>7. QED
      BY <1>3, <1>4, <3>1, <3>4, <3>6 DEF Gets
  <2>4. QED
    BY <2>1, <2>2, <2>3
<1>5. QED
  BY <1>2, <1>3, <1>4

LEMMA RInvInit == RInit => RInv
<1> SUFFICES ASSUME RInit PROVE RInv
  OBVIOUS
<1>1. TypeOK /\ OneVersion
  BY TypeOKInit, OneVersionInit DEF RInit
<1>2. \A t \in Threads : pc[t] = "idle" /\ count[t] = 0
  BY DEF RInit, Init
<1>3. QED
  BY <1>1, <1>2 DEF RInv, RInit, Init, IdleCount, CleanCalls, PastBloom, HiddenIsJustified, ReadsAreSeen,
     Writing, Puts, Gets, Deletes

LEMMA TypeOKNext == TypeOK /\ [Next]_vars => TypeOK'
BY ThreadShapesStep, StoreShapesStep, CallOKStep DEF TypeOK

LEMMA NoRestart == TypeOK /\ MaxRestarts = 0 => ~Restart
BY DEF TypeOK, StoreShapes, Restart

LEMMA RInvStep == CallersAssumption /\ RInv /\ [RNext]_rvars => RInv'
<1> SUFFICES ASSUME CallersAssumption, RInv, [RNext]_rvars PROVE RInv'
  OBVIOUS
<1>1. TypeOK /\ [Next]_vars /\ ~Restart
  BY NoRestart DEF RInv, RNext, rvars, CallersAssumption
<1>2. TypeOK' /\ OneVersion'
  BY <1>1, TypeOKNext, OneVersionStep DEF RInv, CallersAssumption
<1>3. PastBloom'
  BY <1>1, PastBloomStep DEF RInv
<1>4. HiddenIsJustified'
  BY <1>1, HiddenStep DEF RInv, RNext, rvars
<1>5. ASSUME NEW t \in Threads, Begin(t), RNext PROVE IdleCount' /\ CleanCalls' /\ ReadsAreSeen'
  BY <1>5, IdleCountStep, CleanCallsBegin, ReadsBegin DEF RInv, RNext
<1>6. ASSUME NEW t \in Threads, Step(t), RNext PROVE IdleCount' /\ CleanCalls' /\ ReadsAreSeen'
  BY <1>2, <1>6, IdleCountStep, CleanCallsMove, ReadsMove DEF RInv, RNext
<1>7. CASE UNCHANGED rvars
  <2>1. IdleCount' /\ CleanCalls'
    BY <1>7 DEF RInv, rvars, vars, IdleCount, CleanCalls, PutProgress, DeleteProgress
  <2>2. ReadsAreSeen'
    BY <1>7 DEF RInv, rvars, vars, ReadsAreSeen, Seen, Visible, Complete
  <2>3. QED
    BY <1>2, <1>3, <1>4, <2>1, <2>2 DEF RInv
<1>8. QED
  BY <1>1, <1>2, <1>3, <1>4, <1>5, <1>6, <1>7 DEF RInv, RNext, Next

-----------------------------------------------------------------------------
(* Every step is a step of AtomicStore.                                     *)

CallsMapped ==
    \A t \in Threads :
        /\ CallOf(t) = Atomic!NoCall <=> pc[t] = "idle"
        /\ CallOf(t).op = "put" <=> pc[t] \in Puts
        /\ CallOf(t).op = "get" <=> pc[t] \in Gets
        /\ CallOf(t).op = "delete" <=> pc[t] \in Deletes
        /\ pc[t] # "idle" => CallOf(t) \in Atomic!Calls /\ CallOf(t).id = arg[t]
        /\ pc[t] \in Puts => CallOf(t) = [op |-> "put", id |-> arg[t], ver |-> val[t]]

LEMMA CallsMap == TypeOK => CallsMapped
BY DEF TypeOK, ThreadShapes, CallOK, CallsMapped, CallOf, Atomic!NoCall, Atomic!Calls,
       Labels, Writing, Puts, Gets, Deletes

LEMMA CallsMapNext == TypeOK' => CallsMapped'
BY CallsMap, PTL

LEMMA JustifiedMeans ==
    ASSUME TypeOK, NEW i \in Ids, NEW v, JustifiedBy(i, v)
    PROVE  Atomic!Justified(i, v)
<1>1. ASSUME NEW t \in Threads, pc[t] \in Writing, arg[t] = i
      PROVE  Atomic!Writing(CallOf(t)) /\ CallOf(t).id = i
  BY <1>1, CallsMap DEF CallsMapped, Atomic!Writing, Writing, Puts, Deletes
<1>2. ASSUME NEW t \in Threads, pc[t] \in Puts, arg[t] = i, val[t] = v
      PROVE  CallOf(t) = [op |-> "put", id |-> i, ver |-> v]
  BY <1>2, CallsMap DEF CallsMapped
<1>3. QED
  BY <1>1, <1>2 DEF JustifiedBy, Atomic!Justified

LEMMA WatchHolds ==
    ASSUME TypeOK, TypeOK', RememberSeen,
           \A u \in Threads : pc'[u] \in Gets => pc[u] = "idle" \/ (pc[u] \in Gets /\ arg'[u] = arg[u])
    PROVE  Atomic!Watch
<1>1. ASSUME NEW u \in Threads
      PROVE  (IF pc'[u] \notin Gets THEN {} ELSE (IF Began(u) THEN {} ELSE seen[u]) \cup {Seen(arg[u])'})
             = (IF CallOf(u)'.op # "get" THEN {}
                ELSE IF CallOf(u).op = "get" THEN seen[u] \cup {[i \in Ids |-> Seen(i)'][CallOf(u).id]}
                ELSE {[i \in Ids |-> Seen(i)'][CallOf(u)'.id]})
  <2>1. CASE pc'[u] \notin Gets
    BY <2>1, CallsMapNext DEF CallsMapped
  <2>2. CASE pc'[u] \in Gets
    <3>1. PICK i \in Ids : i = arg'[u]
      BY DEF TypeOK, ThreadShapes
    <3>2. CallOf(u)'.op = "get" /\ CallOf(u)'.id = i /\ Seen(arg[u])' = Seen(i)'
      BY <2>2, <3>1, CallsMapNext DEF CallsMapped, Gets
    <3>3. CASE pc[u] = "idle"
      BY <2>2, <3>1, <3>2, <3>3, CallsMap DEF CallsMapped, Began, Gets
    <3>4. CASE pc[u] \in Gets /\ arg'[u] = arg[u]
      BY <2>2, <3>1, <3>2, <3>4, CallsMap DEF CallsMapped, Began, Gets
    <3>5. QED
      BY <2>2, <3>3, <3>4
  <2>3. QED
    BY <2>1, <2>2
<1>2. QED
  BY <1>1 DEF RememberSeen, Atomic!Watch

LEMMA BeginRefines ==
    ASSUME RInv, TypeOK', NEW t \in Threads, Begin(t), RememberSeen, RememberClean, RememberDoubt
    PROVE  Atomic!Next
<1> USE DEF RInv
<1>1. PICK c : c = CallOf(t)'
  OBVIOUS
<1>2. pc[t] = "idle" /\ pc'[t] # "idle" /\ \A u \in Threads \ {t} : pc'[u] = pc[u] /\ arg'[u] = arg[u]
                                              /\ val'[u] = val[u] /\ out'[u] = out[u]
  BY BeginEffect
<1>3. /\ c \in Atomic!Calls
      /\ c.id = arg'[t]
      /\ c.op \in {"put", "delete"} <=> pc'[t] \in Writing
  BY <1>1, <1>2, CallsMapNext DEF CallsMapped, Writing
<1>4. CallOf(t) = Atomic!NoCall
  BY <1>2, CallsMap DEF CallsMapped
<1>5. \A u \in Threads \ {t} : CallOf(u)' = CallOf(u) /\ ReplyOf(out[u])' = ReplyOf(out[u])
  BY <1>2 DEF CallOf
<1>6. ReplyOf(out[t])' = "none"
  BY BeginEffect DEF ReplyOf, Outcome
<1>7. \A i \in Ids : Seen(i)' = Seen(i)
  BY BeginEffect DEF Seen, Visible, Complete
<1>8. doubt' = doubt
  BY <1>2 DEF RememberDoubt, Returned
<1>9. Atomic!Watch
  BY <1>2, WatchHolds DEF Gets
<1>10. clean' = IF ~Atomic!Writing(c) THEN clean
                ELSE IF Atomic!Rivals(t, c) = {} THEN clean \cup {t}
                ELSE clean \ Atomic!Rivals(t, c)
  <2>1. Atomic!Rivals(t, c) = {u \in Threads \ {t} : pc[u] \in Writing /\ arg[u] = arg'[t]}
    <3>1. \A u \in Threads : Atomic!Writing(CallOf(u)) <=> pc[u] \in Writing
      BY CallsMap DEF CallsMapped, Atomic!Writing, Writing
    <3>2. \A u \in Threads : pc[u] \in Writing => CallOf(u).id = arg[u]
      BY CallsMap DEF CallsMapped, Writing, Puts, Deletes
    <3>3. QED
      BY <1>3, <3>1, <3>2 DEF Atomic!Rivals
  <2>2. Atomic!Writing(c) <=> pc'[t] \in Writing
    BY <1>3 DEF Atomic!Writing
  <2>3. Atomic!Rivals(t, c) = {} <=> ~\E u \in Threads : pc[u] \in Writing /\ arg[u] = arg'[t]
    BY <1>2, <2>1 DEF Writing, Puts, Deletes
  <2>4. QED
    BY <2>1, <2>2, <2>3, CleanOfBegin
<1>11. Atomic!Begin(t, c)
  <2>1. [u \in Threads |-> CallOf(u)'] = [[u \in Threads |-> CallOf(u)] EXCEPT ![t] = c]
    BY <1>1, <1>5
  <2>2. [u \in Threads |-> ReplyOf(out[u])'] = [[u \in Threads |-> ReplyOf(out[u])] EXCEPT ![t] = "none"]
    BY <1>5, <1>6
  <2>3. [i \in Ids |-> Seen(i)'] = [i \in Ids |-> Seen(i)]
    BY <1>7
  <2>4. QED
    BY <1>4, <1>8, <1>9, <1>10, <2>1, <2>2, <2>3 DEF Atomic!Begin
<1>12. QED
  BY <1>3, <1>11 DEF Atomic!Next

LEMMA DoubtOfStep ==
    ASSUME TypeOK, NEW t \in Threads, Step(t), RememberDoubt
    PROVE  doubt' = IF pc[t] \in Puts /\ pc'[t] = "idle" /\ out'[t].kind = "raised"
                    THEN doubt \cup {<<arg[t], val[t]>>} ELSE doubt
<1>1. StepIsLocal(t)
  BY StepLocal
<1>2. \A u \in Threads : Returned(u) <=> u = t /\ pc'[t] = "idle"
  BY <1>1 DEF StepIsLocal, Returned, Restarted
<1>3. QED
  BY <1>2 DEF RememberDoubt

\* A get answers what it has seen.
LEMMA AnswerIsSeen ==
    ASSUME RInv, NEW t \in Threads, EndKind(t), pc[t] \in Gets, pc'[t] = "idle"
    PROVE  ReplyOf(out'[t]) \in seen[t] \cup {"raised"}
<1> USE DEF RInv
<1>1. PICK i \in Ids : i = arg[t]
  BY DEF TypeOK, ThreadShapes
<1>2. Seen(i) \in seen[t] /\ Seen(i) = IF i \in bloom /\ Complete(i) THEN meta[i] ELSE NoVersion
  BY <1>1, SeenMeta DEF SeenIsMeta, ReadsAreSeen
<1>3. CASE out'[t] = Outcome("raised")
  BY <1>3 DEF ReplyOf, Outcome
<1>4. CASE /\ out'[t] = Outcome("missing")
           /\ \/ pc[t] = "might_exist" /\ arg[t] \notin bloom
              \/ pc[t] = "get_meta" /\ meta[arg[t]] = NoVersion
              \/ pc[t] = "get_data" /\ data[arg[t]] = NoVersion
  <2>1. pc[t] = "get_data" => i \in PairIds
    BY <1>1 DEF TypeOK, CallOK
  <2>2. Seen(i) = NoVersion
    BY <1>1, <1>2, <1>4, <2>1 DEF Complete
  <2>3. ReplyOf(out'[t]) = NoVersion
    BY <1>4 DEF ReplyOf, VersionOf, Outcome
  <2>4. QED
    BY <1>2, <2>2, <2>3
<1>5. CASE /\ pc[t] = "get_meta" /\ arg[t] \notin PairIds /\ meta[arg[t]] # NoVersion
           /\ out'[t] = Object(meta[arg[t]], NoVersion)
  <2>1. Seen(i) = meta[i]
    BY <1>1, <1>2, <1>5 DEF PastBloom, Complete
  <2>2. ReplyOf(out'[t]) = meta[i]
    BY <1>1, <1>5 DEF ReplyOf, VersionOf, Object
  <2>3. QED
    BY <1>2, <2>1, <2>2
<1>6. CASE /\ pc[t] = "get_data" /\ data[arg[t]] # NoVersion
           /\ out'[t] = Object(got[t], data[arg[t]])
  <2>1. i \in PairIds /\ got[t] \in Versions /\ data[i] \in Versions
    BY <1>1, <1>6 DEF TypeOK, StoreShapes, CallOK, Stored
  <2>2. Holds(i, got[t]) /\ Holds(i, data[i])
    BY <1>1, <1>6 DEF Holds
  <2>3. data[i] = got[t]
    BY <2>1, <2>2 DEF OneVersion
  <2>4. ReplyOf(out'[t]) = got[t]
    BY <1>1, <1>6, <2>3 DEF ReplyOf, VersionOf, Object
  <2>5. got[t] \in seen[t]
    BY <1>6 DEF ReadsAreSeen
  <2>6. QED
    BY <2>4, <2>5
<1>7. QED
  BY <1>3, <1>4, <1>5, <1>6 DEF EndKind, Puts, Gets, Deletes

\* A write that nothing opposed has taken effect when it returns.
LEMMA CleanWriteIsDone ==
    ASSUME RInv, TypeOK', OneVersion', NEW t \in clean, Step(t), pc'[t] = "idle",
           NEW i \in Ids, i = arg[t], NEW v \in Stored, v = val[t]
    PROVE  /\ out'[t].kind = "put" => Seen(i)' = v
           /\ out'[t].kind = "deleted" => Seen(i)' = NoVersion
<1> USE DEF RInv
<1>1. t \in Threads /\ pc[t] \in Writing /\ PutProgress(t) /\ DeleteProgress(t)
  BY DEF CleanCalls
<1>2. EndKind(t) /\ StepKind(t) /\ StepIsLocal(t)
  BY <1>1, StepKinds, StepLocal
<1>3. Seen(i)' = IF i \in bloom' /\ Complete(i)' THEN meta'[i] ELSE NoVersion
  BY SeenMetaNext DEF SeenIsMeta
<1>4. ASSUME out'[t].kind = "put" PROVE Seen(i)' = v
  <2>1. Readable(i, v)'
    BY <1>1, <1>4, PutAdvances
  <2>2. pc[t] \in Puts
    BY <1>2, <1>4 DEF EndKind, Outcome, Object
  <2>3. v # NoVersion
    BY <1>1, <2>2, IdsAssumption DEF TypeOK, CallOK
  <2>4. QED
    BY <1>3, <2>1, <2>3 DEF Readable, Complete
<1>5. ASSUME out'[t].kind = "deleted" PROVE Seen(i)' = NoVersion
  <2>1. pc[t] = "index_remove" \/ (pc[t] = "delete_meta" /\ meta'[i] = NoVersion)
    BY <1>2, <1>5 DEF EndKind, Outcome, Object
  <2>2. CASE pc[t] = "index_remove" /\ i \in PairIds
    <3>1. meta[i] = NoVersion \/ data[i] = NoVersion
      BY <1>1, <2>2 DEF DeleteProgress
    <3>2. meta'[i] = NoVersion \/ data'[i] = NoVersion
      BY <1>1, <1>2, <2>2, <3>1 DEF StepKind, Puts
    <3>3. QED
      BY <1>3, <2>2, <3>2 DEF Complete
  <2>3. CASE pc[t] = "delete_meta" /\ meta'[i] = NoVersion
    BY <1>3, <2>3 DEF Complete
  <2>4. QED
    BY <1>1, <2>1, <2>2, <2>3 DEF TypeOK, CallOK
<1>6. QED
  BY <1>4, <1>5

LEMMA StepRefines ==
    ASSUME RInv, TypeOK', OneVersion', NEW t \in Threads, Step(t),
           RememberSeen, RememberClean, RememberDoubt
    PROVE  Atomic!Next
<1> USE DEF RInv
<1>1. StepIsLocal(t) /\ StepKind(t) /\ EndKind(t)
  BY StepLocal, StepKinds
<1>2. PICK i \in Ids : i = arg[t]
  BY DEF TypeOK, ThreadShapes
<1>3. PICK v \in Stored : v = val[t]
  BY DEF TypeOK, ThreadShapes
<1>4. Atomic!Change
  <2>1. ASSUME NEW j \in Ids PROVE Atomic!Justified(j, Seen(j)')
    <3>1. PICK w : w = Seen(j)'
      OBVIOUS
    <3>2. JustifiedBy(j, w)
      BY <3>1, ChangesAreJustified
    <3>3. QED
      BY <3>1, <3>2, JustifiedMeans
  <2>2. QED
    BY <2>1 DEF Atomic!Change
<1>5. Atomic!Watch
  <2>1. \A u \in Threads : pc'[u] \in Gets => pc[u] \in Gets /\ arg'[u] = arg[u]
    BY <1>1 DEF StepIsLocal, StepKind, Puts, Gets, Deletes
  <2>2. QED
    BY <2>1, WatchHolds
<1>6. \A u \in Threads \ {t} : CallOf(u)' = CallOf(u) /\ ReplyOf(out[u])' = ReplyOf(out[u])
  BY <1>1 DEF CallOf, StepIsLocal
<1>7. CASE pc'[t] # "idle"
  <2>1. CallOf(t)' = CallOf(t) /\ ReplyOf(out[t])' = ReplyOf(out[t])
    BY <1>1, <1>7 DEF CallOf, StepIsLocal, StepKind, Puts, Gets, Deletes
  <2>2. [u \in Threads |-> CallOf(u)'] = [u \in Threads |-> CallOf(u)]
    BY <1>6, <2>1
  <2>3. [u \in Threads |-> ReplyOf(out[u])'] = [u \in Threads |-> ReplyOf(out[u])]
    BY <1>6, <2>1
  <2>4. clean' = clean /\ doubt' = doubt
    BY <1>7, CleanOfStep, DoubtOfStep
  <2>5. QED
    BY <1>4, <1>5, <2>2, <2>3, <2>4 DEF Atomic!Next, Atomic!Effect
<1>8. CASE pc'[t] = "idle"
  <2>1. PICK answer : answer = ReplyOf(out[t])'
    OBVIOUS
  <2>2. CallOf(t) # Atomic!NoCall /\ CallOf(t)' = Atomic!NoCall /\ CallOf(t).id = i
    BY <1>1, <1>2, <1>8, CallsMap, CallsMapNext DEF CallsMapped, StepIsLocal
  <2>3. Atomic!End(t, answer)
    <3>1. [u \in Threads |-> CallOf(u)'] = [[u \in Threads |-> CallOf(u)] EXCEPT ![t] = Atomic!NoCall]
      <4>1. PICK none : none = Atomic!NoCall
        OBVIOUS
      <4>2. CallOf(t)' = none
        BY <2>2, <4>1
      <4>3. \A u \in Threads \ {t} : CallOf(u)' = CallOf(u)
        BY <1>6
      <4>4. [u \in Threads |-> CallOf(u)'] = [[u \in Threads |-> CallOf(u)] EXCEPT ![t] = none]
        BY <4>2, <4>3
      <4>5. QED
        BY <4>1, <4>4
    <3>2. [u \in Threads |-> ReplyOf(out[u])'] = [[u \in Threads |-> ReplyOf(out[u])] EXCEPT ![t] = answer]
      BY <1>6, <2>1
    <3>3. clean' = clean \ {t}
      BY <1>8, CleanOfStep
    <3>4. QED
      BY <1>4, <1>5, <2>2, <3>1, <3>2, <3>3 DEF Atomic!End
  <2>4. doubt' = IF pc[t] \in Puts /\ out'[t].kind = "raised" THEN doubt \cup {<<i, v>>} ELSE doubt
    BY <1>2, <1>3, <1>8, DoubtOfStep
  <2>5. CASE pc[t] \in Gets
    <3>1. CallOf(t).op = "get"
      BY <2>5, CallsMap DEF CallsMapped
    <3>2. answer \in seen[t] \cup {"raised"}
      BY <1>1, <1>8, <2>1, <2>5, AnswerIsSeen
    <3>3. doubt' = doubt
      BY <2>4, <2>5 DEF Gets, Puts
    <3>4. [j \in Ids |-> Seen(j)'] = [j \in Ids |-> Seen(j)]
      <4>1. UNCHANGED bloom /\ \A j \in Ids : meta'[j] = meta[j] /\ data'[j] = data[j]
        BY <1>1, <2>5 DEF StepIsLocal, StepKind, Gets, Writing, Puts, Deletes
      <4>2. QED
        BY <4>1 DEF Seen, Visible, Complete
    <3>5. QED
      BY <2>3, <3>1, <3>2, <3>3, <3>4 DEF Atomic!Next, Atomic!EndGet
  <2>6. CASE pc[t] \in Puts
    <3>1. CallOf(t).op = "put" /\ CallOf(t).ver = v
      BY <1>3, <2>6, CallsMap DEF CallsMapped
    <3>2. CASE out'[t] = Outcome("raised")
      <4>1. answer = "raised" /\ doubt' = doubt \cup {<<i, v>>}
        BY <2>1, <2>4, <2>6, <3>2 DEF ReplyOf, Outcome
      <4>2. QED
        BY <2>2, <2>3, <3>1, <4>1 DEF Atomic!Next, Atomic!EndPut
    <3>3. CASE out'[t] = Outcome("put")
      <4>1. answer = "put" /\ doubt' = doubt
        BY <2>1, <2>4, <3>3 DEF ReplyOf, Outcome
      <4>2. t \in clean => Seen(i)' = v
        BY <1>2, <1>3, <1>8, <3>3, CleanWriteIsDone DEF Outcome
      <4>3. QED
        BY <2>2, <2>3, <3>1, <4>1, <4>2 DEF Atomic!Next, Atomic!EndPut
    <3>4. QED
      BY <1>1, <1>8, <2>6, <3>2, <3>3 DEF EndKind, Puts, Deletes
  <2>7. CASE pc[t] \in Deletes
    <3>1. CallOf(t).op = "delete"
      BY <2>7, CallsMap DEF CallsMapped
    <3>2. doubt' = doubt
      BY <2>4, <2>7 DEF Deletes, Puts
    <3>3. answer \in {"raised", "not_deleted", "deleted"} /\ answer = out'[t].kind
      BY <1>1, <1>8, <2>1, <2>7 DEF EndKind, ReplyOf, Outcome, Puts, Deletes
    <3>4. t \in clean /\ answer = "deleted" => Seen(i)' = NoVersion
      BY <1>2, <1>3, <1>8, <3>3, CleanWriteIsDone
    <3>5. QED
      BY <2>2, <2>3, <3>1, <3>2, <3>3, <3>4 DEF Atomic!Next, Atomic!EndDelete
  <2>8. QED
    BY <1>1, <2>5, <2>6, <2>7 DEF TypeOK, ThreadShapes, Labels, Writing, StepIsLocal
<1>9. QED
  BY <1>7, <1>8

LEMMA NextRefines == CallersAssumption /\ RInv /\ [RNext]_rvars => [Atomic!Next]_(Atomic!vars)
<1> SUFFICES ASSUME CallersAssumption, RInv, [RNext]_rvars PROVE [Atomic!Next]_(Atomic!vars)
  OBVIOUS
<1>1. TypeOK' /\ OneVersion' /\ ~Restart
  BY RInvStep, NoRestart DEF RInv, CallersAssumption
<1>2. CASE UNCHANGED rvars
  BY <1>2 DEF rvars, vars, Atomic!vars, Seen, Visible, Complete, CallOf
<1>3. CASE RNext
  BY <1>1, <1>3, BeginRefines, StepRefines DEF RNext, Next, RInv
<1>4. QED
  BY <1>2, <1>3

LEMMA InitRefines == RInit => Atomic!Init
BY DEF RInit, Init, Atomic!Init, Seen, VersionOf, Visible, Outcome, CallOf, ReplyOf, Atomic!NoCall

\* The store implements the atomic store: every answer of a get is something its
\* object was during the call, a write that no other overlaps has taken effect
\* when it returns, and nothing becomes visible but on behalf of a call in
\* progress or of a put that raised; for any number of threads, ids, versions and
\* faults, on both backends, as long as the process runs.
THEOREM StoreIsAtomic == CallersAssumption /\ RSpec => ImplementsAtomicStore
<1> SUFFICES ASSUME CallersAssumption PROVE RSpec => ImplementsAtomicStore
  OBVIOUS
<1>1. RInv /\ [RNext]_rvars => RInv' /\ [Atomic!Next]_(Atomic!vars)
  BY RInvStep, NextRefines
<1>2. QED
  BY <1>1, RInvInit, InitRefines, PTL DEF RSpec, ImplementsAtomicStore, Atomic!Spec
=============================================================================
