------------------------- MODULE SemanticPathProofs -------------------------
(***************************************************************************)
(* What holds of the components of MCSemanticPath for any number of        *)
(* threads, entries, topics and labels.                                    *)
(*                                                                         *)
(* HNSWIndex: labels have one owner, and the vector under a name stays,    *)
(* also when callers add one id twice at a time (AddsOverlap); the maps    *)
(* agree when they do not.  LabelsHaveOneOwner is inductive with the       *)
(* types; NamedVectorStays needs to know where a label has a name          *)
(* (NamesAreLive), MapsAgree who adds what (AddersApart).                  *)
(*                                                                         *)
(* LazyIndex: once an index is there and no thread is on its way to create *)
(* one, nobody creates another, so an entry that begins then goes to the   *)
(* index that stays (CreationIsOver).                                      *)
(*                                                                         *)
(* EmbeddingCache: a thread that is about to pop was let through by a      *)
(* cache over its limit, or one of the others has not decided yet          *)
(* (RoomLeft); the cache is the end of the list of all texts (Behind).     *)
(*                                                                         *)
(* SemanticCache: what its calls and its load have still to do, and which  *)
(* topics and dead entries a call knew of when it began (AnswersInv).      *)
(***************************************************************************)
EXTENDS MCSemanticPath, Sequences, FiniteSetTheorems, SequenceTheorems, WellFoundedInduction, TLAPS

\* The places between the two ends of a label's life where it has no name.
Unnamed(t) == pc[t] \in {"add_items", "publish", "mark_deleted", "free"}

\* A label has a name only between Publish and Unmap, and is live there.
NamesAreLive ==
    /\ \A t \in Threads : Unnamed(t) => id_to_object[label[t]] = None
    /\ \A t \in Threads : pc[t] = "publish" => label[t] \notin deleted
    /\ \A l \in free_ids : id_to_object[l] = None
    /\ \A l \in Labels : l >= next_id => id_to_object[l] = None
    /\ \A l \in Labels : id_to_object[l] # None => l \notin deleted

IInv == TypeOK /\ LabelsHaveOneOwner /\ NamesAreLive

-----------------------------------------------------------------------------
(* The types. *)

\* The index starts well formed.
LEMMA TypeOKInit == Init => TypeOK
  BY IndexAssumption DEF Init, TypeOK, Labels, Adding, Removing, Search, Holds

\* Every step of a thread keeps the index well formed.
LEMMA TypeOKStep == TypeOK /\ [Next]_vars => TypeOK'
<1> SUFFICES ASSUME TypeOK, [Next]_vars PROVE TypeOK'
  OBVIOUS
<1> USE IndexAssumption DEF TypeOK, Holds, Adding, Removing, Search, index, hnsw, locals, Goto, Return
<1>1. CASE UNCHANGED vars
  BY <1>1 DEF vars
<1>2. ASSUME NEW t \in Threads, NEW o \in Objects, NEW v \in Vectors, BeginAdd(t, o, v) PROVE TypeOK'
  BY <1>2 DEF BeginAdd, Call
<1>3. ASSUME NEW t \in Threads, NEW o \in Objects, BeginRemove(t, o) PROVE TypeOK'
  BY <1>3 DEF BeginRemove, Call
<1>4. ASSUME NEW t \in Threads, NEW v \in Vectors, BeginSearch(t, v) PROVE TypeOK'
  BY <1>4 DEF BeginSearch, Call
<1>5. ASSUME NEW t \in Threads, Reserve(t) PROVE TypeOK'
  BY <1>5 DEF Reserve
<1>6. ASSUME NEW t \in Threads, ReuseLabel(t) PROVE TypeOK'
  BY <1>6 DEF ReuseLabel, Give
<1>7. ASSUME NEW t \in Threads, NewLabel(t) PROVE TypeOK'
  <2>1. next_id + 1 \in Labels
    BY <1>7 DEF NewLabel, Labels
  <2>2. QED
    BY <1>7, <2>1 DEF NewLabel, Give
<1>8. ASSUME NEW t \in Threads, PopFromEmpty(t) PROVE TypeOK'
  BY <1>8 DEF PopFromEmpty
<1>9. ASSUME NEW t \in Threads, AddItems(t) PROVE TypeOK'
  BY <1>9 DEF AddItems
<1>10. ASSUME NEW t \in Threads, AddItemsFails(t) PROVE TypeOK'
  BY <1>10 DEF AddItemsFails
<1>11. ASSUME NEW t \in Threads, Publish(t) PROVE TypeOK'
  BY <1>11 DEF Publish
<1>12. ASSUME NEW t \in Threads, Unmap(t) PROVE TypeOK'
  BY <1>12 DEF Unmap
<1>13. ASSUME NEW t \in Threads, MarkDeleted(t) PROVE TypeOK'
  BY <1>13 DEF MarkDeleted
<1>14. ASSUME NEW t \in Threads, MarkDeletedRaises(t) PROVE TypeOK'
  BY <1>14 DEF MarkDeletedRaises
<1>15. ASSUME NEW t \in Threads, Free(t) PROVE TypeOK'
  BY <1>15 DEF Free
<1>16. ASSUME NEW t \in Threads, KnnQuery(t) PROVE TypeOK'
  BY <1>16 DEF KnnQuery, Live
<1>17. ASSUME NEW t \in Threads, KnnQueryMisses(t) PROVE TypeOK'
  BY <1>17 DEF KnnQueryMisses
<1>18. ASSUME NEW t \in Threads, Resolve(t) PROVE TypeOK'
  BY <1>18 DEF Resolve
<1>19. QED
  BY <1>1, <1>2, <1>3, <1>4, <1>5, <1>6, <1>7, <1>8, <1>9, <1>10, <1>11, <1>12,
     <1>13, <1>14, <1>15, <1>16, <1>17, <1>18 DEF Next, Begin, Add, Remove, Query

\* The index stays well formed.
THEOREM IndexTypeCorrect == Spec => []TypeOK
<1>1. Init => TypeOK
  BY TypeOKInit
<1>2. TypeOK /\ [Next]_vars => TypeOK'
  BY TypeOKStep
<1>3. QED
  BY <1>1, <1>2, PTL DEF Spec

-----------------------------------------------------------------------------
(* Labels have one owner, and names are live. *)

\* No step gives a label a second owner.
LEMMA OwnerStep == TypeOK /\ LabelsHaveOneOwner /\ [Next]_vars => LabelsHaveOneOwner'
<1> SUFFICES ASSUME TypeOK, LabelsHaveOneOwner, [Next]_vars PROVE LabelsHaveOneOwner'
  OBVIOUS
<1> USE IndexAssumption DEF LabelsHaveOneOwner, TypeOK,
      Holds, Adding, Removing, Search, index, hnsw, locals, Goto, Return
<1>1. CASE UNCHANGED vars
  BY <1>1 DEF vars
<1>2. ASSUME NEW t \in Threads, NEW o \in Objects, NEW v \in Vectors, BeginAdd(t, o, v) PROVE LabelsHaveOneOwner'
  BY <1>2 DEF BeginAdd, Call
<1>3. ASSUME NEW t \in Threads, NEW o \in Objects, BeginRemove(t, o) PROVE LabelsHaveOneOwner'
  BY <1>3 DEF BeginRemove, Call
<1>4. ASSUME NEW t \in Threads, NEW v \in Vectors, BeginSearch(t, v) PROVE LabelsHaveOneOwner'
  BY <1>4 DEF BeginSearch, Call
<1>5. ASSUME NEW t \in Threads, Reserve(t) PROVE LabelsHaveOneOwner'
  BY <1>5 DEF Reserve
<1>6. ASSUME NEW t \in Threads, ReuseLabel(t) PROVE LabelsHaveOneOwner'
  BY <1>6 DEF ReuseLabel, Give
<1>7. ASSUME NEW t \in Threads, NewLabel(t) PROVE LabelsHaveOneOwner'
  BY <1>7 DEF NewLabel, Give, Labels
<1>8. ASSUME NEW t \in Threads, PopFromEmpty(t) PROVE LabelsHaveOneOwner'
  BY <1>8 DEF PopFromEmpty
<1>9. ASSUME NEW t \in Threads, AddItems(t) PROVE LabelsHaveOneOwner'
  BY <1>9 DEF AddItems
<1>10. ASSUME NEW t \in Threads, AddItemsFails(t) PROVE LabelsHaveOneOwner'
  BY <1>10 DEF AddItemsFails
<1>11. ASSUME NEW t \in Threads, Publish(t) PROVE LabelsHaveOneOwner'
  BY <1>11 DEF Publish
<1>12. ASSUME NEW t \in Threads, Unmap(t) PROVE LabelsHaveOneOwner'
  BY <1>12 DEF Unmap
<1>13. ASSUME NEW t \in Threads, MarkDeleted(t) PROVE LabelsHaveOneOwner'
  BY <1>13 DEF MarkDeleted
<1>14. ASSUME NEW t \in Threads, MarkDeletedRaises(t) PROVE LabelsHaveOneOwner'
  BY <1>14 DEF MarkDeletedRaises
<1>15. ASSUME NEW t \in Threads, Free(t) PROVE LabelsHaveOneOwner'
  BY <1>15 DEF Free
<1>16. ASSUME NEW t \in Threads, KnnQuery(t) PROVE LabelsHaveOneOwner'
  BY <1>16 DEF KnnQuery, Live
<1>17. ASSUME NEW t \in Threads, KnnQueryMisses(t) PROVE LabelsHaveOneOwner'
  BY <1>17 DEF KnnQueryMisses
<1>18. ASSUME NEW t \in Threads, Resolve(t) PROVE LabelsHaveOneOwner'
  BY <1>18 DEF Resolve
<1>19. QED
  BY <1>1, <1>2, <1>3, <1>4, <1>5, <1>6, <1>7, <1>8, <1>9, <1>10, <1>11, <1>12,
     <1>13, <1>14, <1>15, <1>16, <1>17, <1>18 DEF Next, Begin, Add, Remove, Query

\* Every step that uses a label without a name finds it so.
LEMMA NamesStep == IInv /\ [Next]_vars => NamesAreLive'
<1> SUFFICES ASSUME IInv, [Next]_vars PROVE NamesAreLive'
  OBVIOUS
<1> USE IndexAssumption DEF IInv, LabelsHaveOneOwner, NamesAreLive, Unnamed, TypeOK,
      Holds, Adding, Removing, Search, index, hnsw, locals, Goto, Return
<1>1. CASE UNCHANGED vars
  BY <1>1 DEF vars
<1>2. ASSUME NEW t \in Threads, NEW o \in Objects, NEW v \in Vectors, BeginAdd(t, o, v) PROVE NamesAreLive'
  BY <1>2 DEF BeginAdd, Call
<1>3. ASSUME NEW t \in Threads, NEW o \in Objects, BeginRemove(t, o) PROVE NamesAreLive'
  BY <1>3 DEF BeginRemove, Call
<1>4. ASSUME NEW t \in Threads, NEW v \in Vectors, BeginSearch(t, v) PROVE NamesAreLive'
  BY <1>4 DEF BeginSearch, Call
<1>5. ASSUME NEW t \in Threads, Reserve(t) PROVE NamesAreLive'
  BY <1>5 DEF Reserve
<1>6. ASSUME NEW t \in Threads, ReuseLabel(t) PROVE NamesAreLive'
  BY <1>6 DEF ReuseLabel, Give
<1>7. ASSUME NEW t \in Threads, NewLabel(t) PROVE NamesAreLive'
  BY <1>7 DEF NewLabel, Give, Labels
<1>8. ASSUME NEW t \in Threads, PopFromEmpty(t) PROVE NamesAreLive'
  BY <1>8 DEF PopFromEmpty
<1>9. ASSUME NEW t \in Threads, AddItems(t) PROVE NamesAreLive'
  BY <1>9 DEF AddItems
<1>10. ASSUME NEW t \in Threads, AddItemsFails(t) PROVE NamesAreLive'
  BY <1>10 DEF AddItemsFails
<1>11. ASSUME NEW t \in Threads, Publish(t) PROVE NamesAreLive'
  <2>1. /\ label[t] \in Labels /\ label[t] \notin free_ids /\ label[t] \notin deleted
        /\ label[t] < next_id /\ next_id \in Nat
        /\ \A u \in Threads \ {t} : Holds(u) => label[u] # label[t]
    BY <1>11 DEF Publish, Labels
  <2>2. /\ id_to_object' = [id_to_object EXCEPT ![label[t]] = object[t]]
        /\ next_id' = next_id /\ free_ids' = free_ids /\ deleted' = deleted
    BY <1>11 DEF Publish
  <2>3. \A u \in Threads : Unnamed(u)' => u # t /\ pc'[u] = pc[u] /\ label'[u] = label[u]
    BY <1>11 DEF Publish
  <2>4. (\A u \in Threads : Unnamed(u) => id_to_object[label[u]] = None)'
    BY <2>1, <2>2, <2>3
  <2>5. (\A u \in Threads : pc[u] = "publish" => label[u] \notin deleted)'
    BY <2>2, <2>3
  <2>6. (\A l \in free_ids : id_to_object[l] = None)'
    BY <2>1, <2>2
  <2>7. \A l \in Labels : l >= next_id => l # label[t]
    BY <2>1 DEF Labels
  <2>8. (\A l \in Labels : l >= next_id => id_to_object[l] = None)'
    BY <2>2, <2>7
  <2>9. (\A l \in Labels : id_to_object[l] # None => l \notin deleted)'
    BY <2>1, <2>2
  <2>10. QED
    BY <2>4, <2>5, <2>6, <2>8, <2>9
<1>12. ASSUME NEW t \in Threads, Unmap(t) PROVE NamesAreLive'
  BY <1>12 DEF Unmap
<1>13. ASSUME NEW t \in Threads, MarkDeleted(t) PROVE NamesAreLive'
  BY <1>13 DEF MarkDeleted
<1>14. ASSUME NEW t \in Threads, MarkDeletedRaises(t) PROVE NamesAreLive'
  BY <1>14 DEF MarkDeletedRaises
<1>15. ASSUME NEW t \in Threads, Free(t) PROVE NamesAreLive'
  BY <1>15 DEF Free
<1>16. ASSUME NEW t \in Threads, KnnQuery(t) PROVE NamesAreLive'
  BY <1>16 DEF KnnQuery, Live
<1>17. ASSUME NEW t \in Threads, KnnQueryMisses(t) PROVE NamesAreLive'
  BY <1>17 DEF KnnQueryMisses
<1>18. ASSUME NEW t \in Threads, Resolve(t) PROVE NamesAreLive'
  BY <1>18 DEF Resolve
<1>19. QED
  BY <1>1, <1>2, <1>3, <1>4, <1>5, <1>6, <1>7, <1>8, <1>9, <1>10, <1>11, <1>12,
     <1>13, <1>14, <1>15, <1>16, <1>17, <1>18 DEF Next, Begin, Add, Remove, Query

\* IInv is inductive.
LEMMA Inductive == Spec => []IInv
<1>1. Init => IInv
  BY TypeOKInit, IndexAssumption
     DEF Init, IInv, TypeOK, LabelsHaveOneOwner, NamesAreLive, Holds, Unnamed, Removing
<1>2. IInv /\ [Next]_vars => IInv'
  BY TypeOKStep, OwnerStep, NamesStep DEF IInv
<1>3. QED
  BY <1>1, <1>2, PTL DEF Spec

\* A label never has two owners, although it goes from the free list to a
\* thread to an object and back without a lock.
THEOREM OneOwner == Spec => []LabelsHaveOneOwner
<1>1. IInv => LabelsHaveOneOwner
  BY DEF IInv
<1>2. QED
  BY <1>1, Inductive, PTL

-----------------------------------------------------------------------------
(* The vector under a name stays. *)

\* Each of the steps that write vector, deleted or the names leaves a label
\* alone that has a name before and after.
LEMMA VectorsStayStep == IInv /\ IInv' /\ [Next]_vars => VectorsStay
<1> SUFFICES ASSUME IInv, IInv', [Next]_vars,
                    NEW l \in Labels, id_to_object[l] # None, id_to_object'[l] # None
             PROVE  id_to_object'[l] = id_to_object[l] /\ vector'[l] = vector[l]
  BY DEF VectorsStay, IInv, NamesAreLive
<1> USE DEF IInv, TypeOK, NamesAreLive, Unnamed, Holds, Removing, index, hnsw, Goto, Return
<1>1. ASSUME NEW t \in Threads, AddItems(t) PROVE id_to_object' = id_to_object /\ vector'[l] = vector[l]
  BY <1>1 DEF AddItems
<1>2. ASSUME NEW t \in Threads, Publish(t) PROVE id_to_object'[l] = id_to_object[l] /\ vector' = vector
  BY <1>2 DEF Publish
<1>3. ASSUME NEW t \in Threads, Unmap(t) PROVE id_to_object'[l] = id_to_object[l] /\ vector' = vector
  BY <1>3 DEF Unmap
<1>4. CASE UNCHANGED <<id_to_object, vector>>
  BY <1>4
<1>5. CASE UNCHANGED vars
  BY <1>5, <1>4 DEF vars
<1>6. ASSUME NEW t \in Threads, Begin(t) PROVE UNCHANGED <<id_to_object, vector>>
  BY <1>6 DEF Begin, BeginAdd, BeginRemove, BeginSearch
<1>7. ASSUME NEW t \in Threads,
             \/ Reserve(t) \/ ReuseLabel(t) \/ NewLabel(t) \/ PopFromEmpty(t) \/ AddItemsFails(t)
             \/ MarkDeleted(t) \/ MarkDeletedRaises(t) \/ Free(t) \/ Query(t)
      PROVE  UNCHANGED <<id_to_object, vector>>
  BY <1>7 DEF Reserve, ReuseLabel, NewLabel, Give, PopFromEmpty, AddItemsFails, MarkDeleted,
              MarkDeletedRaises, Free, Query, KnnQuery, KnnQueryMisses, Resolve
<1>8. QED
  BY <1>1, <1>2, <1>3, <1>4, <1>5, <1>6, <1>7 DEF Next, Add, Remove

\* As long as a label names an object, hnswlib keeps the vector added with it
\* and does not have it marked deleted.
THEOREM NameKeepsVector == Spec => NamedVectorStays
<1>1. IInv /\ IInv' /\ [Next]_vars => [VectorsStay]_vars
  BY VectorsStayStep
<1>2. QED
  BY <1>1, Inductive, PTL DEF Spec, NamedVectorStays

-----------------------------------------------------------------------------
(* The two maps agree, if callers do not add an id in two threads. *)

\* An object that is being added has no label yet, and one thread that adds it.
AddersApart ==
    \A t \in Threads : pc[t] \in Adding =>
        /\ object_to_id[object[t]] = None
        /\ \A u \in Threads \ {t} : pc[u] \in Adding => object[u] # object[t]

\* BeginAdd waits for the other adds of the object, and only Publish gives it a label.
LEMMA AddersApartStep ==
    ASSUME ~AddsOverlap PROVE TypeOK /\ AddersApart /\ [Next]_vars => AddersApart'
<1> SUFFICES ASSUME TypeOK, AddersApart, [Next]_vars PROVE AddersApart'
  OBVIOUS
<1> USE IndexAssumption DEF AddersApart, TypeOK, Adding, Removing, Search, index, hnsw, locals, Goto, Return
<1>1. CASE UNCHANGED vars
  BY <1>1 DEF vars
<1>2. ASSUME NEW t \in Threads, Begin(t) PROVE AddersApart'
  BY <1>2 DEF Begin, BeginAdd, BeginRemove, BeginSearch, Call
<1>3. ASSUME NEW t \in Threads, Publish(t) PROVE AddersApart'
  BY <1>3 DEF Publish
<1>4. ASSUME NEW t \in Threads,
             \/ Reserve(t) \/ ReuseLabel(t) \/ NewLabel(t) \/ PopFromEmpty(t)
             \/ AddItems(t) \/ AddItemsFails(t) \/ Remove(t) \/ Query(t)
      PROVE  AddersApart'
  <2>1. /\ object_to_id' = object_to_id
        /\ \A u \in Threads : pc'[u] \in Adding => pc[u] \in Adding /\ object'[u] = object[u]
    BY <1>4 DEF Reserve, ReuseLabel, NewLabel, Give, PopFromEmpty, AddItems, AddItemsFails,
                Remove, Unmap, MarkDeleted, MarkDeletedRaises, Free, Query, KnnQuery, KnnQueryMisses, Resolve
  <2>2. QED
    BY <2>1
<1>5. QED
  BY <1>1, <1>2, <1>3, <1>4 DEF Next, Add

\* Publish, BeginRemove and Unmap write the maps; the others leave who unmaps what alone.
LEMMA MapsStep == IInv /\ AddersApart /\ MapsAgree /\ [Next]_vars => MapsAgree'
<1> SUFFICES ASSUME IInv, AddersApart, MapsAgree, [Next]_vars PROVE MapsAgree'
  OBVIOUS
<1> USE IndexAssumption DEF IInv, TypeOK, LabelsHaveOneOwner, MapsAgree, Holds, Adding, Removing
<1>1. ASSUME NEW t \in Threads, Publish(t) PROVE MapsAgree'
  <2>1. /\ object_to_id[object[t]] = None /\ object[t] \in Objects /\ label[t] \in Labels
        /\ \A o \in Objects : object_to_id[o] # label[t]
    BY <1>1 DEF Publish, AddersApart
  <2>2. \A u \in Threads : pc[u] = "unmap" => pc'[u] = "unmap" /\ label'[u] = label[u]
    BY <1>1 DEF Publish, Return
  <2>3. QED
    BY <1>1, <2>1, <2>2 DEF Publish
<1>2. ASSUME NEW t \in Threads, NEW o \in Objects, BeginRemove(t, o) PROVE MapsAgree'
  <2>1. pc'[t] = "unmap" /\ label'[t] = object_to_id[o] /\ pc[t] = "idle"
    BY <1>2 DEF BeginRemove, Call
  <2>2. \A u \in Threads : pc[u] = "unmap" => pc'[u] = "unmap" /\ label'[u] = label[u]
    BY <1>2 DEF BeginRemove, Call
  <2>3. QED
    BY <1>2, <2>1, <2>2 DEF BeginRemove
<1>3. ASSUME NEW t \in Threads, Unmap(t) PROVE MapsAgree'
  <2>1. \A u \in Threads : pc[u] = "unmap" /\ u # t => pc'[u] = "unmap" /\ label'[u] = label[u]
    BY <1>3 DEF Unmap, Goto, locals
  <2>2. QED
    BY <1>3, <2>1 DEF Unmap
<1>4. ASSUME UNCHANGED <<id_to_object, object_to_id>>,
             \A u \in Threads : pc[u] = "unmap" => pc'[u] = "unmap" /\ label'[u] = label[u]
      PROVE  MapsAgree'
  BY <1>4
<1>5. CASE UNCHANGED vars
  BY <1>4, <1>5 DEF vars
<1>6. ASSUME NEW t \in Threads,
             \/ \E o \in Objects, v \in Vectors : BeginAdd(t, o, v)
             \/ \E v \in Vectors : BeginSearch(t, v)
             \/ Reserve(t) \/ ReuseLabel(t) \/ NewLabel(t) \/ PopFromEmpty(t) \/ AddItems(t)
             \/ AddItemsFails(t) \/ MarkDeleted(t) \/ MarkDeletedRaises(t) \/ Free(t) \/ Query(t)
      PROVE  MapsAgree'
  <2>1. UNCHANGED <<id_to_object, object_to_id>>
    BY <1>6 DEF BeginAdd, BeginSearch, Reserve, ReuseLabel, NewLabel, Give, PopFromEmpty, AddItems,
                AddItemsFails, MarkDeleted, MarkDeletedRaises, Free, Query, KnnQuery, KnnQueryMisses,
                Resolve, index
  <2>2. \A u \in Threads : pc[u] = "unmap" => pc'[u] = "unmap" /\ label'[u] = label[u]
    BY <1>6 DEF BeginAdd, BeginSearch, Call, Reserve, ReuseLabel, NewLabel, Give, PopFromEmpty,
                AddItems, AddItemsFails, MarkDeleted, MarkDeletedRaises, Free, Query, KnnQuery,
                KnnQueryMisses, Resolve, Goto, Return, locals
  <2>3. QED
    BY <2>1, <2>2, <1>4
<1>7. QED
  BY <1>1, <1>2, <1>3, <1>5, <1>6 DEF Next, Begin, Add, Remove

\* The maps are inverse of each other, but for labels on their way out, as long as callers do not
\* add one id in two threads at a time.
THEOREM MapsStayInverse == ASSUME ~AddsOverlap PROVE Spec => []MapsAgree
<1>1. Init => AddersApart /\ MapsAgree
  BY IndexAssumption DEF Init, AddersApart, MapsAgree, Adding, Labels
<1>2. IInv /\ AddersApart /\ MapsAgree /\ [Next]_vars => AddersApart' /\ MapsAgree'
  BY AddersApartStep, MapsStep DEF IInv
<1>3. QED
  BY <1>1, <1>2, Inductive, PTL DEF Spec

-----------------------------------------------------------------------------
(* LazyIndex: which entries the unlocked creation of the index can lose.    *)

\* There is an index and nobody is on the way to create one.
CreationIsOver == current # None /\ \A u \in Adders : adding[u] # "create"

\* What each place of a call says about its locals; a sure call adds to the current index.
AdderOK(t) ==
    /\ adding[t] # "idle" => entry[t] \in Entries /\ want[t] \in Dims
    /\ adding[t] \in {"compare", "add"} => held[t] \in Adders /\ current # None
    /\ adding[t] = "create" => dim[t] = None
    /\ t \in sure => /\ adding[t] \in {"compare", "add"}
                     /\ adding[t] = "add" => held[t] = current

\* While a call is sure, or an entry settled, creation is over.
CreationInv ==
    /\ Metadata!TypeOK
    /\ \A t \in Adders : AdderOK(t)
    /\ current = None => \A t \in Adders : dim[t] = None
    /\ sure # {} \/ settled # {} => CreationIsOver
    /\ Metadata!SettledStaySearchable

\* None stands for no index, no entry and no dimension.
NoneIsNoAdder == None \notin Adders \cup Entries \cup Dims

\* Nobody has called: there is no index, and no call is sure.
LEMMA CreationInit == ASSUME NoneIsNoAdder PROVE Metadata!Init => CreationInv
BY DEF NoneIsNoAdder, Metadata!Init, CreationInv, Metadata!TypeOK, AdderOK, Metadata!SettledStaySearchable,
       Metadata!Empty

\* An idle thread begins: it goes to "create" only if no index is there, and then no call is sure.
LEMMA EnsureStep ==
    ASSUME NoneIsNoAdder, CreationInv, NEW t \in Adders, NEW e \in Entries, NEW d \in Dims, Metadata!Ensure(t, e, d)
    PROVE  CreationInv'
<1> USE DEF NoneIsNoAdder, CreationInv, Metadata!Ensure
<1>1. Metadata!TypeOK'
  BY DEF Metadata!TypeOK
<1>2. \A u \in Adders : AdderOK(u)'
  BY DEF AdderOK, Metadata!TypeOK
<1>3. sure' # {} \/ settled' # {} => CreationIsOver'
  BY DEF CreationIsOver, Metadata!TypeOK
<1> QED
  BY <1>1, <1>2, <1>3 DEF Metadata!SettledStaySearchable

\* The index of a thread is empty until the thread creates it, and while it does no call is sure.
LEMMA CreateStep == ASSUME NoneIsNoAdder, CreationInv, NEW t \in Adders, Metadata!Create(t) PROVE CreationInv'
<1> USE DEF NoneIsNoAdder, CreationInv, Metadata!Create
<1>1. sure = {} /\ settled = {}
  BY DEF CreationIsOver
<1>2. dim[t] = None /\ want[t] \in Dims
  BY DEF AdderOK
<1>3. vectors[t] = [x \in Entries |-> None]
  BY <1>2 DEF Metadata!TypeOK
<1>4. Metadata!TypeOK'
  BY <1>2, <1>3 DEF Metadata!TypeOK
<1>5. \A u \in Adders : AdderOK(u)'
  BY <1>1 DEF AdderOK, Metadata!TypeOK
<1> QED
  BY <1>1, <1>4, <1>5 DEF Metadata!SettledStaySearchable

\* A call that is over is in nobody's way.
LEMMA ReturnKeepsCalls ==
    ASSUME NoneIsNoAdder, Metadata!TypeOK, NEW t \in Adders, Metadata!Return(t), \A u \in Adders : AdderOK(u),
           UNCHANGED <<current, dim>>
    PROVE  \A u \in Adders : AdderOK(u)'
BY DEF NoneIsNoAdder, Metadata!TypeOK, Metadata!Return, AdderOK

\* The index a call has looked at is there, and is the one that stays if the call is sure.
LEMMA CompareStep ==
    ASSUME NoneIsNoAdder, CreationInv, NEW t \in Adders, Metadata!Compare(t) \/ Metadata!CompareRaises(t)
    PROVE  CreationInv'
<1> USE DEF NoneIsNoAdder, CreationInv
<1>1. CASE Metadata!Compare(t)
  <2>1. Metadata!TypeOK'
    BY <1>1 DEF Metadata!Compare, Metadata!TypeOK
  <2>2. \A u \in Adders : AdderOK(u)'
    BY <1>1 DEF Metadata!Compare, AdderOK, Metadata!TypeOK
  <2>3. sure' # {} \/ settled' # {} => CreationIsOver'
    BY <1>1 DEF Metadata!Compare, CreationIsOver, Metadata!TypeOK
  <2> QED
    BY <1>1, <2>1, <2>2, <2>3 DEF Metadata!Compare, Metadata!SettledStaySearchable
<1>2. CASE Metadata!CompareRaises(t)
  <2>1. Metadata!TypeOK'
    BY <1>2 DEF Metadata!CompareRaises, Metadata!Return, Metadata!TypeOK
  <2>2. \A u \in Adders : AdderOK(u)'
    BY <1>2, ReturnKeepsCalls DEF Metadata!CompareRaises
  <2>3. sure' # {} \/ settled' # {} => CreationIsOver'
    BY <1>2 DEF Metadata!CompareRaises, Metadata!Return, CreationIsOver, Metadata!TypeOK
  <2> QED
    BY <1>2, <2>1, <2>2, <2>3 DEF Metadata!CompareRaises, Metadata!SettledStaySearchable
<1> QED
  BY <1>1, <1>2

\* An index stays one of its dimension when an entry gets or loses a vector of it.
LEMMA VectorsChange ==
    ASSUME NEW f, DOMAIN f = Adders, NEW D, \A i \in Adders : f[i] \in [Entries -> {None, D[i]}],
           NEW j \in Adders, NEW x \in Entries, NEW v \in {None, D[j]}
    PROVE  LET g == [f EXCEPT ![j][x] = v]
           IN  DOMAIN g = Adders /\ \A i \in Adders : g[i] \in [Entries -> {None, D[i]}]
<1> DEFINE g == [f EXCEPT ![j][x] = v]
<1>1. g[j] = [f[j] EXCEPT ![x] = v]
  OBVIOUS
<1>2. g[j] \in [Entries -> {None, D[j]}]
  BY <1>1
<1>3. \A i \in Adders : i # j => g[i] = f[i]
  OBVIOUS
<1>4. DOMAIN g = Adders
  OBVIOUS
<1> HIDE DEF g
<1>5. DOMAIN g = Adders /\ \A i \in Adders : g[i] \in [Entries -> {None, D[i]}]
  BY <1>2, <1>3, <1>4
<1> QED
  BY <1>5 DEF g

\* Adding takes no vector away, and a sure call adds to the current index.
LEMMA AddStep == ASSUME NoneIsNoAdder, CreationInv, NEW t \in Adders, Metadata!Add(t) PROVE CreationInv'
<1> USE DEF NoneIsNoAdder, CreationInv
<1>1. /\ held[t] \in Adders /\ entry[t] \in Entries /\ want[t] \in Dims
      /\ t \in sure => held[t] = current
  BY DEF Metadata!Add, AdderOK
<1>2. \/ UNCHANGED vectors
      \/ /\ dim[held[t]] = want[t]
         /\ vectors' = [vectors EXCEPT ![held[t]][entry[t]] = want[t]]
  BY DEF Metadata!Add
<1>3. settled' \subseteq settled \cup {entry[t]} /\ Metadata!Return(t) /\ UNCHANGED <<current, dim>>
  BY DEF Metadata!Add, Metadata!Settle
<1>4. DOMAIN vectors' = Adders /\ \A i \in Adders : vectors'[i] \in [Entries -> {None, dim[i]}]
  <2>1. CASE UNCHANGED vectors
    BY <2>1 DEF Metadata!TypeOK
  <2>2. CASE /\ dim[held[t]] = want[t]
             /\ vectors' = [vectors EXCEPT ![held[t]][entry[t]] = want[t]]
    <3>1. DOMAIN vectors = Adders /\ \A i \in Adders : vectors[i] \in [Entries -> {None, dim[i]}]
      BY DEF Metadata!TypeOK
    <3> QED
      BY <1>1, <2>2, <3>1, VectorsChange
  <2> QED
    BY <1>2, <2>1, <2>2
<1>5. Metadata!TypeOK'
  BY <1>1, <1>3, <1>4 DEF Metadata!Return, Metadata!TypeOK
<1>6. \A u \in Adders : AdderOK(u)'
  BY <1>3, ReturnKeepsCalls
<1>7. sure' # {} \/ settled' # {} => CreationIsOver'
  <2>1. sure' # {} \/ settled' # {} => sure # {} \/ settled # {}
    BY DEF Metadata!Add, Metadata!Settle, Metadata!Return
  <2> QED
    BY <1>3, <2>1 DEF Metadata!Return, CreationIsOver, Metadata!TypeOK
<1>8. \A i \in Adders, x \in Entries : vectors[i][x] # None => vectors'[i][x] # None
  BY <1>1, <1>2 DEF Metadata!TypeOK
<1>9. t \in sure /\ settled' # settled => current # None /\ vectors'[current][entry[t]] # None
  BY <1>1 DEF Metadata!Add, CreationIsOver, Metadata!TypeOK
<1>10. Metadata!SettledStaySearchable'
  <2>1. settled' = settled \/ (t \in sure /\ settled' = settled \cup {entry[t]})
    BY DEF Metadata!Add, Metadata!Settle
  <2>2. settled \subseteq Entries
    BY DEF Metadata!TypeOK
  <2>3. \A x \in settled : current # None /\ vectors'[current][x] # None
    BY <1>8, <2>2 DEF Metadata!SettledStaySearchable, Metadata!TypeOK
  <2> QED
    BY <1>3, <1>9, <2>1, <2>3 DEF Metadata!SettledStaySearchable
<1> QED
  BY <1>3, <1>5, <1>6, <1>7, <1>10

\* What is removed is not settled any more.
LEMMA RemoveStep == ASSUME NoneIsNoAdder, CreationInv, NEW e \in Entries, Metadata!RemoveEntry(e) PROVE CreationInv'
<1> USE DEF NoneIsNoAdder, CreationInv, Metadata!RemoveEntry
<1>1. Metadata!TypeOK'
  <2>1. current \in Adders
    BY DEF Metadata!TypeOK
  <2>2. DOMAIN vectors' = Adders /\ \A i \in Adders : vectors'[i] \in [Entries -> {None, dim[i]}]
    BY <2>1, VectorsChange DEF Metadata!TypeOK
  <2> QED
    BY <2>1, <2>2 DEF Metadata!TypeOK, Metadata!locals
<1>2. \A u \in Adders : AdderOK(u)'
  BY DEF AdderOK, Metadata!locals
<1>3. sure' # {} \/ settled' # {} => CreationIsOver'
  BY DEF CreationIsOver
<1>4. Metadata!SettledStaySearchable'
  BY DEF Metadata!SettledStaySearchable, Metadata!TypeOK
<1> QED
  BY <1>1, <1>2, <1>3, <1>4

\* No step of a thread takes a settled entry away.
LEMMA CreationSteps == ASSUME NoneIsNoAdder PROVE CreationInv /\ [Metadata!Next]_Metadata!vars => CreationInv'
<1> SUFFICES ASSUME CreationInv, [Metadata!Next]_Metadata!vars PROVE CreationInv'
  OBVIOUS
<1>1. CASE UNCHANGED Metadata!vars
  BY <1>1 DEF Metadata!vars, Metadata!locals, CreationInv, Metadata!TypeOK, AdderOK, CreationIsOver,
              Metadata!SettledStaySearchable
<1>2. CASE Metadata!Next
  BY <1>2, EnsureStep, CreateStep, CompareStep, AddStep, RemoveStep DEF Metadata!Next
<1> QED
  BY <1>1, <1>2

-----------------------------------------------------------------------------
(* The semantic cache: the inductive invariant. *)

\* None stands for no entry and no topic.
NoneIsApart == None \notin Entries \cup Topics /\ MaxRestarts \in Nat

\* What a call knows of its topic and of the entry it is about.
CallOK(t) ==
    /\ prompt[t] \in IF place[t] \in Manager!Answering THEN Topics ELSE {None}
    /\ place[t] \in {"idle", "search"} => match[t] = None
    /\ place[t] \in {"load", "forget", "index"} \cup Manager!Deleting => match[t] # None
    /\ match[t] # None => topic[match[t]] # None
    /\ place[t] = "load" => match[t] \in known
    /\ place[t] \in {"forget", "unindex"} => match[t] \notin stored
    /\ place[t] = "index" => match[t] \notin searchable /\ topic[match[t]] = prompt[t]
    /\ mode # "ready" => place[t] \notin Manager!Answering

CallsOK == \A t \in Callers : CallOK(t)

\* The entry that a call is adding is no other's.
NewIsOwn ==
    \A t, u \in Callers :
        place[t] = "index" /\ place[u] \in {"load", "forget", "index"} /\ match[t] = match[u] => t = u

\* The filter knows what is indexed; a manager that is loading has indexed what it
\* found stored and will find the rest.
LoadingOK ==
    /\ searchable \subseteq known
    /\ loaded # None => loaded \in known /\ topic[loaded] # None
    /\ \A e \in todo : topic[e] # None
    /\ mode = "loading" => \A e \in stored : e \in todo \cup searchable \/ e = loaded

\* A dead entry that was met is out of the index for good, and a call finds only
\* those that nobody had met when it began.
DeadOK ==
    /\ \A e \in met : e \notin searchable /\ topic[e] # None
    /\ mode = "loading" => met = {}
    /\ \A t \in Callers : /\ before[t] \subseteq met
                          /\ place[t] = "index" => match[t] \notin met
                          /\ place[t] \in {"load", "forget"} => match[t] \notin before[t]

\* A warm topic has a stored entry in the index that nobody is deleting; a call that is
\* not cold can find it.
WarmOK ==
    /\ \A p \in warm : /\ \E e \in stored \cap searchable : topic[e] = p
                       /\ \A t \in Callers : place[t] \in Manager!Deleting => topic[match[t]] # p
    /\ \A t \in Callers \ cold :
          /\ place[t] \in {"search", "load", "forget"} => prompt[t] \in warm
          /\ place[t] = "generate" => match[t] \notin before[t] \cup {None}

AnswersInv ==
    /\ Manager!TypeOK /\ CallsOK /\ NewIsOwn /\ LoadingOK
    /\ DeadOK /\ WarmOK
    /\ Manager!StoredAreSearchable

-----------------------------------------------------------------------------

\* Only entries that were made are stored or indexed.
LEMMA AnswersTypeStep ==
    ASSUME NoneIsApart PROVE Manager!TypeOK /\ CallsOK /\ LoadingOK /\ [Manager!Next]_Manager!vars => Manager!TypeOK'
<1> SUFFICES ASSUME Manager!TypeOK, CallsOK, LoadingOK, [Manager!Next]_Manager!vars PROVE Manager!TypeOK'
  OBVIOUS
<1> USE DEF NoneIsApart, Manager!TypeOK, CallsOK, CallOK, Manager!Answering, Manager!Deleting,
         Manager!storage, Manager!startup, Manager!history,
         Manager!Goto, Manager!Return, LoadingOK
<1>1. ASSUME NEW t \in Callers, NEW p \in Topics, Manager!BeginGet(t, p) PROVE Manager!TypeOK'
  BY <1>1 DEF Manager!BeginGet
<1>2. ASSUME NEW t \in Callers, NEW e \in Entries, Manager!BeginDelete(t, e) PROVE Manager!TypeOK'
  BY <1>2 DEF Manager!BeginDelete, Manager!Cool
<1>3. ASSUME NEW t \in Callers, NEW e \in Entries, Manager!SearchMatch(t, e) PROVE Manager!TypeOK'
  BY <1>3 DEF Manager!SearchMatch
<1>4. ASSUME NEW t \in Callers, Manager!SearchNothing(t) PROVE Manager!TypeOK'
  BY <1>4 DEF Manager!SearchNothing
<1>5. ASSUME NEW t \in Callers, Manager!Hit(t) PROVE Manager!TypeOK'
  BY <1>5 DEF Manager!Hit
<1>6. ASSUME NEW t \in Callers, Manager!Stale(t) PROVE Manager!TypeOK'
  BY <1>6 DEF Manager!Stale, Manager!Readable
<1>7. ASSUME NEW t \in Callers, Manager!Forget(t) PROVE Manager!TypeOK'
  BY <1>7 DEF Manager!Forget
<1>8. ASSUME NEW t \in Callers, Manager!ForgetRaises(t) PROVE Manager!TypeOK'
  BY <1>8 DEF Manager!ForgetRaises
<1>9. ASSUME NEW t \in Callers, Manager!Generate(t) PROVE Manager!TypeOK'
  BY <1>9 DEF Manager!Generate
<1>10. ASSUME NEW t \in Callers, Manager!GetRaises(t) PROVE Manager!TypeOK'
  BY <1>10 DEF Manager!GetRaises
<1>11. ASSUME NEW t \in Callers, Manager!Put(t) PROVE Manager!TypeOK'
  BY <1>11 DEF Manager!Put
<1>12. ASSUME NEW t \in Callers, Manager!PutRaises(t) PROVE Manager!TypeOK'
  BY <1>12 DEF Manager!PutRaises
<1>13. ASSUME NEW t \in Callers, Manager!Add(t) PROVE Manager!TypeOK'
  BY <1>13 DEF Manager!Add, Manager!Warm
<1>14. ASSUME NEW t \in Callers, Manager!AddRaises(t) PROVE Manager!TypeOK'
  BY <1>14 DEF Manager!AddRaises
<1>15. ASSUME NEW t \in Callers, Manager!Delete(t) PROVE Manager!TypeOK'
  BY <1>15 DEF Manager!Delete
<1>16. ASSUME NEW t \in Callers, Manager!DeleteMissing(t) PROVE Manager!TypeOK'
  BY <1>16 DEF Manager!DeleteMissing
<1>17. ASSUME NEW t \in Callers, Manager!DeleteRaises(t) PROVE Manager!TypeOK'
  BY <1>17 DEF Manager!DeleteRaises
<1>18. ASSUME NEW t \in Callers, Manager!Unindex(t) PROVE Manager!TypeOK'
  BY <1>18 DEF Manager!Unindex
<1>19. CASE Manager!Restart
  BY <1>19 DEF Manager!Restart
<1>20. ASSUME NEW e \in Entries, Manager!LoadKnown(e) PROVE Manager!TypeOK'
  BY <1>20 DEF Manager!LoadKnown
<1>21. CASE Manager!LoadEntry
  BY <1>21 DEF Manager!LoadEntry, Manager!Readable
<1>22. CASE Manager!LoadMissing
  BY <1>22 DEF Manager!LoadMissing, Manager!Readable
<1>23. CASE Manager!LoadAdd
  BY <1>23 DEF Manager!LoadAdd
<1>24. CASE Manager!LoadRaises
  BY <1>24 DEF Manager!LoadRaises
<1>25. CASE Manager!Ready
  BY <1>25 DEF Manager!Ready
<1>26. CASE UNCHANGED Manager!vars
  BY <1>26 DEF Manager!vars
<1>27. QED
  BY <1>1, <1>2, <1>3, <1>4, <1>5, <1>6, <1>7, <1>8, <1>9, <1>10, <1>11, <1>12, <1>13, <1>14,
     <1>15, <1>16, <1>17, <1>18, <1>19, <1>20, <1>21, <1>22, <1>23, <1>24, <1>25, <1>26
  DEF Manager!Next, Manager!Get, Manager!Load

\* An entry that is gone from the store does not come back: Put makes new ones.
LEMMA CallsStep ==
    ASSUME NoneIsApart PROVE Manager!TypeOK /\ CallsOK /\ NewIsOwn /\ LoadingOK /\ [Manager!Next]_Manager!vars => CallsOK'
<1> SUFFICES ASSUME Manager!TypeOK, CallsOK, NewIsOwn, LoadingOK, [Manager!Next]_Manager!vars PROVE CallsOK'
  OBVIOUS
<1> USE DEF NoneIsApart, Manager!TypeOK, CallsOK, CallOK, Manager!Answering, Manager!Deleting,
         Manager!storage, Manager!startup, Manager!history,
         Manager!Goto, Manager!Return, NewIsOwn, LoadingOK
<1>1. ASSUME NEW t \in Callers, NEW p \in Topics, Manager!BeginGet(t, p) PROVE CallsOK'
  BY <1>1 DEF Manager!BeginGet
<1>2. ASSUME NEW t \in Callers, NEW e \in Entries, Manager!BeginDelete(t, e) PROVE CallsOK'
  BY <1>2 DEF Manager!BeginDelete, Manager!Cool
<1>3. ASSUME NEW t \in Callers, NEW e \in Entries, Manager!SearchMatch(t, e) PROVE CallsOK'
  BY <1>3 DEF Manager!SearchMatch
<1>4. ASSUME NEW t \in Callers, Manager!SearchNothing(t) PROVE CallsOK'
  BY <1>4 DEF Manager!SearchNothing
<1>5. ASSUME NEW t \in Callers, Manager!Hit(t) PROVE CallsOK'
  BY <1>5 DEF Manager!Hit
<1>6. ASSUME NEW t \in Callers, Manager!Stale(t) PROVE CallsOK'
  BY <1>6 DEF Manager!Stale, Manager!Readable
<1>7. ASSUME NEW t \in Callers, Manager!Forget(t) PROVE CallsOK'
  BY <1>7 DEF Manager!Forget
<1>8. ASSUME NEW t \in Callers, Manager!ForgetRaises(t) PROVE CallsOK'
  BY <1>8 DEF Manager!ForgetRaises
<1>9. ASSUME NEW t \in Callers, Manager!Generate(t) PROVE CallsOK'
  BY <1>9 DEF Manager!Generate
<1>10. ASSUME NEW t \in Callers, Manager!GetRaises(t) PROVE CallsOK'
  BY <1>10 DEF Manager!GetRaises
<1>11. ASSUME NEW t \in Callers, Manager!Put(t) PROVE CallsOK'
  BY <1>11 DEF Manager!Put
<1>12. ASSUME NEW t \in Callers, Manager!PutRaises(t) PROVE CallsOK'
  BY <1>12 DEF Manager!PutRaises
<1>13. ASSUME NEW t \in Callers, Manager!Add(t) PROVE CallsOK'
  BY <1>13 DEF Manager!Add, Manager!Warm
<1>14. ASSUME NEW t \in Callers, Manager!AddRaises(t) PROVE CallsOK'
  BY <1>14 DEF Manager!AddRaises
<1>15. ASSUME NEW t \in Callers, Manager!Delete(t) PROVE CallsOK'
  BY <1>15 DEF Manager!Delete
<1>16. ASSUME NEW t \in Callers, Manager!DeleteMissing(t) PROVE CallsOK'
  BY <1>16 DEF Manager!DeleteMissing
<1>17. ASSUME NEW t \in Callers, Manager!DeleteRaises(t) PROVE CallsOK'
  BY <1>17 DEF Manager!DeleteRaises
<1>18. ASSUME NEW t \in Callers, Manager!Unindex(t) PROVE CallsOK'
  BY <1>18 DEF Manager!Unindex
<1>19. CASE Manager!Restart
  BY <1>19 DEF Manager!Restart
<1>20. ASSUME NEW e \in Entries, Manager!LoadKnown(e) PROVE CallsOK'
  BY <1>20 DEF Manager!LoadKnown
<1>21. CASE Manager!LoadEntry
  BY <1>21 DEF Manager!LoadEntry, Manager!Readable
<1>22. CASE Manager!LoadMissing
  BY <1>22 DEF Manager!LoadMissing, Manager!Readable
<1>23. CASE Manager!LoadAdd
  BY <1>23 DEF Manager!LoadAdd
<1>24. CASE Manager!LoadRaises
  BY <1>24 DEF Manager!LoadRaises
<1>25. CASE Manager!Ready
  BY <1>25 DEF Manager!Ready
<1>26. CASE UNCHANGED Manager!vars
  BY <1>26 DEF Manager!vars
<1>27. QED
  BY <1>1, <1>2, <1>3, <1>4, <1>5, <1>6, <1>7, <1>8, <1>9, <1>10, <1>11, <1>12, <1>13, <1>14,
     <1>15, <1>16, <1>17, <1>18, <1>19, <1>20, <1>21, <1>22, <1>23, <1>24, <1>25, <1>26
  DEF Manager!Next, Manager!Get, Manager!Load

\* Before its Add an entry is not in the index, where another call could find it.
LEMMA NewIsOwnStep ==
    ASSUME NoneIsApart PROVE Manager!TypeOK /\ CallsOK /\ NewIsOwn /\ [Manager!Next]_Manager!vars => NewIsOwn'
<1> SUFFICES ASSUME Manager!TypeOK, CallsOK, NewIsOwn, [Manager!Next]_Manager!vars PROVE NewIsOwn'
  OBVIOUS
<1> USE DEF NoneIsApart, Manager!TypeOK, CallsOK, CallOK, Manager!Answering, Manager!Deleting,
         Manager!storage, Manager!startup, Manager!history,
         Manager!Goto, Manager!Return, NewIsOwn
<1>1. ASSUME NEW t \in Callers, NEW p \in Topics, Manager!BeginGet(t, p) PROVE NewIsOwn'
  BY <1>1 DEF Manager!BeginGet
<1>2. ASSUME NEW t \in Callers, NEW e \in Entries, Manager!BeginDelete(t, e) PROVE NewIsOwn'
  BY <1>2 DEF Manager!BeginDelete, Manager!Cool
<1>3. ASSUME NEW t \in Callers, NEW e \in Entries, Manager!SearchMatch(t, e) PROVE NewIsOwn'
  BY <1>3 DEF Manager!SearchMatch
<1>4. ASSUME NEW t \in Callers, Manager!SearchNothing(t) PROVE NewIsOwn'
  BY <1>4 DEF Manager!SearchNothing
<1>5. ASSUME NEW t \in Callers, Manager!Hit(t) PROVE NewIsOwn'
  BY <1>5 DEF Manager!Hit
<1>6. ASSUME NEW t \in Callers, Manager!Stale(t) PROVE NewIsOwn'
  BY <1>6 DEF Manager!Stale, Manager!Readable
<1>7. ASSUME NEW t \in Callers, Manager!Forget(t) PROVE NewIsOwn'
  BY <1>7 DEF Manager!Forget
<1>8. ASSUME NEW t \in Callers, Manager!ForgetRaises(t) PROVE NewIsOwn'
  BY <1>8 DEF Manager!ForgetRaises
<1>9. ASSUME NEW t \in Callers, Manager!Generate(t) PROVE NewIsOwn'
  BY <1>9 DEF Manager!Generate
<1>10. ASSUME NEW t \in Callers, Manager!GetRaises(t) PROVE NewIsOwn'
  BY <1>10 DEF Manager!GetRaises
<1>11. ASSUME NEW t \in Callers, Manager!Put(t) PROVE NewIsOwn'
  BY <1>11 DEF Manager!Put
<1>12. ASSUME NEW t \in Callers, Manager!PutRaises(t) PROVE NewIsOwn'
  BY <1>12 DEF Manager!PutRaises
<1>13. ASSUME NEW t \in Callers, Manager!Add(t) PROVE NewIsOwn'
  BY <1>13 DEF Manager!Add, Manager!Warm
<1>14. ASSUME NEW t \in Callers, Manager!AddRaises(t) PROVE NewIsOwn'
  BY <1>14 DEF Manager!AddRaises
<1>15. ASSUME NEW t \in Callers, Manager!Delete(t) PROVE NewIsOwn'
  BY <1>15 DEF Manager!Delete
<1>16. ASSUME NEW t \in Callers, Manager!DeleteMissing(t) PROVE NewIsOwn'
  BY <1>16 DEF Manager!DeleteMissing
<1>17. ASSUME NEW t \in Callers, Manager!DeleteRaises(t) PROVE NewIsOwn'
  BY <1>17 DEF Manager!DeleteRaises
<1>18. ASSUME NEW t \in Callers, Manager!Unindex(t) PROVE NewIsOwn'
  BY <1>18 DEF Manager!Unindex
<1>19. CASE Manager!Restart
  BY <1>19 DEF Manager!Restart
<1>20. ASSUME NEW e \in Entries, Manager!LoadKnown(e) PROVE NewIsOwn'
  BY <1>20 DEF Manager!LoadKnown
<1>21. CASE Manager!LoadEntry
  BY <1>21 DEF Manager!LoadEntry, Manager!Readable
<1>22. CASE Manager!LoadMissing
  BY <1>22 DEF Manager!LoadMissing, Manager!Readable
<1>23. CASE Manager!LoadAdd
  BY <1>23 DEF Manager!LoadAdd
<1>24. CASE Manager!LoadRaises
  BY <1>24 DEF Manager!LoadRaises
<1>25. CASE Manager!Ready
  BY <1>25 DEF Manager!Ready
<1>26. CASE UNCHANGED Manager!vars
  BY <1>26 DEF Manager!vars
<1>27. QED
  BY <1>1, <1>2, <1>3, <1>4, <1>5, <1>6, <1>7, <1>8, <1>9, <1>10, <1>11, <1>12, <1>13, <1>14,
     <1>15, <1>16, <1>17, <1>18, <1>19, <1>20, <1>21, <1>22, <1>23, <1>24, <1>25, <1>26
  DEF Manager!Next, Manager!Get, Manager!Load

\* An entry leaves the list of the load only into the index, or because it was deleted.
LEMMA LoadingStep ==
    ASSUME NoneIsApart PROVE Manager!TypeOK /\ CallsOK /\ LoadingOK /\ [Manager!Next]_Manager!vars => LoadingOK'
<1> SUFFICES ASSUME Manager!TypeOK, CallsOK, LoadingOK, [Manager!Next]_Manager!vars PROVE LoadingOK'
  OBVIOUS
<1> USE DEF NoneIsApart, Manager!TypeOK, CallsOK, CallOK, Manager!Answering, Manager!Deleting,
         Manager!storage, Manager!startup, Manager!history,
         Manager!Goto, Manager!Return, LoadingOK
<1>1. ASSUME NEW t \in Callers, NEW p \in Topics, Manager!BeginGet(t, p) PROVE LoadingOK'
  BY <1>1 DEF Manager!BeginGet
<1>2. ASSUME NEW t \in Callers, NEW e \in Entries, Manager!BeginDelete(t, e) PROVE LoadingOK'
  BY <1>2 DEF Manager!BeginDelete, Manager!Cool
<1>3. ASSUME NEW t \in Callers, NEW e \in Entries, Manager!SearchMatch(t, e) PROVE LoadingOK'
  BY <1>3 DEF Manager!SearchMatch
<1>4. ASSUME NEW t \in Callers, Manager!SearchNothing(t) PROVE LoadingOK'
  BY <1>4 DEF Manager!SearchNothing
<1>5. ASSUME NEW t \in Callers, Manager!Hit(t) PROVE LoadingOK'
  BY <1>5 DEF Manager!Hit
<1>6. ASSUME NEW t \in Callers, Manager!Stale(t) PROVE LoadingOK'
  BY <1>6 DEF Manager!Stale, Manager!Readable
<1>7. ASSUME NEW t \in Callers, Manager!Forget(t) PROVE LoadingOK'
  BY <1>7 DEF Manager!Forget
<1>8. ASSUME NEW t \in Callers, Manager!ForgetRaises(t) PROVE LoadingOK'
  BY <1>8 DEF Manager!ForgetRaises
<1>9. ASSUME NEW t \in Callers, Manager!Generate(t) PROVE LoadingOK'
  BY <1>9 DEF Manager!Generate
<1>10. ASSUME NEW t \in Callers, Manager!GetRaises(t) PROVE LoadingOK'
  BY <1>10 DEF Manager!GetRaises
<1>11. ASSUME NEW t \in Callers, Manager!Put(t) PROVE LoadingOK'
  BY <1>11 DEF Manager!Put
<1>12. ASSUME NEW t \in Callers, Manager!PutRaises(t) PROVE LoadingOK'
  BY <1>12 DEF Manager!PutRaises
<1>13. ASSUME NEW t \in Callers, Manager!Add(t) PROVE LoadingOK'
  BY <1>13 DEF Manager!Add, Manager!Warm
<1>14. ASSUME NEW t \in Callers, Manager!AddRaises(t) PROVE LoadingOK'
  BY <1>14 DEF Manager!AddRaises
<1>15. ASSUME NEW t \in Callers, Manager!Delete(t) PROVE LoadingOK'
  BY <1>15 DEF Manager!Delete
<1>16. ASSUME NEW t \in Callers, Manager!DeleteMissing(t) PROVE LoadingOK'
  BY <1>16 DEF Manager!DeleteMissing
<1>17. ASSUME NEW t \in Callers, Manager!DeleteRaises(t) PROVE LoadingOK'
  BY <1>17 DEF Manager!DeleteRaises
<1>18. ASSUME NEW t \in Callers, Manager!Unindex(t) PROVE LoadingOK'
  BY <1>18 DEF Manager!Unindex
<1>19. CASE Manager!Restart
  BY <1>19 DEF Manager!Restart
<1>20. ASSUME NEW e \in Entries, Manager!LoadKnown(e) PROVE LoadingOK'
  BY <1>20 DEF Manager!LoadKnown
<1>21. CASE Manager!LoadEntry
  BY <1>21 DEF Manager!LoadEntry, Manager!Readable
<1>22. CASE Manager!LoadMissing
  BY <1>22 DEF Manager!LoadMissing, Manager!Readable
<1>23. CASE Manager!LoadAdd
  BY <1>23 DEF Manager!LoadAdd
<1>24. CASE Manager!LoadRaises
  BY <1>24 DEF Manager!LoadRaises
<1>25. CASE Manager!Ready
  BY <1>25 DEF Manager!Ready
<1>26. CASE UNCHANGED Manager!vars
  BY <1>26 DEF Manager!vars
<1>27. QED
  BY <1>1, <1>2, <1>3, <1>4, <1>5, <1>6, <1>7, <1>8, <1>9, <1>10, <1>11, <1>12, <1>13, <1>14,
     <1>15, <1>16, <1>17, <1>18, <1>19, <1>20, <1>21, <1>22, <1>23, <1>24, <1>25, <1>26
  DEF Manager!Next, Manager!Get, Manager!Load

\* A call that meets a dead entry takes it out of the index, where nothing puts it back.
LEMMA DeadStep ==
    ASSUME NoneIsApart PROVE Manager!TypeOK /\ CallsOK /\ NewIsOwn /\ DeadOK /\ [Manager!Next]_Manager!vars => DeadOK'
<1> SUFFICES ASSUME Manager!TypeOK, CallsOK, NewIsOwn, DeadOK, [Manager!Next]_Manager!vars PROVE DeadOK'
  OBVIOUS
<1> USE DEF NoneIsApart, Manager!TypeOK, CallsOK, CallOK, Manager!Answering, Manager!Deleting,
         Manager!storage, Manager!startup, Manager!history,
         Manager!Goto, Manager!Return, NewIsOwn, DeadOK
<1>1. ASSUME NEW t \in Callers, NEW p \in Topics, Manager!BeginGet(t, p) PROVE DeadOK'
  BY <1>1 DEF Manager!BeginGet
<1>2. ASSUME NEW t \in Callers, NEW e \in Entries, Manager!BeginDelete(t, e) PROVE DeadOK'
  BY <1>2 DEF Manager!BeginDelete, Manager!Cool
<1>3. ASSUME NEW t \in Callers, NEW e \in Entries, Manager!SearchMatch(t, e) PROVE DeadOK'
  BY <1>3 DEF Manager!SearchMatch
<1>4. ASSUME NEW t \in Callers, Manager!SearchNothing(t) PROVE DeadOK'
  BY <1>4 DEF Manager!SearchNothing
<1>5. ASSUME NEW t \in Callers, Manager!Hit(t) PROVE DeadOK'
  BY <1>5 DEF Manager!Hit
<1>6. ASSUME NEW t \in Callers, Manager!Stale(t) PROVE DeadOK'
  BY <1>6 DEF Manager!Stale, Manager!Readable
<1>7. ASSUME NEW t \in Callers, Manager!Forget(t) PROVE DeadOK'
  BY <1>7 DEF Manager!Forget
<1>8. ASSUME NEW t \in Callers, Manager!ForgetRaises(t) PROVE DeadOK'
  BY <1>8 DEF Manager!ForgetRaises
<1>9. ASSUME NEW t \in Callers, Manager!Generate(t) PROVE DeadOK'
  BY <1>9 DEF Manager!Generate
<1>10. ASSUME NEW t \in Callers, Manager!GetRaises(t) PROVE DeadOK'
  BY <1>10 DEF Manager!GetRaises
<1>11. ASSUME NEW t \in Callers, Manager!Put(t) PROVE DeadOK'
  BY <1>11 DEF Manager!Put
<1>12. ASSUME NEW t \in Callers, Manager!PutRaises(t) PROVE DeadOK'
  BY <1>12 DEF Manager!PutRaises
<1>13. ASSUME NEW t \in Callers, Manager!Add(t) PROVE DeadOK'
  BY <1>13 DEF Manager!Add, Manager!Warm
<1>14. ASSUME NEW t \in Callers, Manager!AddRaises(t) PROVE DeadOK'
  BY <1>14 DEF Manager!AddRaises
<1>15. ASSUME NEW t \in Callers, Manager!Delete(t) PROVE DeadOK'
  BY <1>15 DEF Manager!Delete
<1>16. ASSUME NEW t \in Callers, Manager!DeleteMissing(t) PROVE DeadOK'
  BY <1>16 DEF Manager!DeleteMissing
<1>17. ASSUME NEW t \in Callers, Manager!DeleteRaises(t) PROVE DeadOK'
  BY <1>17 DEF Manager!DeleteRaises
<1>18. ASSUME NEW t \in Callers, Manager!Unindex(t) PROVE DeadOK'
  BY <1>18 DEF Manager!Unindex
<1>19. CASE Manager!Restart
  BY <1>19 DEF Manager!Restart
<1>20. ASSUME NEW e \in Entries, Manager!LoadKnown(e) PROVE DeadOK'
  BY <1>20 DEF Manager!LoadKnown
<1>21. CASE Manager!LoadEntry
  BY <1>21 DEF Manager!LoadEntry, Manager!Readable
<1>22. CASE Manager!LoadMissing
  BY <1>22 DEF Manager!LoadMissing, Manager!Readable
<1>23. CASE Manager!LoadAdd
  BY <1>23 DEF Manager!LoadAdd
<1>24. CASE Manager!LoadRaises
  BY <1>24 DEF Manager!LoadRaises
<1>25. CASE Manager!Ready
  BY <1>25 DEF Manager!Ready
<1>26. CASE UNCHANGED Manager!vars
  BY <1>26 DEF Manager!vars
<1>27. QED
  BY <1>1, <1>2, <1>3, <1>4, <1>5, <1>6, <1>7, <1>8, <1>9, <1>10, <1>11, <1>12, <1>13, <1>14,
     <1>15, <1>16, <1>17, <1>18, <1>19, <1>20, <1>21, <1>22, <1>23, <1>24, <1>25, <1>26
  DEF Manager!Next, Manager!Get, Manager!Load

\* Only a delete takes the stored entry of a topic away, and it cools the topic and its calls first.
LEMMA WarmStep ==
    ASSUME NoneIsApart PROVE Manager!TypeOK /\ CallsOK /\ DeadOK /\ WarmOK /\ [Manager!Next]_Manager!vars => WarmOK'
<1> SUFFICES ASSUME Manager!TypeOK, CallsOK, DeadOK, WarmOK, [Manager!Next]_Manager!vars PROVE WarmOK'
  OBVIOUS
<1> USE DEF NoneIsApart, Manager!TypeOK, CallsOK, CallOK, Manager!Answering, Manager!Deleting,
         Manager!storage, Manager!startup, Manager!history,
         Manager!Goto, Manager!Return, DeadOK, WarmOK
<1>1. ASSUME NEW t \in Callers, NEW p \in Topics, Manager!BeginGet(t, p) PROVE WarmOK'
  BY <1>1 DEF Manager!BeginGet
<1>2. ASSUME NEW t \in Callers, NEW e \in Entries, Manager!BeginDelete(t, e) PROVE WarmOK'
  BY <1>2 DEF Manager!BeginDelete, Manager!Cool
<1>3. ASSUME NEW t \in Callers, NEW e \in Entries, Manager!SearchMatch(t, e) PROVE WarmOK'
  BY <1>3 DEF Manager!SearchMatch
<1>4. ASSUME NEW t \in Callers, Manager!SearchNothing(t) PROVE WarmOK'
  BY <1>4 DEF Manager!SearchNothing
<1>5. ASSUME NEW t \in Callers, Manager!Hit(t) PROVE WarmOK'
  BY <1>5 DEF Manager!Hit
<1>6. ASSUME NEW t \in Callers, Manager!Stale(t) PROVE WarmOK'
  BY <1>6 DEF Manager!Stale, Manager!Readable
<1>7. ASSUME NEW t \in Callers, Manager!Forget(t) PROVE WarmOK'
  BY <1>7 DEF Manager!Forget
<1>8. ASSUME NEW t \in Callers, Manager!ForgetRaises(t) PROVE WarmOK'
  BY <1>8 DEF Manager!ForgetRaises
<1>9. ASSUME NEW t \in Callers, Manager!Generate(t) PROVE WarmOK'
  BY <1>9 DEF Manager!Generate
<1>10. ASSUME NEW t \in Callers, Manager!GetRaises(t) PROVE WarmOK'
  BY <1>10 DEF Manager!GetRaises
<1>11. ASSUME NEW t \in Callers, Manager!Put(t) PROVE WarmOK'
  BY <1>11 DEF Manager!Put
<1>12. ASSUME NEW t \in Callers, Manager!PutRaises(t) PROVE WarmOK'
  BY <1>12 DEF Manager!PutRaises
<1>13. ASSUME NEW t \in Callers, Manager!Add(t) PROVE WarmOK'
  BY <1>13 DEF Manager!Add, Manager!Warm, Manager!Fading
<1>14. ASSUME NEW t \in Callers, Manager!AddRaises(t) PROVE WarmOK'
  BY <1>14 DEF Manager!AddRaises
<1>15. ASSUME NEW t \in Callers, Manager!Delete(t) PROVE WarmOK'
  BY <1>15 DEF Manager!Delete
<1>16. ASSUME NEW t \in Callers, Manager!DeleteMissing(t) PROVE WarmOK'
  BY <1>16 DEF Manager!DeleteMissing
<1>17. ASSUME NEW t \in Callers, Manager!DeleteRaises(t) PROVE WarmOK'
  BY <1>17 DEF Manager!DeleteRaises
<1>18. ASSUME NEW t \in Callers, Manager!Unindex(t) PROVE WarmOK'
  BY <1>18 DEF Manager!Unindex
<1>19. CASE Manager!Restart
  BY <1>19 DEF Manager!Restart
<1>20. ASSUME NEW e \in Entries, Manager!LoadKnown(e) PROVE WarmOK'
  BY <1>20 DEF Manager!LoadKnown
<1>21. CASE Manager!LoadEntry
  BY <1>21 DEF Manager!LoadEntry, Manager!Readable
<1>22. CASE Manager!LoadMissing
  BY <1>22 DEF Manager!LoadMissing, Manager!Readable
<1>23. CASE Manager!LoadAdd
  BY <1>23 DEF Manager!LoadAdd
<1>24. CASE Manager!LoadRaises
  BY <1>24 DEF Manager!LoadRaises
<1>25. CASE Manager!Ready
  BY <1>25 DEF Manager!Ready
<1>26. CASE UNCHANGED Manager!vars
  BY <1>26 DEF Manager!vars
<1>27. QED
  BY <1>1, <1>2, <1>3, <1>4, <1>5, <1>6, <1>7, <1>8, <1>9, <1>10, <1>11, <1>12, <1>13, <1>14,
     <1>15, <1>16, <1>17, <1>18, <1>19, <1>20, <1>21, <1>22, <1>23, <1>24, <1>25, <1>26
  DEF Manager!Next, Manager!Get, Manager!Load

\* What a call removes from the index is not stored any more, and a ready manager has loaded all.
LEMMA SearchableStep ==
    ASSUME NoneIsApart
    PROVE  Manager!TypeOK /\ CallsOK /\ LoadingOK /\ Manager!StoredAreSearchable /\ [Manager!Next]_Manager!vars
               => Manager!StoredAreSearchable'
<1> SUFFICES ASSUME Manager!TypeOK, CallsOK, LoadingOK, Manager!StoredAreSearchable, [Manager!Next]_Manager!vars
             PROVE  Manager!StoredAreSearchable'
  OBVIOUS
<1> USE DEF NoneIsApart, Manager!TypeOK, CallsOK, CallOK, Manager!Answering, Manager!Deleting,
         Manager!storage, Manager!startup, Manager!history,
         Manager!Goto, Manager!Return, LoadingOK, Manager!StoredAreSearchable, Manager!Indexing
<1>1. ASSUME NEW t \in Callers, NEW p \in Topics, Manager!BeginGet(t, p) PROVE Manager!StoredAreSearchable'
  BY <1>1 DEF Manager!BeginGet
<1>2. ASSUME NEW t \in Callers, NEW e \in Entries, Manager!BeginDelete(t, e) PROVE Manager!StoredAreSearchable'
  BY <1>2 DEF Manager!BeginDelete, Manager!Cool
<1>3. ASSUME NEW t \in Callers, NEW e \in Entries, Manager!SearchMatch(t, e) PROVE Manager!StoredAreSearchable'
  BY <1>3 DEF Manager!SearchMatch
<1>4. ASSUME NEW t \in Callers, Manager!SearchNothing(t) PROVE Manager!StoredAreSearchable'
  BY <1>4 DEF Manager!SearchNothing
<1>5. ASSUME NEW t \in Callers, Manager!Hit(t) PROVE Manager!StoredAreSearchable'
  BY <1>5 DEF Manager!Hit
<1>6. ASSUME NEW t \in Callers, Manager!Stale(t) PROVE Manager!StoredAreSearchable'
  BY <1>6 DEF Manager!Stale, Manager!Readable
<1>7. ASSUME NEW t \in Callers, Manager!Forget(t) PROVE Manager!StoredAreSearchable'
  BY <1>7 DEF Manager!Forget
<1>8. ASSUME NEW t \in Callers, Manager!ForgetRaises(t) PROVE Manager!StoredAreSearchable'
  BY <1>8 DEF Manager!ForgetRaises
<1>9. ASSUME NEW t \in Callers, Manager!Generate(t) PROVE Manager!StoredAreSearchable'
  BY <1>9 DEF Manager!Generate
<1>10. ASSUME NEW t \in Callers, Manager!GetRaises(t) PROVE Manager!StoredAreSearchable'
  BY <1>10 DEF Manager!GetRaises
<1>11. ASSUME NEW t \in Callers, Manager!Put(t) PROVE Manager!StoredAreSearchable'
  BY <1>11 DEF Manager!Put
<1>12. ASSUME NEW t \in Callers, Manager!PutRaises(t) PROVE Manager!StoredAreSearchable'
  BY <1>12 DEF Manager!PutRaises
<1>13. ASSUME NEW t \in Callers, Manager!Add(t) PROVE Manager!StoredAreSearchable'
  BY <1>13 DEF Manager!Add, Manager!Warm
<1>14. ASSUME NEW t \in Callers, Manager!AddRaises(t) PROVE Manager!StoredAreSearchable'
  BY <1>14 DEF Manager!AddRaises
<1>15. ASSUME NEW t \in Callers, Manager!Delete(t) PROVE Manager!StoredAreSearchable'
  BY <1>15 DEF Manager!Delete
<1>16. ASSUME NEW t \in Callers, Manager!DeleteMissing(t) PROVE Manager!StoredAreSearchable'
  BY <1>16 DEF Manager!DeleteMissing
<1>17. ASSUME NEW t \in Callers, Manager!DeleteRaises(t) PROVE Manager!StoredAreSearchable'
  BY <1>17 DEF Manager!DeleteRaises
<1>18. ASSUME NEW t \in Callers, Manager!Unindex(t) PROVE Manager!StoredAreSearchable'
  BY <1>18 DEF Manager!Unindex
<1>19. CASE Manager!Restart
  BY <1>19 DEF Manager!Restart
<1>20. ASSUME NEW e \in Entries, Manager!LoadKnown(e) PROVE Manager!StoredAreSearchable'
  BY <1>20 DEF Manager!LoadKnown
<1>21. CASE Manager!LoadEntry
  BY <1>21 DEF Manager!LoadEntry, Manager!Readable
<1>22. CASE Manager!LoadMissing
  BY <1>22 DEF Manager!LoadMissing, Manager!Readable
<1>23. CASE Manager!LoadAdd
  BY <1>23 DEF Manager!LoadAdd
<1>24. CASE Manager!LoadRaises
  BY <1>24 DEF Manager!LoadRaises
<1>25. CASE Manager!Ready
  BY <1>25 DEF Manager!Ready
<1>26. CASE UNCHANGED Manager!vars
  BY <1>26 DEF Manager!vars
<1>27. QED
  BY <1>1, <1>2, <1>3, <1>4, <1>5, <1>6, <1>7, <1>8, <1>9, <1>10, <1>11, <1>12, <1>13, <1>14,
     <1>15, <1>16, <1>17, <1>18, <1>19, <1>20, <1>21, <1>22, <1>23, <1>24, <1>25, <1>26
  DEF Manager!Next, Manager!Get, Manager!Load

\* The invariant holds initially and after every step.
LEMMA AnswersInit == ASSUME NoneIsApart PROVE Manager!Init => AnswersInv
<1> USE DEF NoneIsApart, Manager!Init
<1>1. Manager!Init => Manager!TypeOK /\ CallsOK /\ NewIsOwn /\ LoadingOK
  BY DEF Manager!TypeOK, CallsOK, CallOK, Manager!Answering, Manager!Deleting, NewIsOwn, LoadingOK
<1>2. Manager!Init => DeadOK /\ WarmOK /\ Manager!StoredAreSearchable
  BY DEF DeadOK, WarmOK, Manager!StoredAreSearchable, Manager!Deleting
<1>3. QED
  BY <1>1, <1>2 DEF AnswersInv

LEMMA AnswersStep == ASSUME NoneIsApart PROVE AnswersInv /\ [Manager!Next]_Manager!vars => AnswersInv'
BY AnswersTypeStep, CallsStep, NewIsOwnStep, LoadingStep, DeadStep, WarmStep, SearchableStep DEF AnswersInv

-----------------------------------------------------------------------------
(* The embedding cache. *)

\* The cache is the end of the list of all texts since the last clear.
Behind(s, u) == Len(s) <= Len(u) /\ \A i \in 1..Len(s) : s[i] = u[Len(u) - Len(s) + i]

Popping  == {t \in Embedders : embedding_at[t] = "pop"}
Checking == {t \in Embedders : embedding_at[t] = "check"}

\* Each thread that is about to pop was let through by a cache over its limit, or has a thread beside
\* it that has not decided yet; or nothing was looked up since the last clear.
RoomLeft ==
    \/ Len(cache) + Cardinality(Embedders) > MaxCacheSize + Cardinality(Popping)
    \/ (Len(touched) - Len(cache)) + Cardinality(Popping) < Cardinality(Embedders)
    \/ touched = <<>>

OverLimit == Len(cache) <= MaxCacheSize + Cardinality(Popping \cup Checking)

CacheInv ==
    /\ Embedder!TypeOK
    /\ touched \in Seq(Texts) /\ Embedder!IsInjective(touched) /\ Behind(cache, touched)
    /\ OverLimit /\ RoomLeft

\* A set of natural numbers has a least one.
LEMMA LeastNumber == ASSUME NEW T \in SUBSET Nat, T # {} PROVE \E i \in T : \A j \in T : i <= j
<1>1. \E i \in T : \A j \in T : ~(<<j, i>> \in OpToRel(<, Nat))
  BY NatLessThanWellFounded, WFMin
<1>2. \A i, j \in T : ~(<<j, i>> \in OpToRel(<, Nat)) => i <= j
  BY DEF OpToRel
<1>3. QED
  BY <1>1, <1>2

\* A member of a list is found at its first place.
LEMMA FirstIndex ==
    ASSUME NEW S, NEW s \in Seq(S), NEW e, e \in Embedder!ToSet(s)
    PROVE  LET m == Embedder!SelectInSeq(s, LAMBDA v : v = e) IN m \in 1..Len(s) /\ s[m] = e
<1> DEFINE I == {i \in 1..Len(s) : s[i] = e}
<1>1. I # {} /\ I \subseteq Nat
  BY DEF Embedder!ToSet
<1>2. PICK i \in I : \A j \in I : i <= j
  <2> HIDE DEF I
  <2>1. QED
    BY <1>1, LeastNumber
<1>3. Embedder!SelectInSeq(s, LAMBDA v : v = e) = Embedder!Min(I)
  BY <1>1 DEF Embedder!SelectInSeq
<1>4. Embedder!Min(I) \in I
  BY <1>2 DEF Embedder!Min
<1>5. QED
  BY <1>3, <1>4

\* The list u is s with x as its last member.
EndsWith(u, s, x) ==
    \/ /\ x \notin Embedder!ToSet(s) /\ Len(u) = Len(s) + 1
       /\ u[Len(s) + 1] = x /\ \A i \in 1..Len(s) : u[i] = s[i]
    \/ \E m \in 1..Len(s) :
          /\ s[m] = x /\ Len(u) = Len(s) /\ u[Len(s)] = x
          /\ \A i \in 1..(Len(s) - 1) : u[i] = IF i < m THEN s[i] ELSE s[i + 1]

\* A new text comes last; one that is there leaves its place and comes last.
LEMMA MovedLast ==
    ASSUME NEW s \in Seq(Texts), NEW x \in Texts, NEW u, u = Embedder!MovedToEnd(s, x)
    PROVE  u \in Seq(Texts) /\ EndsWith(u, s, x)
<1>1. CASE x \notin Embedder!ToSet(s)
  <2>1. u = Append(s, x)
    <3>1. ~\E i \in 1..Len(s) : s[i] = x
      BY <1>1 DEF Embedder!ToSet
    <3>2. Embedder!RemoveFirst(s, x) = s
      BY <3>1 DEF Embedder!RemoveFirst
    <3>3. QED
      BY <3>2 DEF Embedder!MovedToEnd
  <2>2. Append(s, x) \in Seq(Texts) /\ Len(Append(s, x)) = Len(s) + 1 /\ Append(s, x)[Len(s) + 1] = x
        /\ \A i \in 1..Len(s) : Append(s, x)[i] = s[i]
    OBVIOUS
  <2>3. QED
    BY <1>1, <2>1, <2>2 DEF EndsWith
<1>2. CASE x \in Embedder!ToSet(s)
  <2> DEFINE m == Embedder!SelectInSeq(s, LAMBDA v : v = x)
             p == SubSeq(s, 1, m - 1)
             q == SubSeq(s, m + 1, Len(s))
  <2>1. m \in 1..Len(s) /\ s[m] = x
    BY <1>2, FirstIndex
  <2>2. u = Append(p \o q, x)
    BY <2>1 DEF Embedder!MovedToEnd, Embedder!RemoveFirst, Embedder!RemoveAt
  <2> HIDE DEF m
  <2>3. p \in Seq(Texts) /\ Len(p) = m - 1 /\ \A i \in 1..(m - 1) : p[i] = s[i]
    BY <2>1
  <2>4. q \in Seq(Texts) /\ Len(q) = Len(s) - m /\ \A i \in 1..(Len(s) - m) : q[i] = s[i + m]
    BY <2>1
  <2> HIDE DEF p, q
  <2>5. PICK r : r = p \o q
    OBVIOUS
  <2>6. r \in Seq(Texts) /\ Len(r) = Len(s) - 1
    <3>1. r \in Seq(Texts) /\ Len(r) = Len(p) + Len(q)
      BY <2>3, <2>4, <2>5, ConcatProperties
    <3>2. (m - 1) + (Len(s) - m) = Len(s) - 1
      BY <2>1
    <3>3. QED
      BY <2>3, <2>4, <3>1, <3>2
  <2>7. \A i \in 1..Len(r) : r[i] = IF i <= Len(p) THEN p[i] ELSE q[i - Len(p)]
    <3>1. /\ Len(p \o q) = Len(p) + Len(q)
          /\ \A i \in 1..(Len(p) + Len(q)) : (p \o q)[i] = IF i <= Len(p) THEN p[i] ELSE q[i - Len(p)]
      BY <2>3, <2>4, ConcatProperties
    <3>2. QED
      BY <2>5, <3>1
  <2>8. ASSUME NEW i \in 1..(Len(s) - 1) PROVE r[i] = IF i < m THEN s[i] ELSE s[i + 1]
    <3>1. CASE i < m
      BY <3>1, <2>1, <2>3, <2>6, <2>7
    <3>2. CASE i >= m
      <4>1. i - (m - 1) \in 1..(Len(s) - m) /\ i - (m - 1) + m = i + 1
        BY <3>2, <2>1
      <4>2. r[i] = q[i - (m - 1)]
        BY <3>2, <2>1, <2>3, <2>6, <2>7
      <4>3. q[i - (m - 1)] = s[i - (m - 1) + m]
        BY <4>1, <2>4
      <4>4. QED
        BY <3>2, <4>1, <4>2, <4>3, <2>1
    <3>3. QED
      BY <3>1, <3>2, <2>1
  <2>9. Append(r, x) \in Seq(Texts) /\ Len(Append(r, x)) = Len(s) /\ Append(r, x)[Len(s)] = x
        /\ \A i \in 1..(Len(s) - 1) : Append(r, x)[i] = r[i]
    BY <2>6
  <2>10. QED
    BY <2>1, <2>2, <2>5, <2>8, <2>9 DEF EndsWith
<1>3. QED
  BY <1>1, <1>2

\* No text has two places then.
LEMMA MovedIsInjective ==
    ASSUME NEW s \in Seq(Texts), NEW x \in Texts, NEW u, u = Embedder!MovedToEnd(s, x), Embedder!IsInjective(s)
    PROVE  Embedder!IsInjective(u)
<1>1. u \in Seq(Texts)
  BY MovedLast
<1>2. CASE /\ x \notin Embedder!ToSet(s) /\ Len(u) = Len(s) + 1
           /\ u[Len(s) + 1] = x /\ \A i \in 1..Len(s) : u[i] = s[i]
  <2>1. \A i \in 1..Len(s) : u[i] # x
    BY <1>2 DEF Embedder!ToSet
  <2>2. ASSUME NEW i \in 1..(Len(s) + 1), NEW j \in 1..(Len(s) + 1), u[i] = u[j] PROVE i = j
    <3>1. CASE i \in 1..Len(s) /\ j \in 1..Len(s)
      BY <1>2, <2>2, <3>1 DEF Embedder!IsInjective
    <3>2. CASE ~(i \in 1..Len(s) /\ j \in 1..Len(s))
      BY <1>2, <2>1, <2>2, <3>2
    <3>3. QED
      BY <3>1, <3>2
  <2>3. QED
    BY <1>1, <1>2, <2>2 DEF Embedder!IsInjective
<1>3. ASSUME NEW m \in 1..Len(s),
             s[m] = x, Len(u) = Len(s), u[Len(s)] = x,
             \A i \in 1..(Len(s) - 1) : u[i] = IF i < m THEN s[i] ELSE s[i + 1]
      PROVE  Embedder!IsInjective(u)
  <2>1. \A i \in 1..(Len(s) - 1) : u[i] # x
    BY <1>3 DEF Embedder!IsInjective
  <2>2. ASSUME NEW i \in 1..Len(s), NEW j \in 1..Len(s), u[i] = u[j] PROVE i = j
    <3>1. CASE i \in 1..(Len(s) - 1) /\ j \in 1..(Len(s) - 1)
      <4> DEFINE k == IF i < m THEN i ELSE i + 1
                 l == IF j < m THEN j ELSE j + 1
      <4>1. k \in 1..Len(s) /\ l \in 1..Len(s) /\ s[k] = s[l]
        BY <1>3, <2>2, <3>1
      <4>2. k = l
        BY <4>1 DEF Embedder!IsInjective
      <4>3. QED
        BY <4>2, <3>1
    <3>2. CASE ~(i \in 1..(Len(s) - 1) /\ j \in 1..(Len(s) - 1))
      BY <1>3, <2>1, <2>2, <3>2
    <3>3. QED
      BY <3>1, <3>2
  <2>3. QED
    BY <1>1, <1>3, <2>2 DEF Embedder!IsInjective
<1>4. EndsWith(u, s, x)
  BY MovedLast
<1>5. CASE \E m \in 1..Len(s) :
              /\ s[m] = x /\ Len(u) = Len(s) /\ u[Len(s)] = x
              /\ \A i \in 1..(Len(s) - 1) : u[i] = IF i < m THEN s[i] ELSE s[i + 1]
  BY <1>3, <1>5
<1>6. QED
  BY <1>2, <1>4, <1>5 DEF EndsWith

\* The end of a list is a suffix of it, as SequencesExt has it.
LEMMA BehindIsSuffix ==
    ASSUME NEW s \in Seq(Texts), NEW u \in Seq(Texts), Behind(s, u)
    PROVE  Embedder!IsSuffix(s, u)
<1> DEFINE n == Len(s)
           m == Len(u)
           a == [i \in 1..n |-> s[(n - i) + 1]]
           b == [i \in 1..m |-> u[(m - i) + 1]]
<1>1. n \in Nat /\ m \in Nat /\ n <= m /\ \A i \in 1..n : s[i] = u[m - n + i]
  BY DEF Behind
<1>2. Embedder!Reverse(s) = a /\ Embedder!Reverse(u) = b
  BY DEF Embedder!Reverse
<1> HIDE DEF n, m
<1>3. a \in Seq(Texts) /\ Len(a) = n /\ b \in Seq(Texts) /\ Len(b) = m
  <2>1. \A i \in 1..n : (n - i) + 1 \in 1..n
    BY <1>1
  <2>2. \A i \in 1..m : (m - i) + 1 \in 1..m
    BY <1>1
  <2>3. \A i \in 1..n : s[(n - i) + 1] \in Texts
    BY <2>1 DEF n
  <2>4. \A i \in 1..m : u[(m - i) + 1] \in Texts
    BY <2>2 DEF m
  <2>5. QED
    BY <1>1, <2>3, <2>4
<1>4. \A i \in 1..n : a[i] = b[i]
  <2>1. SUFFICES ASSUME NEW i \in 1..n PROVE s[(n - i) + 1] = u[(m - i) + 1]
    BY <1>1
  <2>2. (n - i) + 1 \in 1..n /\ m - n + ((n - i) + 1) = (m - i) + 1
    BY <1>1
  <2>3. QED
    BY <1>1, <2>2
<1> HIDE DEF a, b
<1>5. SubSeq(a, 1, n) = SubSeq(b, 1, n)
  <2>1. PICK p, q : p = SubSeq(a, 1, n) /\ q = SubSeq(b, 1, n)
    OBVIOUS
  <2>2. p \in Seq(Texts) /\ Len(p) = n /\ \A i \in 1..n : p[i] = a[i]
    BY <1>1, <1>3, <2>1
  <2>3. q \in Seq(Texts) /\ Len(q) = n /\ \A i \in 1..n : q[i] = b[i]
    BY <1>1, <1>3, <2>1
  <2>4. p = q
    BY <1>4, <2>2, <2>3, SeqEqual
  <2>5. QED
    BY <2>1, <2>4
<1>6. Embedder!IsPrefix(a, b)
  BY <1>1, <1>3, <1>5 DEF Embedder!IsPrefix
<1>7. QED
  BY <1>2, <1>6 DEF Embedder!IsSuffix

\* A text of the cache that moves to the end there, and among all texts.
LEMMA MoveKeepsBehind ==
    ASSUME NEW c \in Seq(Texts), NEW g \in Seq(Texts), Behind(c, g),
           Embedder!IsInjective(c), Embedder!IsInjective(g), NEW x \in Embedder!ToSet(c),
           NEW d \in Seq(Texts), NEW h \in Seq(Texts), EndsWith(d, c, x), EndsWith(h, g, x)
    PROVE  Behind(d, h) /\ Len(d) = Len(c) /\ Len(h) = Len(g)
<1>1. PICK k \in 1..Len(c) : c[k] = x
  BY DEF Embedder!ToSet
<1>2. Len(c) <= Len(g) /\ \A i \in 1..Len(c) : c[i] = g[Len(g) - Len(c) + i]
  BY DEF Behind
<1>3. PICK m \in 1..Len(c) : /\ c[m] = x /\ Len(d) = Len(c) /\ d[Len(c)] = x
                             /\ \A i \in 1..(Len(c) - 1) : d[i] = IF i < m THEN c[i] ELSE c[i + 1]
  BY DEF EndsWith
<1>4. Len(g) - Len(c) + m \in 1..Len(g) /\ g[Len(g) - Len(c) + m] = x
  BY <1>2, <1>3
<1>5. PICK l \in 1..Len(g) : /\ g[l] = x /\ Len(h) = Len(g) /\ h[Len(g)] = x
                             /\ \A i \in 1..(Len(g) - 1) : h[i] = IF i < l THEN g[i] ELSE g[i + 1]
  <2>1. x \in Embedder!ToSet(g)
    BY <1>4 DEF Embedder!ToSet
  <2>2. QED
    BY <2>1 DEF EndsWith
<1>6. l = Len(g) - Len(c) + m
  <2>1. \A i, j \in 1..Len(g) : g[i] = g[j] => i = j
    BY DEF Embedder!IsInjective
  <2>2. PICK j \in 1..Len(g) : j = Len(g) - Len(c) + m /\ g[j] = x
    BY <1>4
  <2>3. QED
    BY <1>5, <2>1, <2>2
<1>7. ASSUME NEW i \in 1..Len(c) PROVE d[i] = h[Len(g) - Len(c) + i]
  <2>1. CASE i = Len(c)
    BY <1>2, <1>3, <1>5, <2>1
  <2>2. CASE i < Len(c)
    <3>1. i \in 1..(Len(c) - 1) /\ i + 1 \in 1..Len(c) /\ Len(g) - Len(c) + i \in 1..(Len(g) - 1)
      BY <1>2, <2>2
    <3>2. c[i] = g[Len(g) - Len(c) + i] /\ c[i + 1] = g[Len(g) - Len(c) + (i + 1)]
      BY <1>2, <3>1
    <3>3. i < m <=> Len(g) - Len(c) + i < l
      BY <1>6, <3>1
    <3>4. Len(g) - Len(c) + (i + 1) = (Len(g) - Len(c) + i) + 1
      OBVIOUS
    <3>5. d[i] = IF i < m THEN c[i] ELSE c[i + 1]
      BY <1>3, <3>1
    <3>6. h[Len(g) - Len(c) + i] = IF Len(g) - Len(c) + i < l THEN g[Len(g) - Len(c) + i]
                                                                     ELSE g[(Len(g) - Len(c) + i) + 1]
      BY <1>5, <3>1
    <3>7. QED
      BY <3>2, <3>3, <3>4, <3>5, <3>6
  <2>3. QED
    BY <2>1, <2>2
<1>8. QED
  BY <1>2, <1>3, <1>5, <1>7 DEF Behind

\* A text that comes into the cache, and last among all texts.
LEMMA InsertKeepsBehind ==
    ASSUME NEW c \in Seq(Texts), NEW g \in Seq(Texts), Behind(c, g), Embedder!IsInjective(g),
           NEW x \in Texts, x \notin Embedder!ToSet(c),
           NEW d \in Seq(Texts), NEW h \in Seq(Texts), EndsWith(h, g, x),
           Len(d) = Len(c) + 1, d[Len(c) + 1] = x, \A i \in 1..Len(c) : d[i] = c[i]
    PROVE  Behind(d, h) /\ Len(h) <= Len(g) + 1
<1>1. Len(c) <= Len(g) /\ \A i \in 1..Len(c) : c[i] = g[Len(g) - Len(c) + i]
  BY DEF Behind
<1>2. \A i \in 1..Len(c) : g[Len(g) - Len(c) + i] # x
  BY <1>1 DEF Embedder!ToSet
<1>3. CASE /\ Len(h) = Len(g) + 1 /\ h[Len(g) + 1] = x /\ \A i \in 1..Len(g) : h[i] = g[i]
  <2>1. ASSUME NEW i \in 1..Len(d) PROVE d[i] = h[Len(h) - Len(d) + i]
    <3>1. CASE i = Len(c) + 1
      BY <1>1, <1>3, <3>1
    <3>2. CASE i # Len(c) + 1
      <4>1. i \in 1..Len(c) /\ Len(h) - Len(d) + i = Len(g) - Len(c) + i /\ Len(g) - Len(c) + i \in 1..Len(g)
        BY <1>1, <1>3, <3>2
      <4>2. QED
        BY <1>1, <1>3, <4>1
    <3>3. QED
      BY <3>1, <3>2
  <2>2. QED
    BY <1>1, <1>3, <2>1 DEF Behind
<1>4. ASSUME NEW l \in 1..Len(g), g[l] = x, Len(h) = Len(g), h[Len(g)] = x,
             \A i \in 1..(Len(g) - 1) : h[i] = IF i < l THEN g[i] ELSE g[i + 1]
      PROVE  Behind(d, h) /\ Len(h) <= Len(g) + 1
  <2>1. l <= Len(g) - Len(c)
    <3>1. SUFFICES ASSUME l > Len(g) - Len(c) PROVE FALSE
      OBVIOUS
    <3>2. l - (Len(g) - Len(c)) \in 1..Len(c) /\ Len(g) - Len(c) + (l - (Len(g) - Len(c))) = l
      BY <1>1, <3>1
    <3>3. QED
      BY <1>2, <1>4, <3>2
  <2>2. ASSUME NEW i \in 1..Len(d) PROVE d[i] = h[Len(h) - Len(d) + i]
    <3>1. CASE i = Len(c) + 1
      BY <1>1, <1>4, <3>1
    <3>2. CASE i # Len(c) + 1
      <4>1. /\ i \in 1..Len(c) /\ Len(h) - Len(d) + i = Len(g) - Len(c) + i - 1
            /\ Len(g) - Len(c) + i - 1 \in 1..(Len(g) - 1) /\ ~(Len(g) - Len(c) + i - 1 < l)
        BY <1>1, <1>4, <2>1, <3>2
      <4>2. h[Len(g) - Len(c) + i - 1] = g[(Len(g) - Len(c) + i - 1) + 1]
        BY <1>4, <4>1
      <4>3. (Len(g) - Len(c) + i - 1) + 1 = Len(g) - Len(c) + i
        OBVIOUS
      <4>4. QED
        BY <1>1, <4>1, <4>2, <4>3
    <3>3. QED
      BY <3>1, <3>2
  <2>3. Len(d) <= Len(h)
    BY <1>1, <1>4, <2>1
  <2>4. QED
    BY <1>4, <2>2, <2>3 DEF Behind
<1>5. CASE \E l \in 1..Len(g) : /\ g[l] = x /\ Len(h) = Len(g) /\ h[Len(g)] = x
                                /\ \A i \in 1..(Len(g) - 1) : h[i] = IF i < l THEN g[i] ELSE g[i + 1]
  BY <1>4, <1>5
<1>6. QED
  BY <1>3, <1>5 DEF EndsWith

\* The module counts its threads as this one does.
LEMMA SameNumber == ASSUME NEW S PROVE Embedder!Cardinality(S) = Cardinality(S)
BY DEF Embedder!Cardinality, Cardinality

\* The types of the variables, and how many threads are where.
LEMMA CacheFacts ==
    ASSUME CacheInv
    PROVE  /\ cache \in Seq(Texts) /\ Embedder!IsInjective(cache)
           /\ touched \in Seq(Texts) /\ Embedder!IsInjective(touched)
           /\ Behind(cache, touched) /\ Len(cache) <= Len(touched)
           /\ embedding_at \in [Embedders -> {"idle", "move", "compute", "check", "pop"}]
           /\ text \in [Embedders -> Texts \cup {None}]
           /\ \A t \in Embedders : embedding_at[t] = "idle" <=> text[t] = None
           /\ None \notin Texts /\ MaxCacheSize \in Nat
           /\ Popping \subseteq Embedders /\ Checking \subseteq Embedders
BY EmbedderAssumption DEF CacheInv, Embedder!TypeOK, Embedder!Evicting, Behind, Popping, Checking

\* A set of threads, with one more or one less.
LEMMA CountThreads ==
    ASSUME NEW A \in SUBSET Embedders, NEW t \in Embedders
    PROVE  /\ Cardinality(A) \in Nat /\ Cardinality(Embedders) \in Nat /\ Cardinality(Embedders) > 0
           /\ Cardinality(A) <= Cardinality(Embedders)
           /\ t \notin A => /\ Cardinality(A \cup {t}) = Cardinality(A) + 1 /\ A \ {t} = A
                            /\ Cardinality(A) < Cardinality(Embedders)
           /\ t \in A => Cardinality(A \ {t}) = Cardinality(A) - 1 /\ A \cup {t} = A
<1>1. IsFiniteSet(Embedders) /\ IsFiniteSet(A) /\ Cardinality(A) \in Nat /\ Cardinality(Embedders) \in Nat
      /\ Cardinality(A) <= Cardinality(Embedders)
  BY EmbedderAssumption, FS_Subset, FS_CardinalityType
<1>2. t \notin A => Cardinality(A \cup {t}) = Cardinality(A) + 1
  BY <1>1, FS_AddElement
<1>3. Cardinality(A \cup {t}) <= Cardinality(Embedders)
  BY <1>1, FS_Subset
<1>4. t \in A => Cardinality(A \ {t}) = Cardinality(A) - 1
  BY <1>1, FS_RemoveElement
<1>5. Cardinality(Embedders) > 0
  BY <1>1, EmbedderAssumption, FS_EmptySet
<1>6. QED
  BY <1>1, <1>2, <1>3, <1>4, <1>5

\* A thread comes to look at the size: where it is counted, and where no more.
LEMMA GoesToCheck ==
    ASSUME CacheInv, NEW t \in Embedders, embedding_at' = [embedding_at EXCEPT ![t] = "check"]
    PROVE  Popping' = Popping \ {t} /\ Checking' = Checking \cup {t}
BY CacheFacts DEF Popping, Checking

\* The same of a thread that goes on to pop,
LEMMA GoesToPop ==
    ASSUME CacheInv, NEW t \in Embedders, embedding_at' = [embedding_at EXCEPT ![t] = "pop"]
    PROVE  Popping' = Popping \cup {t} /\ Checking' = Checking \ {t}
BY CacheFacts DEF Popping, Checking

\* and of one that is done.
LEMMA GoesHome ==
    ASSUME CacheInv, NEW t \in Embedders, embedding_at' = [embedding_at EXCEPT ![t] = "idle"]
    PROVE  Popping' = Popping \ {t} /\ Checking' = Checking \ {t}
BY CacheFacts DEF Popping, Checking

\* The invariant of the next state, from its parts.
LEMMA CacheInvNext ==
    ASSUME CacheInv, NEW t \in Embedders, NEW d \in Seq(Texts), NEW h \in Seq(Texts), NEW p \in Nat, NEW q \in Nat,
           cache' = d, touched' = h, Embedder!IsInjective(d), Embedder!IsInjective(h), Behind(d, h),
           embedding_at' \in [Embedders -> {"idle", "move", "compute", "check", "pop"}],
           text' \in [Embedders -> Texts \cup {None}],
           \A u \in Embedders : embedding_at'[u] = "idle" <=> text'[u] = None,
           Cardinality(Popping') = p, Cardinality(Popping' \cup Checking') = q,
           Len(d) <= MaxCacheSize + q,
           \/ Len(d) + Cardinality(Embedders) > MaxCacheSize + p
           \/ (Len(h) - Len(d)) + p < Cardinality(Embedders)
           \/ h = <<>>
    PROVE  CacheInv'
<1>1. Embedder!TypeOK'
  BY DEF Embedder!TypeOK, Embedder!Evicting, Embedder!IsInjective
<1>2. Embedder!IsInjective(touched)' /\ Behind(cache, touched)'
  BY DEF Embedder!IsInjective, Behind
<1>3. OverLimit' /\ RoomLeft'
  BY DEF OverLimit, RoomLeft
<1>4. QED
  BY <1>1, <1>2, <1>3 DEF CacheInv

\* A thread that moves between places where it is not counted changes neither number.
LEMMA SamePlaces ==
    ASSUME CacheInv, NEW t \in Embedders, embedding_at[t] \notin {"check", "pop"},
           NEW w \in {"idle", "move", "compute"}, embedding_at' = [embedding_at EXCEPT ![t] = w]
    PROVE  Popping' = Popping /\ Checking' = Checking
BY CacheFacts DEF Popping, Checking

\* The lengths that go with the invariant.
LEMMA RoomNow ==
    ASSUME CacheInv
    PROVE  /\ Cardinality(Popping) \in Nat /\ Cardinality(Popping \cup Checking) \in Nat
           /\ Len(cache) <= MaxCacheSize + Cardinality(Popping \cup Checking)
           /\ \/ Len(cache) + Cardinality(Embedders) > MaxCacheSize + Cardinality(Popping)
              \/ (Len(touched) - Len(cache)) + Cardinality(Popping) < Cardinality(Embedders)
              \/ touched = <<>>
<1>1. PICK t \in Embedders : TRUE
  BY EmbedderAssumption
<1>2. Popping \in SUBSET Embedders /\ Popping \cup Checking \in SUBSET Embedders
  BY CacheFacts
<1>3. Cardinality(Popping) \in Nat /\ Cardinality(Popping \cup Checking) \in Nat
  BY <1>1, <1>2, CountThreads
<1>4. QED
  BY <1>3 DEF CacheInv, OverLimit, RoomLeft

\* Nothing is moved, and the thread is counted before and after, or neither.
LEMMA QuietStep ==
    ASSUME CacheInv, NEW t \in Embedders, embedding_at[t] \notin {"check", "pop"},
           NEW w \in {"idle", "move", "compute"}, embedding_at' = [embedding_at EXCEPT ![t] = w],
           NEW y \in Texts \cup {None}, text' = [text EXCEPT ![t] = y], w = "idle" <=> y = None,
           UNCHANGED <<cache, touched>>
    PROVE  CacheInv'
<1>1. Popping' = Popping /\ Checking' = Checking
  BY SamePlaces
<1>2. embedding_at' \in [Embedders -> {"idle", "move", "compute", "check", "pop"}]
      /\ text' \in [Embedders -> Texts \cup {None}]
      /\ \A u \in Embedders : embedding_at'[u] = "idle" <=> text'[u] = None
  BY CacheFacts
<1>3. QED
  BY <1>1, <1>2, CacheFacts, RoomNow, CacheInvNext

\* A hit moves its text to the end of both lists.
LEMMA MoveStep == ASSUME CacheInv, NEW t \in Embedders, Embedder!Move(t) PROVE CacheInv'
<1>1. /\ embedding_at[t] = "move" /\ text[t] \in Embedder!ToSet(cache)
      /\ cache' = Embedder!MovedToEnd(cache, text[t]) /\ touched' = Embedder!MovedToEnd(touched, text[t])
      /\ embedding_at' = [embedding_at EXCEPT ![t] = "idle"] /\ text' = [text EXCEPT ![t] = None]
  BY DEF Embedder!Move, Embedder!Return
<1>2. PICK x : x = text[t]
  OBVIOUS
<1>3. x \in Texts /\ x \in Embedder!ToSet(cache)
  BY <1>1, <1>2, CacheFacts DEF Embedder!ToSet
<1>4. PICK d, h : d = Embedder!MovedToEnd(cache, x) /\ h = Embedder!MovedToEnd(touched, x)
  OBVIOUS
<1>5. /\ d \in Seq(Texts) /\ EndsWith(d, cache, x) /\ h \in Seq(Texts) /\ EndsWith(h, touched, x)
      /\ Embedder!IsInjective(d) /\ Embedder!IsInjective(h)
  BY <1>3, <1>4, CacheFacts, MovedLast, MovedIsInjective
<1>6. Behind(d, h) /\ Len(d) = Len(cache) /\ Len(h) = Len(touched)
  BY <1>3, <1>5, CacheFacts, MoveKeepsBehind
<1>7. Popping' = Popping /\ Checking' = Checking
  BY <1>1, SamePlaces
<1>8. embedding_at' \in [Embedders -> {"idle", "move", "compute", "check", "pop"}]
      /\ text' \in [Embedders -> Texts \cup {None}]
      /\ \A u \in Embedders : embedding_at'[u] = "idle" <=> text'[u] = None
  BY <1>1, CacheFacts
<1>9. touched # <<>>
  BY <1>3, CacheFacts DEF Embedder!ToSet
<1>10. QED
  BY <1>1, <1>2, <1>4, <1>5, <1>6, <1>7, <1>8, <1>9, RoomNow, CacheInvNext

\* A thread that puts its text into the cache has still to look at the size.
LEMMA InsertStep == ASSUME CacheInv, NEW t \in Embedders, Embedder!Insert(t) PROVE CacheInv'
<1>1. /\ embedding_at[t] = "compute" /\ text' = text
      /\ embedding_at' = [embedding_at EXCEPT ![t] = "check"]
  BY DEF Embedder!Insert
<1>2. t \notin Popping /\ t \notin Checking
  BY <1>1 DEF Popping, Checking
<1>3. Popping' = Popping \ {t} /\ Checking' = Checking \cup {t}
  BY <1>1, GoesToCheck
<1>4. Popping' = Popping /\ Popping' \cup Checking' = (Popping \cup Checking) \cup {t}
  BY <1>2, <1>3
<1>5. PICK A : A = Popping \cup Checking
  OBVIOUS
<1>6. Popping \in SUBSET Embedders /\ A \in SUBSET Embedders /\ t \notin A
  BY <1>2, <1>5, CacheFacts
<1>7. Cardinality(A \cup {t}) = Cardinality(A) + 1
  BY <1>6, CountThreads
<1>8. Cardinality(Popping) < Cardinality(Embedders) /\ Cardinality(Embedders) \in Nat
  BY <1>2, <1>6, CountThreads
<1>9. /\ Cardinality(Popping') = Cardinality(Popping) /\ Cardinality(Popping) < Cardinality(Embedders)
      /\ Cardinality(Popping' \cup Checking') = Cardinality(Popping \cup Checking) + 1
      /\ Cardinality(Embedders) \in Nat
  BY <1>4, <1>5, <1>7, <1>8
<1>10. embedding_at' \in [Embedders -> {"idle", "move", "compute", "check", "pop"}]
      /\ text' \in [Embedders -> Texts \cup {None}]
      /\ \A u \in Embedders : embedding_at'[u] = "idle" <=> text'[u] = None
  BY <1>1, CacheFacts
<1>11. text[t] \in Texts
  BY <1>1, CacheFacts
<1>12. CASE text[t] \in Embedder!ToSet(cache)
  <2>1. cache' = cache /\ touched' = touched
    BY <1>12 DEF Embedder!Insert
  <2>2. Cardinality(Popping) \in Nat /\ Cardinality(Popping \cup Checking) + 1 \in Nat
    BY RoomNow
  <2>3. Len(cache) <= MaxCacheSize + (Cardinality(Popping \cup Checking) + 1)
    <3>1. Len(cache) \in Nat /\ MaxCacheSize \in Nat /\ Cardinality(Popping \cup Checking) \in Nat
      BY CacheFacts, RoomNow
    <3>2. QED
      BY <3>1, RoomNow
  <2>4. QED
    BY <1>9, <1>10, <2>1, <2>2, <2>3, CacheFacts, RoomNow, CacheInvNext
<1>13. CASE text[t] \notin Embedder!ToSet(cache)
  <2>1. PICK x : x = text[t]
    OBVIOUS
  <2>2. PICK d, h : d = Append(cache, x) /\ h = Embedder!MovedToEnd(touched, x)
    OBVIOUS
  <2>3. cache' = d /\ touched' = h
    BY <1>13, <2>1, <2>2 DEF Embedder!Insert
  <2>4. h \in Seq(Texts) /\ EndsWith(h, touched, x) /\ Embedder!IsInjective(h)
    BY <1>11, <2>1, <2>2, CacheFacts, MovedLast, MovedIsInjective
  <2>5. d \in Seq(Texts) /\ Len(d) = Len(cache) + 1 /\ d[Len(cache) + 1] = x
        /\ \A i \in 1..Len(cache) : d[i] = cache[i]
    BY <1>11, <2>1, <2>2, CacheFacts
  <2>6. Embedder!IsInjective(d)
    <3>1. \A i \in 1..Len(cache) : cache[i] # x
      BY <1>13, <2>1, CacheFacts DEF Embedder!ToSet
    <3>2. \A i, j \in 1..Len(cache) : cache[i] = cache[j] => i = j
      BY CacheFacts DEF Embedder!IsInjective
    <3>3. ASSUME NEW i \in 1..(Len(cache) + 1), NEW j \in 1..(Len(cache) + 1), d[i] = d[j] PROVE i = j
      <4>1. cache \in Seq(Texts)
        BY CacheFacts
      <4>2. (i \in 1..Len(cache) \/ i = Len(cache) + 1) /\ (j \in 1..Len(cache) \/ j = Len(cache) + 1)
        BY <4>1
      <4>3. QED
        BY <2>5, <3>1, <3>2, <3>3, <4>2
    <3>4. QED
      BY <2>5, <3>3 DEF Embedder!IsInjective
  <2>7. Behind(d, h) /\ Len(h) <= Len(touched) + 1
    BY <1>11, <1>13, <2>1, <2>4, <2>5, CacheFacts, InsertKeepsBehind
  <2>8. Len(cache) \in Nat /\ Len(touched) \in Nat /\ Len(h) \in Nat
    BY <2>4, CacheFacts
  <2>9. touched = <<>> => Len(touched) = 0
    OBVIOUS
  <2>10. \/ Len(d) + Cardinality(Embedders) > MaxCacheSize + Cardinality(Popping)
         \/ (Len(h) - Len(d)) + Cardinality(Popping) < Cardinality(Embedders)
    BY <1>9, <2>5, <2>7, <2>8, <2>9, CacheFacts, RoomNow
  <2>11. Len(d) <= MaxCacheSize + (Cardinality(Popping \cup Checking) + 1)
    BY <2>5, <2>8, CacheFacts, RoomNow
  <2>12. Cardinality(Popping) \in Nat /\ Cardinality(Popping \cup Checking) + 1 \in Nat
    BY RoomNow
  <2>13. QED
    BY <1>9, <1>10, <2>3, <2>4, <2>5, <2>6, <2>7, <2>10, <2>11, <2>12, CacheInvNext
<1>14. QED
  BY <1>12, <1>13

\* The size that a thread sees is the one that lets it pop.
LEMMA CheckSizeStep == ASSUME CacheInv, NEW t \in Embedders, Embedder!CheckSize(t) PROVE CacheInv'
<1>1. embedding_at[t] = "check" /\ cache' = cache /\ touched' = touched
  BY DEF Embedder!CheckSize
<1>2. t \in Checking /\ t \notin Popping
  BY <1>1 DEF Popping, Checking
<1>3. /\ Cardinality(Embedders) \in Nat /\ Cardinality(Popping) < Cardinality(Embedders)
      /\ Cardinality(Popping) \in Nat /\ Cardinality(Popping \cup Checking) \in Nat
  BY <1>2, CacheFacts, CountThreads, RoomNow
<1>4. CASE Len(cache) > MaxCacheSize
  <2>1. embedding_at' = [embedding_at EXCEPT ![t] = "pop"] /\ text' = text
    BY <1>4 DEF Embedder!CheckSize
  <2>2. Popping' = Popping \cup {t} /\ Popping' \cup Checking' = Popping \cup Checking
    <3>1. Popping' = Popping \cup {t} /\ Checking' = Checking \ {t}
      BY <2>1, GoesToPop
    <3>2. QED
      BY <1>2, <3>1
  <2>3. Cardinality(Popping') = Cardinality(Popping) + 1
    BY <1>2, <2>2, CacheFacts, CountThreads
  <2>4. embedding_at' \in [Embedders -> {"idle", "move", "compute", "check", "pop"}]
        /\ text' \in [Embedders -> Texts \cup {None}]
        /\ \A u \in Embedders : embedding_at'[u] = "idle" <=> text'[u] = None
    BY <1>1, <2>1, CacheFacts
  <2>5. Len(cache) + Cardinality(Embedders) > MaxCacheSize + (Cardinality(Popping) + 1)
    <3>1. Len(cache) \in Nat /\ MaxCacheSize \in Nat
      BY CacheFacts
    <3>2. QED
      BY <1>3, <1>4, <3>1
  <2>6. Cardinality(Popping) + 1 \in Nat
    BY <1>3
  <2>7. QED
    BY <1>1, <1>3, <2>2, <2>3, <2>4, <2>5, <2>6, CacheFacts, RoomNow, CacheInvNext
<1>5. CASE ~(Len(cache) > MaxCacheSize)
  <2>1. embedding_at' = [embedding_at EXCEPT ![t] = "idle"] /\ text' = [text EXCEPT ![t] = None]
    BY <1>5 DEF Embedder!CheckSize, Embedder!Return
  <2>2. Popping' = Popping /\ Checking' \subseteq Checking
    <3>1. Popping' = Popping \ {t} /\ Checking' = Checking \ {t}
      BY <2>1, GoesHome
    <3>2. QED
      BY <1>2, <3>1
  <2>3. PICK q \in Nat : q = Cardinality(Popping' \cup Checking')
    <3>1. Popping' \cup Checking' \in SUBSET Embedders
      BY <2>2, CacheFacts
    <3>2. QED
      BY <3>1, CountThreads
  <2>4. embedding_at' \in [Embedders -> {"idle", "move", "compute", "check", "pop"}]
        /\ text' \in [Embedders -> Texts \cup {None}]
        /\ \A u \in Embedders : embedding_at'[u] = "idle" <=> text'[u] = None
    BY <1>1, <2>1, CacheFacts
  <2>5. Len(cache) <= MaxCacheSize + q
    <3>1. Len(cache) \in Nat /\ MaxCacheSize \in Nat
      BY CacheFacts
    <3>2. QED
      BY <1>5, <3>1
  <2>6. QED
    BY <1>1, <1>3, <2>2, <2>3, <2>4, <2>5, CacheFacts, RoomNow, CacheInvNext
<1>6. QED
  BY <1>4, <1>5

\* The text that goes is the oldest; its thread looks at the size once more.
LEMMA PopStep == ASSUME CacheInv, NEW t \in Embedders, Embedder!Pop(t) PROVE CacheInv'
<1>1. /\ embedding_at[t] = "pop" /\ cache # <<>> /\ cache' = Tail(cache) /\ touched' = touched /\ text' = text
      /\ embedding_at' = [embedding_at EXCEPT ![t] = "check"]
  BY DEF Embedder!Pop
<1>2. t \in Popping
  BY <1>1 DEF Popping
<1>3. Popping' = Popping \ {t} /\ Popping' \cup Checking' = Popping \cup Checking
  <2>1. Popping' = Popping \ {t} /\ Checking' = Checking \cup {t}
    BY <1>1, GoesToCheck
  <2>2. QED
    BY <1>2, <2>1
<1>4. Cardinality(Popping') = Cardinality(Popping) - 1 /\ Cardinality(Popping) - 1 \in Nat
      /\ Cardinality(Embedders) \in Nat
  <2>1. Popping \in SUBSET Embedders /\ Popping \ {t} \in SUBSET Embedders
    BY CacheFacts
  <2>2. Cardinality(Popping \ {t}) = Cardinality(Popping) - 1 /\ Cardinality(Embedders) \in Nat
    BY <1>2, <2>1, CountThreads
  <2>3. Cardinality(Popping \ {t}) \in Nat
    BY <2>1, CountThreads
  <2>4. QED
    BY <1>3, <2>2, <2>3
<1>5. embedding_at' \in [Embedders -> {"idle", "move", "compute", "check", "pop"}]
      /\ text' \in [Embedders -> Texts \cup {None}]
      /\ \A u \in Embedders : embedding_at'[u] = "idle" <=> text'[u] = None
  BY <1>1, CacheFacts
<1>6. PICK d : d = Tail(cache)
  OBVIOUS
<1>7. /\ d \in Seq(Texts) /\ Len(d) = Len(cache) - 1 /\ Len(cache) \in Nat \ {0}
      /\ \A i \in 1..Len(d) : i + 1 \in 1..Len(cache) /\ d[i] = cache[i + 1]
  <2>1. cache \in Seq(Texts) /\ cache # <<>>
    BY <1>1, CacheFacts
  <2>2. QED
    BY <1>6, <2>1
<1>8. Embedder!IsInjective(d)
  <2>1. \A i, j \in 1..Len(cache) : cache[i] = cache[j] => i = j
    BY CacheFacts DEF Embedder!IsInjective
  <2>2. ASSUME NEW i \in 1..Len(d), NEW j \in 1..Len(d), d[i] = d[j] PROVE i = j
    <3>1. i + 1 \in 1..Len(cache) /\ j + 1 \in 1..Len(cache) /\ cache[i + 1] = cache[j + 1]
      BY <1>7, <2>2
    <3>2. i + 1 = j + 1
      BY <2>1, <3>1
    <3>3. QED
      BY <3>2
  <2>3. DOMAIN d = 1..Len(d)
    BY <1>7
  <2>4. QED
    BY <2>2, <2>3 DEF Embedder!IsInjective
<1>9. Len(touched) \in Nat /\ Len(cache) <= Len(touched)
      /\ \A i \in 1..Len(cache) : cache[i] = touched[Len(touched) - Len(cache) + i]
  BY CacheFacts DEF Behind
<1>10. Behind(d, touched)
  <2>1. \A i \in 1..Len(d) : d[i] = touched[Len(touched) - Len(d) + i]
    <3>1. SUFFICES ASSUME NEW i \in 1..Len(d) PROVE d[i] = touched[Len(touched) - Len(d) + i]
      OBVIOUS
    <3>2. d[i] = cache[i + 1] /\ cache[i + 1] = touched[Len(touched) - Len(cache) + (i + 1)]
      BY <1>7, <1>9
    <3>3. Len(touched) - Len(cache) + (i + 1) = Len(touched) - Len(d) + i
      BY <1>7, <1>9
    <3>4. QED
      BY <3>2, <3>3
  <2>2. Len(d) <= Len(touched)
    BY <1>7, <1>9
  <2>3. QED
    BY <2>1, <2>2 DEF Behind
<1>11. Len(d) <= MaxCacheSize + Cardinality(Popping \cup Checking)
  BY <1>7, CacheFacts, RoomNow
<1>12. \/ Len(d) + Cardinality(Embedders) > MaxCacheSize + (Cardinality(Popping) - 1)
       \/ (Len(touched) - Len(d)) + (Cardinality(Popping) - 1) < Cardinality(Embedders)
       \/ touched = <<>>
  <2>1. PICK n, l, e, p : n = Len(cache) /\ l = Len(touched) /\ e = Cardinality(Embedders) /\ p = Cardinality(Popping)
    OBVIOUS
  <2>2. n \in Nat /\ l \in Nat /\ e \in Nat /\ p \in Nat /\ MaxCacheSize \in Nat /\ Len(d) = n - 1
    BY <1>4, <1>7, <1>9, <2>1, CacheFacts, RoomNow
  <2>3. n + e > MaxCacheSize + p \/ (l - n) + p < e \/ touched = <<>>
    BY <2>1, RoomNow
  <2>4. (n - 1) + e > MaxCacheSize + (p - 1) \/ (l - (n - 1)) + (p - 1) < e \/ touched = <<>>
    BY <2>2, <2>3
  <2>5. QED
    BY <2>1, <2>2, <2>4
<1>13. QED
  BY <1>1, <1>3, <1>4, <1>5, <1>6, <1>7, <1>8, <1>10, <1>11, <1>12, CacheFacts, RoomNow, CacheInvNext

\* Nothing is moved, and a thread that finds the cache empty pops no more.
LEMMA EmbedRaisesStep == ASSUME CacheInv, NEW t \in Embedders, Embedder!EmbedRaises(t) PROVE CacheInv'
<1>1. /\ cache' = cache /\ touched' = touched
      /\ embedding_at' = [embedding_at EXCEPT ![t] = "idle"] /\ text' = [text EXCEPT ![t] = None]
  BY DEF Embedder!EmbedRaises, Embedder!Return
<1>2. CASE embedding_at[t] = "compute"
  BY <1>1, <1>2, QuietStep
<1>3. CASE embedding_at[t] = "pop" /\ cache = <<>>
  <2>1. t \in Popping
    BY <1>3 DEF Popping
  <2>2. Popping' = Popping \ {t} /\ Checking' = Checking \ {t}
    BY <1>1, GoesHome
  <2>3. Popping \in SUBSET Embedders /\ Popping' \in SUBSET Embedders
        /\ Popping' \cup Checking' \in SUBSET Embedders
    BY <2>2, CacheFacts
  <2>4. PICK p \in Nat, q \in Nat : p = Cardinality(Popping') /\ q = Cardinality(Popping' \cup Checking')
    BY <2>3, CountThreads
  <2>5. p = Cardinality(Popping) - 1 /\ Cardinality(Embedders) \in Nat
    BY <2>1, <2>2, <2>3, <2>4, CountThreads
  <2>6. Len(cache) = 0 /\ Len(touched) \in Nat /\ MaxCacheSize \in Nat
    BY <1>3, CacheFacts
  <2>7. Len(cache) <= MaxCacheSize + q
    BY <2>4, <2>6
  <2>8. \/ Len(cache) + Cardinality(Embedders) > MaxCacheSize + p
        \/ (Len(touched) - Len(cache)) + p < Cardinality(Embedders)
        \/ touched = <<>>
    BY <2>4, <2>5, <2>6, RoomNow
  <2>9. embedding_at' \in [Embedders -> {"idle", "move", "compute", "check", "pop"}]
        /\ text' \in [Embedders -> Texts \cup {None}]
        /\ \A u \in Embedders : embedding_at'[u] = "idle" <=> text'[u] = None
    BY <1>1, CacheFacts
  <2>10. QED
    BY <1>1, <2>4, <2>7, <2>8, <2>9, CacheFacts, CacheInvNext
<1>4. QED
  BY <1>2, <1>3 DEF Embedder!EmbedRaises

\* Without a text there is nothing to remember.
LEMMA ClearStep == ASSUME CacheInv, Embedder!ClearCache PROVE CacheInv'
<1>1. cache' = <<>> /\ touched' = <<>> /\ embedding_at' = embedding_at /\ text' = text
  BY DEF Embedder!ClearCache
<1>2. PICK t \in Embedders : TRUE
  BY EmbedderAssumption
<1>3. Popping' = Popping /\ Checking' = Checking
  BY <1>1 DEF Popping, Checking
<1>4. PICK e : e = <<>>
  OBVIOUS
<1>5. e \in Seq(Texts) /\ Len(e) = 0 /\ Embedder!IsInjective(e) /\ Behind(e, e)
  BY <1>4 DEF Embedder!IsInjective, Behind
<1>6. Len(e) <= MaxCacheSize + Cardinality(Popping \cup Checking)
  BY <1>5, CacheFacts, RoomNow
<1>7. cache' = e /\ touched' = e
  BY <1>1, <1>4
<1>8. QED
  BY <1>1, <1>2, <1>3, <1>4, <1>5, <1>6, <1>7, CacheFacts, RoomNow, CacheInvNext

\* No step of a thread lets the cache grow or fall further.
LEMMA CacheStep == CacheInv /\ [Embedder!Next]_embedder => CacheInv'
<1> SUFFICES ASSUME CacheInv, [Embedder!Next]_embedder PROVE CacheInv'
  OBVIOUS
<1>1. ASSUME NEW t \in Embedders, NEW x \in Texts, Embedder!Lookup(t, x) PROVE CacheInv'
  <2>1. embedding_at[t] = "idle" /\ text' = [text EXCEPT ![t] = x] /\ UNCHANGED <<cache, touched>>
    BY <1>1 DEF Embedder!Lookup
  <2>2. x \in Texts \cup {None} /\ x # None
    BY EmbedderAssumption
  <2>3. CASE embedding_at' = [embedding_at EXCEPT ![t] = "move"]
    BY <2>1, <2>2, <2>3, QuietStep
  <2>4. CASE embedding_at' = [embedding_at EXCEPT ![t] = "compute"]
    BY <2>1, <2>2, <2>4, QuietStep
  <2>5. QED
    BY <1>1, <2>3, <2>4 DEF Embedder!Lookup
<1>2. ASSUME NEW t \in Embedders, Embedder!MoveRaises(t) PROVE CacheInv'
  BY <1>2, QuietStep DEF Embedder!MoveRaises, Embedder!Return
<1>3. CASE UNCHANGED embedder
  <2>1. cache' = cache /\ touched' = touched /\ embedding_at' = embedding_at /\ text' = text
    BY <1>3 DEF embedder
  <2>2. Popping' = Popping /\ Checking' = Checking
    BY <2>1 DEF Popping, Checking
  <2>3. PICK t \in Embedders : TRUE
    BY EmbedderAssumption
  <2>4. QED
    BY <2>1, <2>2, <2>3, CacheFacts, RoomNow, CacheInvNext
<1>4. CASE Embedder!Next
  BY <1>1, <1>2, <1>4, MoveStep, InsertStep, CheckSizeStep, PopStep, EmbedRaisesStep, ClearStep DEF Embedder!Next
<1>5. QED
  BY <1>3, <1>4

\* The cache starts empty, and no thread is in it.
LEMMA CacheInit == Embedder!Init => CacheInv
<1> SUFFICES ASSUME Embedder!Init PROVE CacheInv
  OBVIOUS
<1>1. /\ cache = <<>> /\ touched = <<>>
      /\ embedding_at = [t \in Embedders |-> "idle"] /\ text = [t \in Embedders |-> None]
  BY DEF Embedder!Init
<1>2. PICK e : e = <<>>
  OBVIOUS
<1>3. e \in Seq(Texts) /\ Len(e) = 0 /\ Embedder!IsInjective(e) /\ Behind(e, e)
  BY <1>2 DEF Embedder!IsInjective, Behind
<1>4. Embedder!TypeOK
  BY <1>1, <1>2, <1>3 DEF Embedder!TypeOK, Embedder!Evicting
<1>5. Popping = {} /\ Checking = {}
  BY <1>1 DEF Popping, Checking
<1>6. OverLimit
  BY <1>1, <1>2, <1>3, <1>5, EmbedderAssumption, FS_EmptySet DEF OverLimit
<1>7. RoomLeft
  BY <1>1 DEF RoomLeft
<1>8. QED
  BY <1>1, <1>2, <1>3, <1>4, <1>6, <1>7 DEF CacheInv

\* What the invariant says of a state.
LEMMA CacheInvIsEnough == CacheInv => CacheKeepsRecent
<1> SUFFICES ASSUME CacheInv PROVE CacheKeepsRecent
  OBVIOUS
<1>1. {t \in Embedders : embedding_at[t] \in Embedder!Evicting} = Popping \cup Checking
  BY DEF Embedder!Evicting, Popping, Checking
<1>2. Embedder!SizeIsBounded
  <2>1. Embedder!Cardinality({t \in Embedders : embedding_at[t] \in Embedder!Evicting})
          = Cardinality(Popping \cup Checking)
    BY <1>1, SameNumber
  <2>2. QED
    BY <2>1, RoomNow DEF Embedder!SizeIsBounded
<1>3. Embedder!IsSuffix(cache, touched)
  BY CacheFacts, BehindIsSuffix
<1>4. \/ Len(cache) + Cardinality(Embedders) > MaxCacheSize
      \/ Len(cache) + Cardinality(Embedders) > Len(touched)
  <2>1. PICK t \in Embedders : TRUE
    BY EmbedderAssumption
  <2>2. Cardinality(Embedders) \in Nat /\ Cardinality(Embedders) > 0
    BY <2>1, CountThreads, CacheFacts
  <2>3. Len(cache) \in Nat /\ Len(touched) \in Nat /\ MaxCacheSize \in Nat
    BY CacheFacts
  <2>4. touched = <<>> => Len(touched) = 0
    OBVIOUS
  <2>5. QED
    BY <2>2, <2>3, <2>4, RoomNow
<1>5. Embedder!KeepsTheRecent
  BY <1>3, <1>4, SameNumber DEF Embedder!KeepsTheRecent
<1>6. QED
  BY <1>2, <1>5 DEF CacheKeepsRecent

-----------------------------------------------------------------------------
(* The path: each component runs as if it were alone.                       *)

\* A behaviour of the path is one of each component: the steps of the others are stutters for it.
LEMMA ComponentsRunAlone == PathSpec => Spec /\ Manager!Spec /\ Metadata!Spec /\ Embedder!Spec
<1> DEFINE EachNext == /\ [Next]_vars /\ [Manager!Next]_Manager!vars
                       /\ [Metadata!Next]_Metadata!vars /\ [Embedder!Next]_Embedder!vars
<1> USE DEF manager, metadata, embedder, Manager!vars, Manager!history,
         Metadata!vars, Metadata!locals, Embedder!vars
<1>1. PathInit => Init /\ Manager!Init /\ Metadata!Init /\ Embedder!Init
  BY DEF PathInit
<1>2. PathNext => EachNext
  BY DEF PathNext
<1>3. UNCHANGED <<vars, manager, metadata, embedder>> => EachNext
  OBVIOUS
<1>4. QED
  BY <1>1, <1>2, <1>3, PTL DEF PathSpec, Spec, Manager!Spec, Metadata!Spec, Embedder!Spec

\* An entry of a call that began when an index was there and nobody was creating one stays
\* searchable until it is removed (metadata_store.py, _ensure_hnsw): only the entries of first
\* calls that overlap can be lost with a replaced index.
THEOREM OnlyOverlappingFirstCallsLose ==
    ASSUME NoneIsNoAdder PROVE PathSpec => []SettledStaySearchable
<1>1. CreationInv => SettledStaySearchable
  BY DEF CreationInv, SettledStaySearchable
<1>2. Metadata!Spec => []CreationInv
  BY CreationInit, CreationSteps, PTL DEF Metadata!Spec
<1>3. QED
  BY <1>1, <1>2, ComponentsRunAlone, PTL

\* However gets, deletes, restarts and the load of a new manager interleave, a stored entry nobody
\* is putting or deleting is known to the filter and in the index once the manager is ready,
\* unless its put raised on a full index (cache_manager.py, _load_existing_entries).
THEOREM StoredStaySearchable == ASSUME NoneIsApart PROVE PathSpec => []StoredAreSearchable
<1>1. AnswersInv => StoredAreSearchable
  BY DEF AnswersInv, StoredAreSearchable
<1>2. QED
  BY <1>1, AnswersInit, AnswersStep, ComponentsRunAlone, PTL DEF Manager!Spec

\* The generator runs for a cached topic only in a call that a delete or restart overlapped, or that
\* met a dead index entry no earlier call had met (cache_manager.py, get_or_generate).
THEOREM DeadEntryCostsOneGeneration == ASSUME NoneIsApart PROVE PathSpec => GeneratesOnlyUncached
<1>1. AnswersInv => \A t \in Callers : place[t] = "generate" => t \in cold \/ match[t] \notin before[t] \cup {None}
  BY DEF AnswersInv, WarmOK
<1>2. AnswersInv /\ [Manager!Next]_Manager!vars
        => [\A t \in Callers : place[t] = "generate" /\ place'[t] = "put" =>
                t \in cold \/ match[t] \notin before[t] \cup {None}]_Manager!vars
  BY <1>1
<1>3. QED
  BY <1>2, AnswersInit, AnswersStep, ComponentsRunAlone, PTL
  DEF Manager!Spec, GeneratesOnlyUncached, Manager!GeneratesOnlyUncached

\* However the threads that embed overlap, and whenever the cache is cleared, it exceeds its limit
\* by no more than one text for each thread that has still to look at the size, and holds the texts
\* used last, in that order, less one for each other thread that may have evicted at the same
\* time (embeddings/cache.py, embed and _evict_if_needed).
THEOREM CacheKeepsTheRecent == PathSpec => []CacheKeepsRecent
<1>1. CacheInv /\ [Embedder!Next]_Embedder!vars => CacheInv'
  BY CacheStep DEF embedder, Embedder!vars
<1>2. QED
  BY <1>1, CacheInit, CacheInvIsEnough, ComponentsRunAlone, PTL DEF Embedder!Spec

\* Each part of a lookup keeps the types of its state: only entries that were made are stored or
\* indexed (cache_manager.py), an index holds vectors of its own dimension only
\* (metadata_store.py, _ensure_hnsw), and no text is twice in the embedding cache.
THEOREM PathTypeCorrect == ASSUME NoneIsNoAdder, NoneIsApart PROVE PathSpec => []PathTypeOK
<1>1. Manager!Spec => []AnswersInv
  BY AnswersInit, AnswersStep, PTL DEF Manager!Spec
<1>2. Metadata!Spec => []CreationInv
  BY CreationInit, CreationSteps, PTL DEF Metadata!Spec
<1>3. CacheInv /\ [Embedder!Next]_Embedder!vars => CacheInv'
  BY CacheStep DEF embedder, Embedder!vars
<1>4. Embedder!Spec => []CacheInv
  BY <1>3, CacheInit, PTL DEF Embedder!Spec
<1>5. TypeOK /\ AnswersInv /\ CreationInv /\ CacheInv => PathTypeOK
  BY DEF PathTypeOK, AnswersInv, CreationInv, CacheInv
<1>6. QED
  BY <1>1, <1>2, <1>4, <1>5, IndexTypeCorrect, ComponentsRunAlone, PTL
=============================================================================
