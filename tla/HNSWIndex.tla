------------------------------ MODULE HNSWIndex ------------------------------
(***************************************************************************)
(* HNSWIndex (metadata/hnsw_index.py), shared by threads without a lock.   *)
(* hnswlib knows vectors by integer label; the class gives each object a   *)
(* label and reuses the labels of removed objects.  A thread can lose the  *)
(* interpreter at every call it makes, so the code between two calls is a  *)
(* step.  hnswlib itself is modelled by its use: a map from labels to      *)
(* vectors with a set of labels marked deleted.                            *)
(***************************************************************************)
EXTENDS Naturals, FiniteSets

CONSTANTS
    Threads,
    Objects,        \* semantic object ids
    Vectors,        \* embeddings; the equal ones are the similar ones
    None,           \* absent
    MaxElements,    \* max_elements
    AddsOverlap,    \* callers may add one id in two threads at a time
    MaxFaults,      \* bound: add_items that raise without need
    MaxLabel        \* bound: labels are below it

Labels == 0..MaxLabel

ASSUME IndexAssumption ==
    /\ MaxElements \in Nat \ {0}
    /\ MaxFaults \in Nat
    /\ MaxLabel \in Nat
    /\ AddsOverlap \in BOOLEAN
    /\ None \notin Objects \cup Vectors \cup Labels
    /\ Objects # {}
    /\ Vectors # {}

VARIABLES
    id_to_object,   \* label -> object
    object_to_id,   \* object -> label
    free_ids,       \* labels to reuse
    next_id,        \* the first label never given out
    vector,         \* hnswlib: label -> vector
    deleted,        \* hnswlib: labels marked deleted
    reused,         \* hnswlib: labels added with replace_deleted
    pc,             \* where each thread is
    object,         \* the object of its call
    embedding,      \* the vector of its call
    label,          \* internal_id
    replace,        \* replace_deleted
    hit,            \* what its last search found
    faults          \* add_items that raised

index  == <<id_to_object, object_to_id, free_ids, next_id>>
hnsw   == <<vector, deleted, reused>>
locals == <<object, embedding, label, replace>>
vars   == <<id_to_object, object_to_id, free_ids, next_id, vector, deleted, reused,
            pc, object, embedding, label, replace, hit, faults>>

Adding   == {"reserve", "allocate", "add_items", "publish"}
Removing == {"unmap", "mark_deleted", "free"}
Search   == {"knn", "resolve"}
\* The labels that threads in add or remove hold.
Holds(t) == pc[t] \in {"add_items", "publish"} \cup Removing

TypeOK ==
    /\ id_to_object \in [Labels -> Objects \cup {None}]
    /\ object_to_id \in [Objects -> Labels \cup {None}]
    /\ free_ids \in SUBSET Labels
    /\ next_id \in Labels
    /\ vector \in [Labels -> Vectors \cup {None}]
    /\ deleted \in SUBSET Labels /\ reused \in SUBSET Labels
    /\ pc \in [Threads -> {"idle"} \cup Adding \cup Removing \cup Search]
    /\ object \in [Threads -> Objects \cup {None}]
    /\ embedding \in [Threads -> Vectors \cup {None}]
    /\ label \in [Threads -> Labels \cup {None}]
    /\ replace \in [Threads -> BOOLEAN]
    /\ hit \in [Threads -> Objects \cup {None}]
    /\ faults \in 0..MaxFaults
    /\ \A t \in Threads :
          /\ pc[t] \in Adding => object[t] # None /\ embedding[t] # None
          /\ Holds(t) \/ pc[t] = "resolve" => label[t] # None

Init ==
    /\ id_to_object = [l \in Labels |-> None]
    /\ object_to_id = [o \in Objects |-> None]
    /\ free_ids = {}
    /\ next_id = 0
    /\ vector = [l \in Labels |-> None]
    /\ deleted = {} /\ reused = {}
    /\ pc = [t \in Threads |-> "idle"]
    /\ object = [t \in Threads |-> None]
    /\ embedding = [t \in Threads |-> None]
    /\ label = [t \in Threads |-> None]
    /\ replace = [t \in Threads |-> FALSE]
    /\ hit = [t \in Threads |-> None]
    /\ faults = 0

Call(t, place, o, v, l) ==
    /\ pc[t] = "idle"
    /\ pc' = [pc EXCEPT ![t] = place]
    /\ object' = [object EXCEPT ![t] = o]
    /\ embedding' = [embedding EXCEPT ![t] = v]
    /\ label' = [label EXCEPT ![t] = l]
    /\ hit' = [hit EXCEPT ![t] = None]
    /\ UNCHANGED replace

Goto(t, place) ==
    /\ pc' = [pc EXCEPT ![t] = place]
    /\ UNCHANGED <<locals, hit>>

\* The call ends, by return or by an exception.
Return(t, found) ==
    /\ pc' = [pc EXCEPT ![t] = "idle"]
    /\ hit' = [hit EXCEPT ![t] = found]
    /\ object' = [object EXCEPT ![t] = None]
    /\ embedding' = [embedding EXCEPT ![t] = None]
    /\ label' = [label EXCEPT ![t] = None]
    /\ replace' = [replace EXCEPT ![t] = FALSE]

-----------------------------------------------------------------------------
(* add *)

\* add returns if the object has a label and raises if there is none to give;
\* otherwise it goes on to the call of _prepare_embedding.
BeginAdd(t, o, v) ==
    /\ AddsOverlap \/ \A u \in Threads : pc[u] \in Adding => object[u] # o
    /\ next_id + Cardinality(Threads) <= MaxLabel
    /\ object_to_id[o] = None
    /\ free_ids # {} \/ next_id < MaxElements
    /\ Call(t, "reserve", o, v, None)
    /\ UNCHANGED <<index, hnsw, faults>>

\* bool(self._free_ids)
Reserve(t) ==
    /\ pc[t] = "reserve"
    /\ replace' = [replace EXCEPT ![t] = free_ids # {}]
    /\ pc' = [pc EXCEPT ![t] = "allocate"]
    /\ UNCHANGED <<index, hnsw, object, embedding, label, hit, faults>>

Give(t, l) ==
    /\ label' = [label EXCEPT ![t] = l]
    /\ pc' = [pc EXCEPT ![t] = "add_items"]
    /\ UNCHANGED <<id_to_object, object_to_id, hnsw, object, embedding, replace, hit, faults>>

\* Mutant: The label is read but stays in the free list.
ReuseLabelKept(t) ==
    /\ pc[t] = "allocate"
    /\ replace[t]
    /\ \E l \in free_ids : Give(t, l)
    /\ UNCHANGED <<free_ids, next_id>>

ReuseLabel(t) ==
    /\ pc[t] = "allocate"
    /\ replace[t]
    /\ \E l \in free_ids : Give(t, l) /\ free_ids' = free_ids \ {l}
    /\ UNCHANGED next_id

NewLabel(t) ==
    /\ pc[t] = "allocate"
    /\ ~replace[t]
    /\ next_id < MaxLabel
    /\ Give(t, next_id)
    /\ next_id' = next_id + 1
    /\ UNCHANGED free_ids

\* Mutant: pop with a default: add goes on without a label.
PopNothing(t) ==
    /\ pc[t] = "allocate"
    /\ replace[t]
    /\ free_ids = {}
    /\ Goto(t, "add_items")
    /\ UNCHANGED <<index, hnsw, faults>>

\* Another thread took the last free label since bool(self._free_ids): pop raises.
PopFromEmpty(t) ==
    /\ pc[t] = "allocate"
    /\ replace[t]
    /\ free_ids = {}
    /\ Return(t, None)
    /\ UNCHANGED <<index, hnsw, faults>>

\* hnswlib has room for the label: it holds it, or fewer than max_elements.
HasRoom(l) ==
    \/ vector[l] # None
    \/ Cardinality({m \in Labels : vector[m] # None}) < MaxElements

AddItems(t) ==
    /\ pc[t] = "add_items"
    /\ HasRoom(label[t])
    /\ vector' = [vector EXCEPT ![label[t]] = embedding[t]]
    /\ deleted' = deleted \ {label[t]}
    /\ reused' = IF replace[t] THEN reused \cup {label[t]} ELSE reused
    /\ Goto(t, "publish")
    /\ UNCHANGED <<index, faults>>

\* hnswlib raises: the label is neither used nor free any more.
AddItemsFails(t) ==
    /\ pc[t] = "add_items"
    /\ \/ ~HasRoom(label[t]) /\ UNCHANGED faults
       \/ faults < MaxFaults /\ faults' = faults + 1
    /\ Return(t, None)
    /\ UNCHANGED <<index, hnsw>>

Publish(t) ==
    /\ pc[t] = "publish"
    /\ id_to_object' = [id_to_object EXCEPT ![label[t]] = object[t]]
    /\ object_to_id' = [object_to_id EXCEPT ![object[t]] = label[t]]
    /\ Return(t, None)
    /\ UNCHANGED <<free_ids, next_id, hnsw, faults>>

-----------------------------------------------------------------------------
(* remove *)

\* Mutant: The label is looked up and the entry left to be popped later.
BeginRemoveGet(t, o) ==
    /\ object_to_id[o] # None
    /\ Call(t, "unmap", None, None, object_to_id[o])
    /\ UNCHANGED <<index, hnsw, faults>>

BeginRemove(t, o) ==
    /\ object_to_id[o] # None
    /\ Call(t, "unmap", None, None, object_to_id[o])
    /\ object_to_id' = [object_to_id EXCEPT ![o] = None]
    /\ UNCHANGED <<id_to_object, free_ids, next_id, hnsw, faults>>

\* Mutant: The label keeps its object: only the other map is popped.
UnmapForgotten(t) ==
    /\ pc[t] = "unmap"
    /\ Goto(t, "mark_deleted")
    /\ UNCHANGED <<index, hnsw, faults>>

Unmap(t) ==
    /\ pc[t] = "unmap"
    /\ id_to_object' = [id_to_object EXCEPT ![label[t]] = None]
    /\ Goto(t, "mark_deleted")
    /\ UNCHANGED <<object_to_id, free_ids, next_id, hnsw, faults>>

MarkDeleted(t) ==
    /\ pc[t] = "mark_deleted"
    /\ deleted' = deleted \cup {label[t]}
    /\ Goto(t, "free")
    /\ UNCHANGED <<index, vector, reused, faults>>

\* replace_deleted takes any deleted element, and drops the label of that element: another label
\* that is reused can be dropped in this way, and hnswlib does not find it any more.
MarkDeletedRaises(t) ==
    /\ pc[t] = "mark_deleted"
    /\ label[t] \in reused
    /\ Return(t, None)
    /\ UNCHANGED <<index, hnsw, faults>>

Free(t) ==
    /\ pc[t] = "free"
    /\ free_ids' = free_ids \cup {label[t]}
    /\ Return(t, None)
    /\ UNCHANGED <<id_to_object, object_to_id, next_id, hnsw, faults>>

-----------------------------------------------------------------------------
(* search with k = 1, as SemanticCacheManager calls it *)

BeginSearch(t, q) ==
    /\ \E l \in Labels : id_to_object[l] # None
    /\ Call(t, "knn", None, q, None)
    /\ UNCHANGED <<index, hnsw, faults>>

Live == {l \in Labels : vector[l] # None /\ l \notin deleted}

\* The nearest label is similar to the query.
KnnQuery(t) ==
    /\ pc[t] = "knn"
    /\ \E l \in Live : vector[l] = embedding[t] /\ label' = [label EXCEPT ![t] = l]
    /\ pc' = [pc EXCEPT ![t] = "resolve"]
    /\ UNCHANGED <<index, hnsw, object, embedding, replace, hit, faults>>

\* The nearest label is not similar enough, or the search is not exact, or
\* knn_query raises because the index was emptied since the check of search.
KnnQueryMisses(t) ==
    /\ pc[t] = "knn"
    /\ Return(t, None)
    /\ UNCHANGED <<index, hnsw, faults>>

\* The label is looked up, which finds nothing if its object was removed.
Resolve(t) ==
    /\ pc[t] = "resolve"
    /\ Return(t, id_to_object[label[t]])
    /\ UNCHANGED <<index, hnsw, faults>>

-----------------------------------------------------------------------------
Begin(t) ==
    \/ \E o \in Objects, v \in Vectors : BeginAdd(t, o, v)
    \/ \E o \in Objects : BeginRemove(t, o)
    \/ \E v \in Vectors : BeginSearch(t, v)

Add(t) ==
    \/ Reserve(t) \/ ReuseLabel(t) \/ NewLabel(t) \/ PopFromEmpty(t)
    \/ AddItems(t) \/ AddItemsFails(t) \/ Publish(t)

Remove(t) == Unmap(t) \/ MarkDeleted(t) \/ MarkDeletedRaises(t) \/ Free(t)

Query(t) == KnnQuery(t) \/ KnnQueryMisses(t) \/ Resolve(t)

Next == \E t \in Threads : Begin(t) \/ Add(t) \/ Remove(t) \/ Query(t)

Spec == Init /\ [][Next]_vars

-----------------------------------------------------------------------------
(* Properties. *)

\* A label given out is in the free list, or held by one thread, or the label
\* of one object: no two objects ever share a vector of hnswlib, although the
\* label passes through three structures and no lock protects them.
LabelsHaveOneOwner ==
    /\ \A t \in Threads : Holds(t) =>
          /\ label[t] \notin free_ids
          /\ label[t] < next_id
          /\ \A u \in Threads \ {t} : Holds(u) => label[u] # label[t]
          /\ \A o \in Objects : object_to_id[o] # label[t]
    /\ \A o \in Objects : object_to_id[o] # None =>
          /\ object_to_id[o] \notin free_ids
          /\ object_to_id[o] < next_id
          /\ \A p \in Objects \ {o} : object_to_id[p] # object_to_id[o]
    /\ \A l \in free_ids : l < next_id

\* The two maps are inverse of each other, except for the label a thread is
\* removing, which the second still has; callers do not add an id twice.
MapsAgree ==
    /\ \A o \in Objects : object_to_id[o] # None => id_to_object[object_to_id[o]] = o
    /\ \A l \in Labels : id_to_object[l] # None =>
          \/ object_to_id[id_to_object[l]] = l
          \/ \E t \in Threads : pc[t] = "unmap" /\ label[t] = l

\* While a label names an object, the vector under it is neither replaced nor
\* marked deleted: a search that reads the label and then its name within one
\* step of the index gets the vector that was added with that object.
VectorsStay == \A l \in Labels : id_to_object[l] # None /\ id_to_object'[l] # None
    => id_to_object'[l] = id_to_object[l] /\ vector'[l] = vector[l] /\ l \notin deleted'

NamedVectorStays == [][VectorsStay]_vars
=============================================================================
