------------------------------ MODULE LazyIndex ------------------------------
(***************************************************************************)
(* How MetadataStore (metadata/metadata_store.py) comes by its HNSW index: *)
(* the first semantic entry creates it, with the dimension of its          *)
(* embedding, and no lock keeps two first calls apart.  A step is the code *)
(* between two calls.  An index has room and takes and drops a vector in   *)
(* one step; HNSWIndex is about what happens inside.                       *)
(***************************************************************************)
EXTENDS Naturals

CONSTANTS
    Threads,        \* a thread creates one index at most, which has its name
    Entries,        \* object ids of semantic entries
    Dims,           \* dimensions of embeddings
    MaxCalls,       \* bound: calls of on_semantic_entry_added
    None

VARIABLES
    current,    \* _hnsw
    dim,        \* dimension of each index
    vectors,    \* vectors[i][e]: dimension of the vector of an entry in an index, None if it has none
    at,         \* where each thread is
    entry, want,\* the entry it adds, the dimension of the embedding
    held,       \* the index it has looked at last
    calls,
    sure,       \* history: calls that began when an index was there and nobody was creating one
    settled     \*   entries such calls have added, and nobody has removed

locals == <<entry, want, held>>
vars   == <<current, dim, vectors, at, locals, calls, sure, settled>>

Empty == [e \in Entries |-> None]

TypeOK ==
    /\ current \in Threads \cup {None}
    /\ dim \in [Threads -> Dims \cup {None}]
    /\ current # None => dim[current] # None
    /\ at \in [Threads -> {"idle", "create", "compare", "add"}]
    /\ entry \in [Threads -> Entries \cup {None}] /\ want \in [Threads -> Dims \cup {None}]
    /\ held \in [Threads -> Threads \cup {None}]
    /\ sure \subseteq Threads /\ settled \subseteq Entries
    /\ DOMAIN vectors = Threads
    /\ \A i \in Threads : vectors[i] \in [Entries -> {None, dim[i]}]

Init ==
    /\ current = None
    /\ dim = [i \in Threads |-> None]
    /\ vectors = [i \in Threads |-> Empty]
    /\ at = [t \in Threads |-> "idle"]
    /\ entry = [t \in Threads |-> None] /\ want = [t \in Threads |-> None]
    /\ held = [t \in Threads |-> None]
    /\ calls = 0
    /\ sure = {} /\ settled = {}

Return(t) ==
    /\ at' = [at EXCEPT ![t] = "idle"]
    /\ entry' = [entry EXCEPT ![t] = None]
    /\ want' = [want EXCEPT ![t] = None]
    /\ held' = [held EXCEPT ![t] = None]
    /\ sure' = sure \ {t}

-----------------------------------------------------------------------------
(* on_semantic_entry_added *)

\* _ensure_hnsw looks for an index, and asks the one there is for its dimension.
Ensure(t, e, d) ==
    /\ at[t] = "idle" /\ calls < MaxCalls
    /\ at' = [at EXCEPT ![t] = IF current = None THEN "create" ELSE "compare"]
    /\ entry' = [entry EXCEPT ![t] = e]
    /\ want' = [want EXCEPT ![t] = d]
    /\ held' = [held EXCEPT ![t] = current]
    /\ sure' = IF current # None /\ \A u \in Threads : at[u] # "create" THEN sure \cup {t} ELSE sure
    /\ calls' = calls + 1
    /\ UNCHANGED <<current, dim, vectors, settled>>

\* Whatever index is there by now is replaced.
Create(t) ==
    /\ at[t] = "create"
    /\ current' = t
    /\ dim' = [dim EXCEPT ![t] = want[t]]
    /\ at' = [at EXCEPT ![t] = "add"]
    /\ held' = [held EXCEPT ![t] = t]
    /\ UNCHANGED <<vectors, entry, want, calls, sure, settled>>

\* The dimension is that of the index seen before, the index returned the one there is now.
Compare(t) ==
    /\ at[t] = "compare" /\ dim[held[t]] = want[t]
    /\ held' = [held EXCEPT ![t] = current]
    /\ at' = [at EXCEPT ![t] = "add"]
    /\ UNCHANGED <<current, dim, vectors, entry, want, calls, sure, settled>>

\* A bug: an index of another dimension is replaced.
CompareReplaces(t) ==
    /\ at[t] = "compare" /\ dim[held[t]] # want[t]
    /\ at' = [at EXCEPT ![t] = "create"]
    /\ UNCHANGED <<current, dim, vectors, locals, calls, sure, settled>>

CompareRaises(t) ==
    /\ at[t] = "compare" /\ dim[held[t]] # want[t]
    /\ Return(t)
    /\ UNCHANGED <<current, dim, vectors, calls, settled>>

Settle(t) == settled' = IF t \in sure THEN settled \cup {entry[t]} ELSE settled

\* A bug: any embedding is taken.
AddAny(t) ==
    /\ at[t] = "add"
    /\ vectors' = [vectors EXCEPT ![held[t]][entry[t]] = want[t]]
    /\ Settle(t)
    /\ Return(t)
    /\ UNCHANGED <<current, dim, calls>>

\* HNSWIndex.add does nothing if the entry has a vector, and checks the dimension if it has none.
Add(t) ==
    /\ at[t] = "add"
    /\ LET i == held[t] IN
       \/ /\ vectors[i][entry[t]] # None
          /\ Settle(t)
          /\ UNCHANGED vectors
       \/ /\ vectors[i][entry[t]] = None /\ dim[i] = want[t]
          /\ vectors' = [vectors EXCEPT ![i][entry[t]] = want[t]]
          /\ Settle(t)
       \/ /\ vectors[i][entry[t]] = None /\ dim[i] # want[t]
          /\ UNCHANGED <<vectors, settled>>
    /\ Return(t)
    /\ UNCHANGED <<current, dim, calls>>

\* on_object_removed
RemoveEntry(e) ==
    /\ current # None /\ vectors[current][e] # None
    /\ vectors' = [vectors EXCEPT ![current][e] = None]
    /\ settled' = settled \ {e}
    /\ UNCHANGED <<current, dim, at, locals, calls, sure>>

Next ==
    \/ \E t \in Threads :
          \/ \E e \in Entries, d \in Dims : Ensure(t, e, d)
          \/ Create(t) \/ Compare(t) \/ CompareRaises(t) \/ Add(t)
    \/ \E e \in Entries : RemoveEntry(e)

Spec == Init /\ [][Next]_vars

\* The entry of a call that began when an index was there and nobody was creating one is
\* searchable until it is removed: only the entries of first calls that overlap can be lost.
SettledStaySearchable == \A e \in settled : current # None /\ vectors[current][e] # None
=============================================================================
