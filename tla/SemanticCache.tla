---------------------------- MODULE SemanticCache ----------------------------
(***************************************************************************)
(* SemanticCacheManager (semantic_cache/cache_manager.py) over a store     *)
(* shared by several threads: they ask the manager for answers and delete  *)
(* entries from the store directly, and the process can restart.  A call   *)
(* of the store or of its metadata is a step.                              *)
(*                                                                         *)
(* Prompts whose embeddings are above the threshold of each other form a   *)
(* topic.  The index finds an entry of the topic whenever it has one, so   *)
(* what the label races of HNSWIndex add to it is left to that module.     *)
(***************************************************************************)
EXTENDS Naturals, FiniteSets

CONSTANTS
    Threads,
    Topics,
    Entries,        \* bound: the object ids (uuid4) that can be made
    IndexLimit,     \* max_elements of the HNSW index, a number
    MaxRestarts,    \* bound: restarts of the process
    None

VARIABLES
    topic,      \* what each entry answers, None until the entry is made
    stored,     \* entries in the backend
    known,      \* the store's Bloom filter
    index,      \* the store's HNSW index
    mode,       \* the manager: loading, ready, or failed to start
    todo,       \* entry ids the manager has still to load
    loaded,     \* the one it is loading, if it is
    pc,         \* where each thread is
    prompt,     \* the topic of its prompt
    match,      \* the entry its call is about
    orphans,    \* history: entries whose put raised: the index was full, or the backend did
    warm,       \* history: topics a call has cached, with no delete or restart since
    cold,       \* history: calls whose topic was not warm all the time
    met,        \* history: dead entries some call has dealt with
    before,     \*   and those of them dealt with before a call began
    restarts

storage == <<topic, stored>>
startup == <<mode, todo, loaded>>
history == <<orphans, warm, cold, met, before>>
vars    == <<topic, stored, known, index, mode, todo, loaded, pc, prompt, match,
             orphans, warm, cold, met, before, restarts>>

Answering == {"search", "load", "forget", "generate", "put", "index"}
Deleting  == {"delete", "unindex"}

TypeOK ==
    /\ topic \in [Entries -> Topics \cup {None}]
    /\ stored \in SUBSET Entries /\ known \in SUBSET Entries /\ index \in SUBSET Entries
    /\ mode \in {"loading", "ready", "failed"}
    /\ todo \in SUBSET Entries /\ loaded \in Entries \cup {None}
    /\ pc \in [Threads -> {"idle"} \cup Answering \cup Deleting]
    /\ prompt \in [Threads -> Topics \cup {None}]
    /\ match \in [Threads -> Entries \cup {None}]
    /\ orphans \in SUBSET Entries /\ warm \in SUBSET Topics /\ cold \in SUBSET Threads
    /\ met \in SUBSET Entries /\ before \in [Threads -> SUBSET Entries]
    /\ restarts \in 0..MaxRestarts
    /\ \A e \in stored \cup index : topic[e] # None

Init ==
    /\ topic = [e \in Entries |-> None]
    /\ stored = {} /\ known = {} /\ index = {}
    /\ mode = "ready" /\ todo = {} /\ loaded = None
    /\ pc = [t \in Threads |-> "idle"]
    /\ prompt = [t \in Threads |-> None]
    /\ match = [t \in Threads |-> None]
    /\ orphans = {} /\ warm = {} /\ cold = {}
    /\ met = {} /\ before = [t \in Threads |-> {}]
    /\ restarts = 0

Goto(t, place) == pc' = [pc EXCEPT ![t] = place]

Return(t) ==
    /\ Goto(t, "idle")
    /\ prompt' = [prompt EXCEPT ![t] = None]
    /\ match' = [match EXCEPT ![t] = None]

\* The topics whose entries are being deleted.
Fading == {topic[match[t]] : t \in {u \in Threads : pc[u] \in Deleting}}

\* A put whose entry is still there makes its topic warm, a delete makes it cold;
\* the calls on the topic remember the latter.
Warm(t) ==
    /\ warm' = IF match[t] \in stored /\ prompt[t] \notin Fading THEN warm \cup {prompt[t]} ELSE warm
    /\ UNCHANGED <<orphans, cold, met, before>>

Cool(p) ==
    /\ warm' = warm \ {p}
    /\ cold' = cold \cup {t \in Threads : prompt[t] = p}
    /\ UNCHANGED <<orphans, met, before>>

-----------------------------------------------------------------------------
(* get_or_generate *)

BeginGet(t, p) ==
    /\ mode = "ready" /\ pc[t] = "idle"
    /\ Goto(t, "search")
    /\ prompt' = [prompt EXCEPT ![t] = p]
    /\ cold' = IF p \in warm THEN cold \ {t} ELSE cold \cup {t}
    /\ before' = [before EXCEPT ![t] = met]
    /\ UNCHANGED <<storage, known, index, startup, match, orphans, warm, met, restarts>>

\* k = 1: the index returns one entry of the topic if it has any.
SearchMatch(t, e) ==
    /\ pc[t] = "search"
    /\ e \in index /\ topic[e] = prompt[t]
    /\ match' = [match EXCEPT ![t] = e]
    /\ Goto(t, "load")
    /\ UNCHANGED <<storage, known, index, startup, prompt, history, restarts>>

SearchNothing(t) ==
    /\ pc[t] = "search"
    /\ \A e \in index : topic[e] # prompt[t]
    /\ Goto(t, "generate")
    /\ UNCHANGED <<storage, known, index, startup, prompt, match, history, restarts>>

\* get_semantic_entry asks the Bloom filter before the backend.
Readable(e) == e \in known /\ e \in stored

Hit(t) ==
    /\ pc[t] = "load" /\ Readable(match[t])
    /\ Return(t)
    /\ UNCHANGED <<storage, known, index, startup, history, restarts>>

Stale(t) ==
    /\ pc[t] = "load" /\ ~Readable(match[t])
    /\ Goto(t, "forget")
    /\ UNCHANGED <<storage, known, index, startup, prompt, match, history, restarts>>

\* A bug: the stale entry stays in the index.
ForgetNothing(t) ==
    /\ pc[t] = "forget"
    /\ met' = met \cup {match[t]}
    /\ Goto(t, "generate")
    /\ UNCHANGED <<storage, known, index, startup, prompt, match, orphans, warm, cold, before, restarts>>

\* The index pointed to a missing object: treated as a miss.
Forget(t) ==
    /\ pc[t] = "forget"
    /\ index' = index \ {match[t]}
    /\ met' = met \cup {match[t]}
    /\ Goto(t, "generate")
    /\ UNCHANGED <<storage, known, startup, prompt, match, orphans, warm, cold, before, restarts>>

\* mark_deleted raises when the object has lost its label, see HNSWIndex.
ForgetRaises(t) ==
    /\ pc[t] = "forget"
    /\ index' = index \ {match[t]}
    /\ met' = met \cup {match[t]}
    /\ Return(t)
    /\ UNCHANGED <<storage, known, startup, orphans, warm, cold, before, restarts>>

Generate(t) ==
    /\ pc[t] = "generate"
    /\ Goto(t, "put")
    /\ UNCHANGED <<storage, known, index, startup, prompt, match, history, restarts>>

\* The index, the generator or the backend raises, and a put that does leaves nothing to read.
GetRaises(t) ==
    /\ pc[t] \in {"search", "load", "generate", "put"}
    /\ Return(t)
    /\ UNCHANGED <<storage, known, index, startup, history, restarts>>

\* The answers to the requests of the put and of its rollback are lost: the entry is there and
\* not in the index.
PutRaises(t) ==
    /\ pc[t] = "put"
    /\ \E e \in {f \in Entries : topic[f] = None} :
          /\ topic' = [topic EXCEPT ![e] = prompt[t]]
          /\ stored' = stored \cup {e}
          /\ orphans' = orphans \cup {e}
    /\ Return(t)
    /\ UNCHANGED <<known, index, startup, warm, cold, met, before, restarts>>

\* A bug: the index is given the object_id of the search, not that of the put.
PutOldId(t) ==
    /\ pc[t] = "put"
    /\ \E e \in {f \in Entries : topic[f] = None} :
          /\ topic' = [topic EXCEPT ![e] = prompt[t]]
          /\ stored' = stored \cup {e}
    /\ Goto(t, "index")
    /\ UNCHANGED <<known, index, startup, prompt, match, history, restarts>>

Put(t) ==
    /\ pc[t] = "put"
    /\ \E e \in {f \in Entries : topic[f] = None} :
          /\ topic' = [topic EXCEPT ![e] = prompt[t]]
          /\ stored' = stored \cup {e}
          /\ match' = [match EXCEPT ![t] = e]
    /\ Goto(t, "index")
    /\ UNCHANGED <<known, index, startup, prompt, history, restarts>>

HasRoom == Cardinality(index) < IndexLimit

\* A bug: an index entry without its bits in the Bloom filter.
AddUnknown(t) ==
    /\ pc[t] = "index" /\ HasRoom
    /\ index' = index \cup {match[t]}
    /\ Warm(t)
    /\ Return(t)
    /\ UNCHANGED <<storage, known, startup, restarts>>

\* on_semantic_entry_added
Add(t) ==
    /\ pc[t] = "index" /\ HasRoom
    /\ known' = known \cup {match[t]}
    /\ index' = index \cup {match[t]}
    /\ Warm(t)
    /\ Return(t)
    /\ UNCHANGED <<storage, startup, restarts>>

AddRaises(t) ==
    /\ pc[t] = "index" /\ ~HasRoom
    /\ known' = known \cup {match[t]}
    /\ orphans' = orphans \cup {match[t]}
    /\ Return(t)
    /\ UNCHANGED <<storage, index, startup, warm, cold, met, before, restarts>>

-----------------------------------------------------------------------------
(* UnifiedObjectStore.delete_semantic_entry, called directly *)

BeginDelete(t, e) ==
    /\ pc[t] = "idle" /\ e \in stored
    /\ match' = [match EXCEPT ![t] = e]
    /\ Cool(topic[e])
    /\ Goto(t, "delete")
    /\ UNCHANGED <<storage, known, index, startup, prompt, restarts>>

Delete(t) ==
    /\ pc[t] = "delete" /\ match[t] \in stored
    /\ stored' = stored \ {match[t]}
    /\ Goto(t, "unindex")
    /\ UNCHANGED <<topic, known, index, startup, prompt, match, history, restarts>>

DeleteMissing(t) ==
    /\ pc[t] = "delete" /\ match[t] \notin stored
    /\ Return(t)
    /\ UNCHANGED <<storage, known, index, startup, history, restarts>>

\* Both keys are there still, or the entry cannot be read any more; the index keeps it.
DeleteRaises(t) ==
    /\ pc[t] = "delete"
    /\ stored' \in {stored, stored \ {match[t]}}
    /\ Return(t)
    /\ UNCHANGED <<topic, known, index, startup, history, restarts>>

\* Also when mark_deleted raises.
Unindex(t) ==
    /\ pc[t] = "unindex"
    /\ index' = index \ {match[t]}
    /\ Return(t)
    /\ UNCHANGED <<storage, known, startup, history, restarts>>

-----------------------------------------------------------------------------
(* A new process on the old bucket; _load_existing_entries *)

Restart ==
    /\ restarts < MaxRestarts
    /\ restarts' = restarts + 1
    /\ known' = {} /\ index' = {}
    /\ mode' = "loading" /\ todo' = stored /\ loaded' = None
    /\ pc' = [t \in Threads |-> "idle"]
    /\ prompt' = [t \in Threads |-> None]
    /\ match' = [t \in Threads |-> None]
    /\ orphans' = {} /\ warm' = {} /\ cold' = {}
    /\ met' = {} /\ before' = [t \in Threads |-> {}]
    /\ UNCHANGED storage

\* A bug: the entry is read before the filter knows it.
LoadUnknown(e) ==
    /\ mode = "loading" /\ loaded = None /\ e \in todo
    /\ loaded' = e
    /\ UNCHANGED <<storage, known, index, mode, todo, pc, prompt, match, history, restarts>>

LoadKnown(e) ==
    /\ mode = "loading" /\ loaded = None /\ e \in todo
    /\ known' = known \cup {e}
    /\ loaded' = e
    /\ UNCHANGED <<storage, index, mode, todo, pc, prompt, match, history, restarts>>

\* get_semantic_entry, and on_semantic_entry_added if it found the entry; a
\* delete can run between the two.
LoadEntry ==
    /\ mode = "loading" /\ loaded \in todo /\ Readable(loaded)
    /\ todo' = todo \ {loaded}
    /\ UNCHANGED <<storage, known, index, mode, loaded, pc, prompt, match, history, restarts>>

LoadMissing ==
    /\ mode = "loading" /\ loaded \in todo /\ ~Readable(loaded)
    /\ todo' = todo \ {loaded}
    /\ loaded' = None
    /\ UNCHANGED <<storage, known, index, mode, pc, prompt, match, history, restarts>>

LoadAdd ==
    /\ mode = "loading" /\ loaded \notin todo \cup {None}
    /\ HasRoom
    /\ index' = index \cup {loaded}
    /\ loaded' = None
    /\ UNCHANGED <<storage, known, mode, todo, pc, prompt, match, history, restarts>>

\* The constructor raises: the backend does, or the index is full.
LoadRaises ==
    /\ mode = "loading"
    /\ todo # {} \/ (loaded # None /\ ~HasRoom)
    /\ mode' = "failed" /\ todo' = {} /\ loaded' = None
    /\ UNCHANGED <<storage, known, index, pc, prompt, match, history, restarts>>

Ready ==
    /\ mode = "loading" /\ todo = {} /\ loaded = None
    /\ mode' = "ready"
    /\ UNCHANGED <<storage, known, index, todo, loaded, pc, prompt, match, history, restarts>>

-----------------------------------------------------------------------------
Get(t) ==
    \/ \E e \in Entries : SearchMatch(t, e)
    \/ SearchNothing(t) \/ Hit(t) \/ Stale(t) \/ Forget(t) \/ ForgetRaises(t)
    \/ Generate(t) \/ GetRaises(t) \/ Put(t) \/ PutRaises(t) \/ Add(t) \/ AddRaises(t)

Load ==
    \/ \E e \in Entries : LoadKnown(e)
    \/ LoadEntry \/ LoadMissing \/ LoadAdd \/ LoadRaises \/ Ready

Next ==
    \/ \E t \in Threads, p \in Topics : BeginGet(t, p)
    \/ \E t \in Threads, e \in Entries : BeginDelete(t, e)
    \/ \E t \in Threads : Get(t) \/ Delete(t) \/ DeleteMissing(t) \/ DeleteRaises(t) \/ Unindex(t)
    \/ Restart \/ Load

Spec == Init /\ [][Next]_vars

-----------------------------------------------------------------------------
(* Properties. *)

Indexing(e) == \E t \in Threads : match[t] = e /\ pc[t] = "index"

\* When the manager is ready, a stored entry whose put is over is searchable and readable, also after
\* a restart and after a delete that raised and left it there, unless its put raised.
StoredAreSearchable ==
    mode = "ready" => \A e \in stored \ orphans : ~Indexing(e) => e \in known /\ e \in index

\* Once an answer is cached, the generator runs again for its topic only in a
\* call that a delete or restart overlapped, or that met a dead index entry no
\* earlier call had met: a dead entry costs one generation, not one per call.
GeneratesOnlyUncached ==
    [][\A t \in Threads : pc[t] = "generate" /\ pc'[t] = "put" =>
            t \in cold \/ match[t] \notin before[t] \cup {None}]_vars
=============================================================================
