---------------------------- MODULE ObjectStore ----------------------------
(***************************************************************************)
(* UnifiedObjectStore (core/object_store.py) over a storage backend and    *)
(* the in-process MetadataStore, called by the worker threads of the gRPC  *)
(* server.  The Python code takes no lock, so every backend request and    *)
(* every update of the metadata is a step of its own, and the steps of     *)
(* different threads interleave.                                           *)
(*                                                                         *)
(* An object is kept under one key (workflows, steps, tool artifacts and   *)
(* traces) or under two (KV blocks, RAG objects, semantic entries and      *)
(* plans: the .meta.json key and the .data key).  What is stored under a   *)
(* key is the version of the put that wrote it.                            *)
(***************************************************************************)
EXTENDS Naturals, FiniteSets

CONSTANTS
    Threads,        \* gRPC workers (ThreadPoolExecutor) or in-process callers
    PairIds,        \* ids of objects kept under two keys
    MetaIds,        \* ids of objects kept under the .meta.json key only
    IndexedIds,     \* pair ids with a search entry: KV (prefix tree), semantic (HNSW)
    SemanticIds,    \* indexed ids whose entry is in the bounded HNSW index
    Versions,       \* what a put may write
    NoVersion,      \* an absent key
    ExclusiveIds,   \* ids on which the callers never overlap two writing calls
    WriteOnceIds,   \* ids the callers put at most once (uuid4 of ObjectMeta)
    CountsMissing,  \* TRUE: S3Backend.delete_many; FALSE: StorageBackend.delete_many
    IndexLimit,     \* max_elements of the HNSW index
    MaxFaults,      \* bound: backend requests that fail
    MaxRestarts     \* bound: restarts of the process

Ids == PairIds \cup MetaIds

ASSUME IdsAssumption ==
    /\ PairIds \cap MetaIds = {}
    /\ IndexedIds \subseteq PairIds
    /\ SemanticIds \subseteq IndexedIds
    /\ Ids # {}
    /\ ExclusiveIds \subseteq Ids
    /\ WriteOnceIds \subseteq Ids
    /\ NoVersion \notin Versions
ASSUME BoundsAssumption ==
    /\ MaxFaults \in Nat
    /\ MaxRestarts \in Nat
    /\ IndexLimit \in Nat
    /\ CountsMissing \in BOOLEAN

VARIABLES
    meta,       \* backend: the .meta.json keys
    data,       \* backend: the .data keys
    bloom,      \* the ids whose bits are all set in the Bloom filter
    index,      \* the ids with an entry in the prefix tree or in the HNSW index
    pc,         \* where each thread is
    arg,        \* the object id of its call
    val,        \* the version its put writes
    got,        \* what it read under .meta.json
    todo,       \* the keys delete_many has not treated yet
    count,      \* the keys delete_many reports deleted
    out,        \* the outcome of its last call
    used,       \* the ids put so far (what uuid4 makes unique)
    faults,     \* backend failures so far
    restarts    \* restarts so far

stored   == <<meta, data>>
indexes  == <<bloom, index>>
locals   == <<arg, val, got, todo, count>>
outside  == <<used, faults, restarts>>
vars     == <<meta, data, bloom, index, pc, arg, val, got, todo, count, out,
              used, faults, restarts>>

Stored == Versions \cup {NoVersion}
Puts    == {"put_meta", "put_data", "rollback", "bloom_add", "index_add"}
Gets    == {"might_exist", "get_meta", "get_data"}
Deletes == {"delete_many", "index_remove", "exists", "delete_meta"}
Writing == Puts \cup Deletes
Labels  == {"idle"} \cup Gets \cup Writing

Outcomes == [kind : {"none", "put", "deleted", "not_deleted", "raised", "missing", "object"},
             meta : Stored, data : Stored]
Outcome(kind) == [kind |-> kind, meta |-> NoVersion, data |-> NoVersion]
Object(m, d)  == [kind |-> "object", meta |-> m, data |-> d]

StoreShapes ==
    /\ meta \in [Ids -> Stored]
    /\ data \in [Ids -> Stored]
    /\ bloom \in SUBSET Ids
    /\ index \in SUBSET IndexedIds
    /\ used \in SUBSET Ids
    /\ faults \in 0..MaxFaults
    /\ restarts \in 0..MaxRestarts

ThreadShapes ==
    /\ pc \in [Threads -> Labels]
    /\ arg \in [Threads -> Ids]
    /\ val \in [Threads -> Stored]
    /\ got \in [Threads -> Stored]
    /\ todo \in [Threads -> SUBSET {"meta", "data"}]
    /\ count \in [Threads -> Nat]
    /\ out \in [Threads -> Outcomes]

\* A thread inside a call holds what its next step needs.
CallOK(t) ==
    /\ pc[t] \in {"put_data", "rollback", "get_data", "delete_many", "index_remove"} => arg[t] \in PairIds
    /\ pc[t] \in Puts => val[t] \in Versions
    /\ pc[t] = "get_data" => got[t] \in Versions
    /\ pc[t] = "index_add" => arg[t] \in IndexedIds
    /\ pc[t] \in {"exists", "delete_meta"} => arg[t] \in MetaIds

TypeOK == StoreShapes /\ ThreadShapes /\ \A t \in Threads : CallOK(t)

Init ==
    /\ meta = [i \in Ids |-> NoVersion]
    /\ data = [i \in Ids |-> NoVersion]
    /\ bloom = {}
    /\ index = {}
    /\ pc = [t \in Threads |-> "idle"]
    /\ arg \in [Threads -> {CHOOSE i \in Ids : TRUE}]
    /\ val = [t \in Threads |-> NoVersion]
    /\ got = [t \in Threads |-> NoVersion]
    /\ todo = [t \in Threads |-> {}]
    /\ count = [t \in Threads |-> 0]
    /\ out = [t \in Threads |-> Outcome("none")]
    /\ used = {}
    /\ faults = 0
    /\ restarts = 0

-----------------------------------------------------------------------------
(* What a thread does at the end of a step: go on, keep what it read and go *)
(* on, or return to its caller, which drops the locals of the call.         *)

Goto(t, label) ==
    /\ pc' = [pc EXCEPT ![t] = label]
    /\ UNCHANGED <<locals, out>>

Keep(t, version, label) ==
    /\ got' = [got EXCEPT ![t] = version]
    /\ pc' = [pc EXCEPT ![t] = label]
    /\ UNCHANGED <<arg, val, todo, count, out>>

Return(t, outcome) ==
    /\ pc' = [pc EXCEPT ![t] = "idle"]
    /\ out' = [out EXCEPT ![t] = outcome]
    /\ val' = [val EXCEPT ![t] = NoVersion]
    /\ got' = [got EXCEPT ![t] = NoVersion]
    /\ todo' = [todo EXCEPT ![t] = {}]
    /\ count' = [count EXCEPT ![t] = 0]
    /\ UNCHANGED arg

\* A backend request raises: the caller sees the exception.
Raise(t) == Return(t, Outcome("raised"))

Fault ==
    /\ faults < MaxFaults
    /\ faults' = faults + 1
    /\ UNCHANGED <<used, restarts>>

\* What a failed request may leave: it was lost, or only its answer was.
Maybe(f, i, v) == {f, [f EXCEPT ![i] = v]}

-----------------------------------------------------------------------------
(* Callers.  ExclusiveIds and WriteOnceIds are promises of the callers: the *)
(* store itself refuses nothing.                                            *)

NoWriterOf(i) == \A u \in Threads : pc[u] \in Writing => arg[u] # i

MayWrite(i) == i \in ExclusiveIds => NoWriterOf(i)

Call(t, i, label) ==
    /\ pc[t] = "idle"
    /\ pc' = [pc EXCEPT ![t] = label]
    /\ arg' = [arg EXCEPT ![t] = i]
    /\ out' = [out EXCEPT ![t] = Outcome("none")]
    /\ UNCHANGED <<stored, indexes, got, count, faults, restarts>>

BeginPut(t, i, v) ==
    /\ MayWrite(i)
    /\ i \in WriteOnceIds => i \notin used
    /\ Call(t, i, "put_meta")
    /\ val' = [val EXCEPT ![t] = v]
    /\ used' = used \cup {i}
    /\ UNCHANGED todo

BeginGet(t, i) ==
    /\ Call(t, i, "might_exist")
    /\ UNCHANGED <<val, todo, used>>

BeginDelete(t, i) ==
    /\ MayWrite(i)
    /\ Call(t, i, IF i \in PairIds THEN "delete_many" ELSE "exists")
    /\ todo' = [todo EXCEPT ![t] = IF i \in PairIds THEN {"meta", "data"} ELSE {}]
    /\ UNCHANGED <<val, used>>

-----------------------------------------------------------------------------
(* put_*: _put_pair or _put_meta_object, then on_object_added or            *)
(* on_semantic_entry_added.                                                 *)

PutMeta(t) ==
    /\ pc[t] = "put_meta"
    /\ meta' = [meta EXCEPT ![arg[t]] = val[t]]
    /\ Goto(t, IF arg[t] \in PairIds THEN "put_data" ELSE "bloom_add")
    /\ UNCHANGED <<data, indexes, outside>>

PutMetaFails(t) ==
    /\ pc[t] = "put_meta"
    /\ Fault
    /\ meta' \in Maybe(meta, arg[t], val[t])
    /\ Raise(t)
    /\ UNCHANGED <<data, indexes>>

\* Mutant: The prefix tree is updated and the Bloom filter forgotten.
PutDataSkipsBloom(t) ==
    /\ pc[t] = "put_data"
    /\ data' = [data EXCEPT ![arg[t]] = val[t]]
    /\ Goto(t, IF arg[t] \in IndexedIds THEN "index_add" ELSE "bloom_add")
    /\ UNCHANGED <<meta, indexes, outside>>

PutData(t) ==
    /\ pc[t] = "put_data"
    /\ data' = [data EXCEPT ![arg[t]] = val[t]]
    /\ Goto(t, "bloom_add")
    /\ UNCHANGED <<meta, indexes, outside>>

\* Mutant: The exception of the second write is swallowed.
PutDataFailsSilently(t) ==
    /\ pc[t] = "put_data"
    /\ Fault
    /\ data' \in Maybe(data, arg[t], val[t])
    /\ Goto(t, "bloom_add")
    /\ UNCHANGED <<meta, indexes>>

\* Mutant: A put whose second write failed starts over.
PutDataRetried(t) ==
    /\ pc[t] = "put_data"
    /\ Fault
    /\ data' \in Maybe(data, arg[t], val[t])
    /\ Goto(t, "put_meta")
    /\ UNCHANGED <<meta, indexes>>

PutDataFails(t) ==
    /\ pc[t] = "put_data"
    /\ Fault
    /\ data' \in Maybe(data, arg[t], val[t])
    /\ Goto(t, "rollback")
    /\ UNCHANGED <<meta, indexes>>

\* The except clause of _put_pair deletes the .meta.json key, then re-raises.
Rollback(t) ==
    /\ pc[t] = "rollback"
    /\ meta' = [meta EXCEPT ![arg[t]] = NoVersion]
    /\ Raise(t)
    /\ UNCHANGED <<data, indexes, outside>>

RollbackFails(t) ==
    /\ pc[t] = "rollback"
    /\ Fault
    /\ meta' \in Maybe(meta, arg[t], NoVersion)
    /\ Raise(t)
    /\ UNCHANGED <<data, indexes>>

\* BloomFilter.add sets the bits one by one: until the last of them is set the
\* ids whose other bits were set already may pass before this one does.
BloomSetBits(t) ==
    /\ pc[t] = "bloom_add"
    /\ bloom' \in {b \in SUBSET Ids : bloom \subseteq b}
    /\ UNCHANGED <<stored, index, pc, locals, out, outside>>

\* Mutant: _put_meta_object without on_object_added.
BloomAddForgotten(t) ==
    /\ pc[t] = "bloom_add"
    /\ IF arg[t] \in IndexedIds THEN Goto(t, "index_add")
                                ELSE Return(t, Outcome("put"))
    /\ UNCHANGED <<stored, indexes, outside>>

\* The last bit of the id; it may complete the bits of others too.
BloomAdd(t) ==
    /\ pc[t] = "bloom_add"
    /\ bloom' \in {b \in SUBSET Ids : bloom \cup {arg[t]} \subseteq b}
    /\ IF arg[t] \in IndexedIds THEN Goto(t, "index_add")
                                ELSE Return(t, Outcome("put"))
    /\ UNCHANGED <<stored, index, outside>>

IndexHasRoom(i) ==
    \/ i \in index
    \/ i \notin SemanticIds
    \/ Cardinality(index \cap SemanticIds) < IndexLimit

IndexAdd(t) ==
    /\ pc[t] = "index_add"
    /\ IndexHasRoom(arg[t])
    /\ index' = index \cup {arg[t]}
    /\ Return(t, Outcome("put"))
    /\ UNCHANGED <<stored, bloom, outside>>

\* HNSWIndex.add raises ValueError: both keys are stored, the bits are set.
IndexAddFull(t) ==
    /\ pc[t] = "index_add"
    /\ ~IndexHasRoom(arg[t])
    /\ Raise(t)
    /\ UNCHANGED <<stored, indexes, outside>>

-----------------------------------------------------------------------------
(* get_*: might_exist, then _get_pair or the body of _get_meta_object.      *)

MightExist(t) ==
    /\ pc[t] = "might_exist"
    /\ IF arg[t] \in bloom THEN Goto(t, "get_meta")
                           ELSE Return(t, Outcome("missing"))
    /\ UNCHANGED <<stored, indexes, outside>>

\* Mutant: _get_pair without the early return on a missing .meta.json.
GetMetaUnchecked(t) ==
    /\ pc[t] = "get_meta"
    /\ IF arg[t] \in PairIds THEN Keep(t, meta[arg[t]], "get_data")
                             ELSE Return(t, Object(meta[arg[t]], NoVersion))
    /\ UNCHANGED <<stored, indexes, outside>>

GetMeta(t) ==
    /\ pc[t] = "get_meta"
    /\ IF meta[arg[t]] = NoVersion THEN Return(t, Outcome("missing"))
       ELSE IF arg[t] \in PairIds THEN Keep(t, meta[arg[t]], "get_data")
       ELSE Return(t, Object(meta[arg[t]], NoVersion))
    /\ UNCHANGED <<stored, indexes, outside>>

\* Mutant: a get that has the metadata waits for the tensors.
GetDataWaits(t) ==
    /\ pc[t] = "get_data" /\ data[arg[t]] # NoVersion
    /\ Return(t, Object(got[t], data[arg[t]]))
    /\ UNCHANGED <<stored, indexes, outside>>

GetData(t) ==
    /\ pc[t] = "get_data"
    /\ Return(t, IF data[arg[t]] = NoVersion THEN Outcome("missing")
                                             ELSE Object(got[t], data[arg[t]]))
    /\ UNCHANGED <<stored, indexes, outside>>

ReadFails(t) ==
    /\ pc[t] \in {"get_meta", "get_data"}
    /\ Fault
    /\ Raise(t)
    /\ UNCHANGED <<stored, indexes>>

-----------------------------------------------------------------------------
(* delete_* of a pair: delete_many on both keys, which S3 treats one by one *)
(* in any order, then on_object_removed if the count is positive.           *)

Present(i, key) == (IF key = "meta" THEN meta[i] ELSE data[i]) # NoVersion

DeleteKey(t, key) ==
    /\ pc[t] = "delete_many"
    /\ key \in todo[t]
    /\ todo' = [todo EXCEPT ![t] = @ \ {key}]
    /\ count' = [count EXCEPT ![t] =
                    IF CountsMissing \/ Present(arg[t], key) THEN @ + 1 ELSE @]
    /\ meta' = IF key = "meta" THEN [meta EXCEPT ![arg[t]] = NoVersion] ELSE meta
    /\ data' = IF key = "data" THEN [data EXCEPT ![arg[t]] = NoVersion] ELSE data
    /\ UNCHANGED <<indexes, pc, arg, val, got, out, outside>>

\* One key is in the Errors of the answer of S3: it is kept and not counted.
DeleteKeyError(t, key) ==
    /\ pc[t] = "delete_many"
    /\ key \in todo[t]
    /\ Fault
    /\ todo' = [todo EXCEPT ![t] = @ \ {key}]
    /\ UNCHANGED <<stored, indexes, pc, arg, val, got, count, out>>

\* The whole request raises, whatever it did before.
DeleteManyRaises(t) ==
    /\ pc[t] = "delete_many"
    /\ Fault
    /\ Raise(t)
    /\ UNCHANGED <<stored, indexes>>

\* Mutant: delete_kv_block without on_object_removed.
DeleteManyForgetsIndex(t) ==
    /\ pc[t] = "delete_many"
    /\ todo[t] = {}
    /\ Return(t, Outcome(IF count[t] > 0 THEN "deleted" ELSE "not_deleted"))
    /\ UNCHANGED <<stored, indexes, outside>>

DeleteManyReturns(t) ==
    /\ pc[t] = "delete_many"
    /\ todo[t] = {}
    /\ IF count[t] > 0 THEN Goto(t, "index_remove")
                       ELSE Return(t, Outcome("not_deleted"))
    /\ UNCHANGED <<stored, indexes, outside>>

\* PrefixTree.remove or HNSWIndex.remove; the Bloom filter keeps its bits.
IndexRemove(t) ==
    /\ pc[t] = "index_remove"
    /\ index' = index \ {arg[t]}
    /\ Return(t, Outcome("deleted"))
    /\ UNCHANGED <<stored, bloom, outside>>

-----------------------------------------------------------------------------
(* delete_* of a single-key object: the backend asks whether the key exists *)
(* and then deletes it; on_object_removed does nothing for these types.     *)

Exists(t) ==
    /\ pc[t] = "exists"
    /\ Keep(t, meta[arg[t]], "delete_meta")
    /\ UNCHANGED <<stored, indexes, outside>>

\* S3Backend.exists answers False to every ClientError.
ExistsFails(t) ==
    /\ pc[t] = "exists"
    /\ Fault
    /\ Keep(t, NoVersion, "delete_meta")
    /\ UNCHANGED <<stored, indexes>>

DeleteMeta(t) ==
    /\ pc[t] = "delete_meta"
    /\ meta' = [meta EXCEPT ![arg[t]] = NoVersion]
    /\ Return(t, Outcome(IF got[t] # NoVersion THEN "deleted" ELSE "not_deleted"))
    /\ UNCHANGED <<data, indexes, outside>>

DeleteMetaFails(t) ==
    /\ pc[t] = "delete_meta"
    /\ Fault
    /\ meta' \in Maybe(meta, arg[t], NoVersion)
    /\ Raise(t)
    /\ UNCHANGED <<data, indexes>>

-----------------------------------------------------------------------------
\* The process dies and build_store makes a new MetadataStore on the old bucket.
Restart ==
    /\ restarts < MaxRestarts
    /\ restarts' = restarts + 1
    /\ bloom' = {}
    /\ index' = {}
    /\ pc' = [t \in Threads |-> "idle"]
    /\ val' = [t \in Threads |-> NoVersion]
    /\ got' = [t \in Threads |-> NoVersion]
    /\ todo' = [t \in Threads |-> {}]
    /\ count' = [t \in Threads |-> 0]
    /\ out' = [t \in Threads |-> Outcome("none")]
    /\ UNCHANGED <<stored, arg, used, faults>>

Put(t) ==
    \/ PutMeta(t) \/ PutMetaFails(t) \/ PutData(t) \/ PutDataFails(t)
    \/ Rollback(t) \/ RollbackFails(t) \/ BloomSetBits(t) \/ BloomAdd(t) \/ IndexAdd(t) \/ IndexAddFull(t)

Get(t) == MightExist(t) \/ GetMeta(t) \/ GetData(t) \/ ReadFails(t)

Delete(t) ==
    \/ \E key \in {"meta", "data"} : DeleteKey(t, key) \/ DeleteKeyError(t, key)
    \/ DeleteManyRaises(t) \/ DeleteManyReturns(t) \/ IndexRemove(t)
    \/ Exists(t) \/ ExistsFails(t) \/ DeleteMeta(t) \/ DeleteMetaFails(t)

Begin(t) ==
    \E i \in Ids :
        \/ \E v \in Versions : BeginPut(t, i, v)
        \/ BeginGet(t, i)
        \/ BeginDelete(t, i)

Step(t) == Put(t) \/ Get(t) \/ Delete(t)

Next == Restart \/ \E t \in Threads : Begin(t) \/ Step(t)

Spec == Init /\ [][Next]_vars

\* A thread inside a call is scheduled again; nobody has to call, fail or restart.
Fairness == \A t \in Threads : WF_vars(Step(t))

\* Every call returns: no step of one thread waits for another thread.
CallsReturn == \A t \in Threads : pc[t] # "idle" ~> pc[t] = "idle"

\* The steps a call has before it at most, but for the bits it sets and the keys it deletes.
Left == [p \in Labels |->
    CASE p = "idle" -> 0
      [] p \in {"rollback", "index_add", "get_data", "index_remove", "delete_meta"} -> 1
      [] p \in {"bloom_add", "get_meta", "delete_many", "exists"} -> 2
      [] p \in {"put_data", "might_exist"} -> 3
      [] p = "put_meta" -> 4]

\* The call goes to a later place, or has a key less to delete, or sets a bit.
GetsOn(t) ==
    \/ Left[pc'[t]] < Left[pc[t]]
    \/ /\ pc'[t] = pc[t]
       /\ \/ todo'[t] \subseteq todo[t] /\ todo'[t] # todo[t]
          \/ bloom \subseteq bloom' /\ bloom' # bloom

\* The store is wait-free: each step of a call brings it closer to its end, whatever fails and
\* however often, and no other thread sends it back (put_*, get_* and delete_* retry nothing).
CallsGetOn ==
    [][\A t \in Threads : pc[t] # "idle" =>
          \/ GetsOn(t)
          \/ ~Step(t) /\ UNCHANGED <<pc[t], arg[t], val[t], got[t], todo[t], count[t], out[t]>>]_vars

-----------------------------------------------------------------------------
(* The views the callers have of the state.                                 *)

\* What a get that ran in one instant would find (list_* does not look at bloom).
Complete(i) == meta[i] # NoVersion /\ (i \in PairIds => data[i] # NoVersion)

Visible(i) ==
    IF i \in bloom /\ Complete(i)
    THEN Object(meta[i], IF i \in PairIds THEN data[i] ELSE NoVersion)
    ELSE Outcome("missing")

\* _list_ids: the ids with at least one key under the prefix.
Listed == {i \in Ids : meta[i] # NoVersion \/ data[i] # NoVersion}

\* Every search result passes the Bloom check of the get that follows it: the
\* metadata sets the bits of an id before it makes the id searchable.
SearchHitsPassBloom == index \subseteq bloom
-----------------------------------------------------------------------------
(* The steps as the histories of the extending modules see them.            *)

Restarted   == restarts' # restarts
Began(t)    == pc[t] = "idle" /\ pc'[t] # "idle"
Returned(t) == pc[t] # "idle" /\ pc'[t] = "idle" /\ ~Restarted

BeganWriting(t, i) == Began(t) /\ pc'[t] \in Writing /\ arg'[t] = i
=============================================================================
