---------------------------- MODULE StoreHistory ----------------------------
(***************************************************************************)
(* ObjectStore with the history its properties speak about.  None of these *)
(* variables exists in the code: they watch the steps of ObjectStore and   *)
(* never constrain them.                                                   *)
(***************************************************************************)
EXTENDS ObjectStore

VARIABLES
    live,       \* per id: the version of the last put, if it was acknowledged by
                \* this process and no writing call on the id began since
    hit         \* ids whose last writing call raised

hvars == <<vars, live, hit>>

HInit ==
    /\ Init
    /\ live = [i \in Ids |-> NoVersion]
    /\ hit = {}

Answered(t, i, kind) == Returned(t) /\ arg[t] = i /\ pc[t] \in Writing /\ out'[t].kind = kind

RememberLive ==
    live' = [i \in Ids |->
        IF Restarted \/ \E t \in Threads : BeganWriting(t, i) THEN NoVersion
        ELSE IF \E t \in Threads : Answered(t, i, "put")
             THEN val[CHOOSE t \in Threads : Answered(t, i, "put")]
        ELSE live[i]]

RememberHit ==
    hit' = {i \in Ids :
        \/ \E t \in Threads : Answered(t, i, "raised")
        \/ i \in hit /\ \A t \in Threads : ~Answered(t, i, "put") /\ ~Answered(t, i, "deleted")}

HNext == Next /\ RememberLive /\ RememberHit

HSpec == HInit /\ [][HNext]_hvars

-----------------------------------------------------------------------------
(* Properties. *)

\* What the callers of get_* and of the searches rely on: both keys hold the
\* version, the id passes the Bloom filter and is searchable.
Readable(i, v) ==
    /\ meta[i] = v
    /\ i \in PairIds => data[i] = v
    /\ i \in bloom
    /\ i \in IndexedIds => i \in index

\* On ids whose writers do not overlap (put_kv_block of a fresh block, a plan
\* rewritten by one manager), an acknowledged put stays readable until the next
\* writing call on the id begins, whatever the calls on other ids, the readers
\* and the backend do.
AcknowledgedPutIsReadable ==
    \A i \in ExclusiveIds : live[i] # NoVersion => Readable(i, live[i])

\* Outside writing calls, and unless the last one raised, the prefix tree and
\* the HNSW index name only objects that are in the backend: delete_* and the
\* index removal that follows it, or a retry of it, leave no dangling entry.
SearchFindsStored ==
    \A i \in (index \cap ExclusiveIds) \ hit : NoWriterOf(i) => Complete(i)
=============================================================================
