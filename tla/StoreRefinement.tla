--------------------------- MODULE StoreRefinement ---------------------------
(***************************************************************************)
(* ObjectStore implements AtomicStore.  The history variables are those of *)
(* AtomicStore; they watch the steps of ObjectStore and never constrain    *)
(* them.                                                                   *)
(***************************************************************************)
EXTENDS ObjectStore

VARIABLES
    seen,       \* per get in progress: what the object was at each instant
    clean,      \* writing calls no other writing call on the id overlaps
    doubt       \* puts that raised

rvars == <<vars, seen, clean, doubt>>

RInit ==
    /\ Init
    /\ seen = [t \in Threads |-> {}]
    /\ clean = {}
    /\ doubt = {}

\* The version a caller sees, or both halves if they differ.
VersionOf(o) ==
    IF o.kind # "object" THEN NoVersion
    ELSE IF o.data \in {o.meta, NoVersion} THEN o.meta
    ELSE <<o.meta, o.data>>

Seen(i) == VersionOf(Visible(i))

RememberSeen ==
    seen' = [t \in Threads |->
        IF pc'[t] \notin Gets THEN {}
        ELSE (IF Began(t) THEN {} ELSE seen[t]) \cup {Seen(arg[t])'}]

RememberClean ==
    clean' = {t \in Threads :
        /\ pc'[t] \in Writing
        /\ Began(t) \/ t \in clean
        /\ \A u \in Threads \ {t} :
              /\ Began(t) => ~(pc[u] \in Writing /\ arg[u] = arg'[t])
              /\ ~BeganWriting(u, arg'[t])}

RememberDoubt ==
    doubt' = doubt \cup {<<arg[t], val[t]>> : t \in {u \in Threads :
                            pc[u] \in Puts /\ Returned(u) /\ out'[u].kind = "raised"}}

RNext == Next /\ RememberSeen /\ RememberClean /\ RememberDoubt

RSpec     == RInit /\ [][RNext]_rvars
RFairSpec == RSpec /\ Fairness

-----------------------------------------------------------------------------
\* The store implements AtomicStore for the ids whose reads it keeps whole.
CallOf(t) ==
    IF pc[t] = "idle" THEN [op |-> "none", id |-> NoVersion, ver |-> NoVersion]
    ELSE IF pc[t] \in Puts THEN [op |-> "put", id |-> arg[t], ver |-> val[t]]
    ELSE [op |-> IF pc[t] \in Gets THEN "get" ELSE "delete", id |-> arg[t], ver |-> NoVersion]

ReplyOf(o) ==
    CASE o.kind \in {"missing", "object"} -> VersionOf(o)
      [] OTHER -> o.kind

Atomic == INSTANCE AtomicStore WITH
    store <- [i \in Ids |-> Seen(i)],
    call  <- [t \in Threads |-> CallOf(t)],
    reply <- [t \in Threads |-> ReplyOf(out[t])]

\* Every behaviour of the store is one of the atomic store: reads are regular,
\* unopposed writes take effect, nothing changes without a call in progress.
ImplementsAtomicStore == Atomic!Spec

\* A get never mixes the metadata of one put with the tensors of another.
ReadsAreWhole == \A t \in Threads : out[t].kind = "object" /\ arg[t] \in PairIds
                                        => out[t].meta = out[t].data
=============================================================================
