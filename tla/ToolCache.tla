------------------------------ MODULE ToolCache ------------------------------
(***************************************************************************)
(* ToolArtifactCache (agent/tool_cache.py): an in-memory index of the tool *)
(* results kept in the object store.  One caller makes the calls; every    *)
(* store call inside one is a step that can raise, the process can stop    *)
(* between two of them, and time passes between them.                      *)
(*                                                                         *)
(* A key stands for a (tool, arguments, scope); the id of an artifact is   *)
(* the hash of its key and its source version.                             *)
(***************************************************************************)
EXTENDS Naturals

CONSTANTS
    Keys,
    Versions,       \* source versions
    None,
    TTLs,
    MaxClock,       \* bound: the clock stops there
    MaxFaults,      \* bound: store calls that raise
    MaxRestarts     \* bound: restarts of the process

Artifacts == Keys \X Versions
Times     == Nat \cup {None}

ASSUME CacheAssumption ==
    /\ None \notin Versions \cup Keys \cup Nat \cup Artifacts
    /\ TTLs \subseteq Nat \ {0}
    /\ MaxClock \in Nat /\ MaxFaults \in Nat /\ MaxRestarts \in Nat

VARIABLES
    clock,
    stored,     \* the store: expires_at of each artifact
    known,      \* the store's Bloom filter
    index,      \* key -> version of the artifact it names
    pc,         \* where the caller is
    key,        \* locals of the call
    version,
    time,       \* expires_at of a put, now of a purge or rebuild
    todo,       \* what its loop has still to visit
    hit,        \* the artifact the last call returned, if it was a get that hit
    current,    \* history: the versions a get of the key may return
    faults,
    restarts

store  == <<stored, known, faults>>
locals == <<key, version, time, todo>>
vars   == <<clock, stored, known, index, pc, key, version, time, todo, hit,
            current, faults, restarts>>

Putting == {"put", "delete_previous"}

TypeOK ==
    /\ clock \in Nat
    /\ stored \in [Artifacts -> Times]
    /\ known \in SUBSET Artifacts
    /\ index \in [Keys -> Versions \cup {None}]
    /\ pc \in {"idle", "get", "delete_expired", "invalidate", "purge", "rebuild"} \cup Putting
    /\ key \in Keys \cup {None}
    /\ version \in Versions \cup {None}
    /\ time \in Times
    /\ todo \in (SUBSET Keys) \cup (SUBSET Artifacts)
    /\ hit \in Artifacts \cup {None}
    /\ current \in [Keys -> SUBSET Versions]
    /\ faults \in 0..MaxFaults
    /\ restarts \in 0..MaxRestarts
    /\ pc \in Putting => version # None
    /\ pc \in {"get", "delete_previous"} => index[key] # None
    /\ pc \in {"invalidate", "purge"} => \A k \in todo : index[k] # None

Init ==
    /\ clock = 0
    /\ stored = [a \in Artifacts |-> None]
    /\ known = {}
    /\ index = [k \in Keys |-> None]
    /\ pc = "idle"
    /\ key = None
    /\ version = None
    /\ time = None
    /\ todo = {}
    /\ hit = None
    /\ current = [k \in Keys |-> {}]
    /\ faults = 0
    /\ restarts = 0

Begin(place, k, v, t, visit) ==
    /\ pc = "idle"
    /\ pc' = place
    /\ key' = k
    /\ version' = v
    /\ time' = t
    /\ todo' = visit
    /\ hit' = None

Goto(place) ==
    /\ pc' = place
    /\ UNCHANGED <<locals, hit>>

\* The call ends, by return or by an exception.
Return(found) ==
    /\ pc' = "idle"
    /\ key' = None
    /\ version' = None
    /\ time' = None
    /\ todo' = {}
    /\ hit' = found

\* The loop goes on to its next item, or the call ends after the last one.
Visited(x) ==
    \/ todo = {x} /\ Return(None)
    \/ todo # {x} /\ todo' = todo \ {x} /\ UNCHANGED <<pc, key, version, time, hit>>

-----------------------------------------------------------------------------
(* The store (see ObjectStore): a call that raises may have had its effect. *)

Raises == faults < MaxFaults /\ faults' = faults + 1

StorePut(a, t) ==
    /\ stored' = [stored EXCEPT ![a] = t]
    /\ known' = known \cup {a}
    /\ UNCHANGED faults

StorePutRaises(a, t) ==
    /\ Raises
    /\ stored' \in {stored, [stored EXCEPT ![a] = t]}
    /\ UNCHANGED known

StoreDelete(a) ==
    /\ stored' = [stored EXCEPT ![a] = None]
    /\ UNCHANGED <<known, faults>>

StoreDeleteRaises(a) ==
    /\ Raises
    /\ stored' \in {stored, [stored EXCEPT ![a] = None]}
    /\ UNCHANGED known

\* get_tool_artifact: None without asking the backend if the filter denies it.
Found(a) == IF a \in known THEN stored[a] ELSE None

StoreGetRaises(a) ==
    /\ a \in known
    /\ Raises
    /\ UNCHANGED <<stored, known>>

Expired(t, now) == t <= now

-----------------------------------------------------------------------------
(* put_tool_artifact *)

BeginPut(k, v, ttl) ==
    /\ Begin("put", k, v, clock + ttl, {})
    /\ UNCHANGED <<clock, store, index, current, restarts>>

Register ==
    /\ index' = [index EXCEPT ![key] = version]
    /\ current' = [current EXCEPT ![key] = {version}]
    /\ Return(None)

\* Mutant: The previous artifact is deleted whether there is one or not.
PutAlwaysDeletes ==
    /\ pc = "put"
    /\ StorePut(<<key, version>>, time)
    /\ Goto("delete_previous")
    /\ UNCHANGED <<clock, index, current, restarts>>

\* Mutant: The previous artifact is forgotten, not deleted.
PutKeepsPrevious ==
    /\ pc = "put"
    /\ StorePut(<<key, version>>, time)
    /\ Register
    /\ UNCHANGED <<clock, restarts>>

Put ==
    /\ pc = "put"
    /\ StorePut(<<key, version>>, time)
    /\ IF index[key] \in {None, version}
       THEN Register
       ELSE Goto("delete_previous") /\ UNCHANGED <<index, current>>
    /\ UNCHANGED <<clock, restarts>>

PutRaises ==
    /\ pc = "put"
    /\ StorePutRaises(<<key, version>>, time)
    /\ current' = [current EXCEPT ![key] = @ \cup {version}]
    /\ Return(None)
    /\ UNCHANGED <<clock, index, restarts>>

DeletePrevious ==
    /\ pc = "delete_previous"
    /\ StoreDelete(<<key, index[key]>>)
    /\ Register
    /\ UNCHANGED <<clock, restarts>>

\* Mutant: A failure of the delete is swallowed, and the registration skipped.
DeletePreviousSwallowed ==
    /\ pc = "delete_previous"
    /\ StoreDeleteRaises(<<key, index[key]>>)
    /\ current' = [current EXCEPT ![key] = {version}]
    /\ Return(None)
    /\ UNCHANGED <<clock, index, restarts>>

DeletePreviousRaises ==
    /\ pc = "delete_previous"
    /\ StoreDeleteRaises(<<key, index[key]>>)
    /\ current' = [current EXCEPT ![key] = @ \cup {version}]
    /\ Return(None)
    /\ UNCHANGED <<clock, index, restarts>>

-----------------------------------------------------------------------------
(* get_tool_artifact; v is the source version asked for, None for any *)

BeginGet(k, v) ==
    /\ index[k] # None
    /\ Begin("get", k, v, None, {})
    /\ UNCHANGED <<clock, store, index, current, restarts>>

Asked == <<key, index[key]>>

Get ==
    /\ pc = "get"
    /\ Found(Asked) # None
    /\ version \in {None, index[key]}
    /\ ~Expired(Found(Asked), clock)
    /\ Return(Asked)
    /\ UNCHANGED <<clock, store, index, current, restarts>>

GetMissing ==
    /\ pc = "get"
    /\ Found(Asked) = None
    /\ index' = [index EXCEPT ![key] = None]
    /\ Return(None)
    /\ UNCHANGED <<clock, store, current, restarts>>

GetOtherVersion ==
    /\ pc = "get"
    /\ Found(Asked) # None
    /\ version \notin {None, index[key]}
    /\ Return(None)
    /\ UNCHANGED <<clock, store, index, current, restarts>>

\* The index entry is popped; what it named is deleted next.
GetExpired ==
    /\ pc = "get"
    /\ Found(Asked) # None
    /\ version \in {None, index[key]}
    /\ Expired(Found(Asked), clock)
    /\ index' = [index EXCEPT ![key] = None]
    /\ version' = index[key]
    /\ pc' = "delete_expired"
    /\ UNCHANGED <<clock, store, key, time, todo, hit, current, restarts>>

DeleteExpired ==
    /\ pc = "delete_expired"
    /\ StoreDelete(<<key, version>>) \/ StoreDeleteRaises(<<key, version>>)
    /\ Return(None)
    /\ UNCHANGED <<clock, index, current, restarts>>

GetRaises ==
    /\ pc = "get"
    /\ StoreGetRaises(Asked)
    /\ Return(None)
    /\ UNCHANGED <<clock, index, current, restarts>>

-----------------------------------------------------------------------------
(* invalidate_tool_artifacts: the filters select some of the keys *)

BeginInvalidate(filter) ==
    /\ \E k \in filter : index[k] # None
    /\ Begin("invalidate", None, None, None, {k \in filter : index[k] # None})
    /\ UNCHANGED <<clock, store, index, current, restarts>>

Invalidate(k) ==
    /\ pc = "invalidate"
    /\ k \in todo
    /\ index' = [index EXCEPT ![k] = None]
    /\ current' = [current EXCEPT ![k] = {}]
    /\ StoreDelete(<<k, index[k]>>)
    /\ Visited(k)
    /\ UNCHANGED <<clock, restarts>>

InvalidateRaises(k) ==
    /\ pc = "invalidate"
    /\ k \in todo
    /\ index' = [index EXCEPT ![k] = None]
    /\ current' = [current EXCEPT ![k] = {}]
    /\ StoreDeleteRaises(<<k, index[k]>>)
    /\ Return(None)
    /\ UNCHANGED <<clock, restarts>>

-----------------------------------------------------------------------------
(* purge_expired *)

BeginPurge ==
    /\ \E k \in Keys : index[k] # None
    /\ Begin("purge", None, None, clock, {k \in Keys : index[k] # None})
    /\ UNCHANGED <<clock, store, index, current, restarts>>

PurgeMissing(k) ==
    /\ pc = "purge"
    /\ k \in todo
    /\ Found(<<k, index[k]>>) = None
    /\ index' = [index EXCEPT ![k] = None]
    /\ Visited(k)
    /\ UNCHANGED <<clock, store, current, restarts>>

PurgeFresh(k) ==
    /\ pc = "purge"
    /\ k \in todo
    /\ Found(<<k, index[k]>>) # None
    /\ ~Expired(Found(<<k, index[k]>>), time)
    /\ Visited(k)
    /\ UNCHANGED <<clock, store, index, current, restarts>>

PurgeExpired(k) ==
    /\ pc = "purge"
    /\ k \in todo
    /\ Found(<<k, index[k]>>) # None
    /\ Expired(Found(<<k, index[k]>>), time)
    /\ index' = [index EXCEPT ![k] = None]
    /\ \/ StoreDelete(<<k, index[k]>>) /\ Visited(k)
       \/ StoreDeleteRaises(<<k, index[k]>>) /\ Return(None)
    /\ UNCHANGED <<clock, current, restarts>>

PurgeRaises(k) ==
    /\ pc = "purge"
    /\ k \in todo
    /\ StoreGetRaises(<<k, index[k]>>)
    /\ Return(None)
    /\ UNCHANGED <<clock, index, current, restarts>>

-----------------------------------------------------------------------------
(* rebuild_index, also the way to fill the index of a new cache *)

Persisted == {a \in Artifacts : stored[a] # None}

BeginRebuild ==
    /\ index' = [k \in Keys |-> None]
    /\ Persisted # {}
    /\ Begin("rebuild", None, None, clock, Persisted)
    /\ UNCHANGED <<clock, store, current, restarts>>

\* The listing fails, or finds nothing: the index is left empty.
BeginRebuildEmpty ==
    /\ index' = [k \in Keys |-> None]
    /\ \/ Persisted = {} /\ UNCHANGED faults
       \/ Raises
    /\ Begin("idle", None, None, None, {})
    /\ UNCHANGED <<clock, stored, known, current, restarts>>

RebuildMissing(a) ==
    /\ pc = "rebuild"
    /\ a \in todo
    /\ Found(a) = None
    /\ Visited(a)
    /\ UNCHANGED <<clock, store, index, current, restarts>>

RebuildExpired(a) ==
    /\ pc = "rebuild"
    /\ a \in todo
    /\ Found(a) # None
    /\ Expired(Found(a), time)
    /\ \/ StoreDelete(a) /\ Visited(a)
       \/ StoreDeleteRaises(a) /\ Return(None)
    /\ UNCHANGED <<clock, index, current, restarts>>

\* Mutant: The artifact that expires earlier stays.
ReplacesNever(a) == index[a[1]] = None

\* The key has no artifact yet, or one that is gone or expires earlier.
Replaces(a) ==
    LET other == <<a[1], index[a[1]]>> IN
    \/ index[a[1]] = None
    \/ Found(other) = None
    \/ Found(a) > Found(other)

\* What failed calls have left in the store may come back.
RebuildFresh(a) ==
    /\ pc = "rebuild"
    /\ a \in todo
    /\ Found(a) # None
    /\ ~Expired(Found(a), time)
    /\ index' = IF Replaces(a) THEN [index EXCEPT ![a[1]] = a[2]] ELSE index
    /\ current' = IF faults = 0 THEN current ELSE [current EXCEPT ![a[1]] = @ \cup {a[2]}]
    /\ Visited(a)
    /\ UNCHANGED <<clock, store, restarts>>

RebuildRaises(a) ==
    /\ pc = "rebuild"
    /\ a \in todo
    /\ StoreGetRaises(a)
    /\ Return(None)
    /\ UNCHANGED <<clock, index, current, restarts>>

-----------------------------------------------------------------------------
Tick ==
    /\ clock < MaxClock
    /\ clock' = clock + 1
    /\ UNCHANGED <<store, index, pc, locals, hit, current, restarts>>

\* The process stops, in a call or between two; the next one starts with a new
\* object store and a new cache over the same bucket.
Restart ==
    /\ restarts < MaxRestarts
    /\ restarts' = restarts + 1
    /\ known' = {}
    /\ index' = [k \in Keys |-> None]
    /\ Return(None)
    /\ UNCHANGED <<clock, stored, current, faults>>

Next ==
    \/ \E k \in Keys, v \in Versions, ttl \in TTLs : BeginPut(k, v, ttl)
    \/ Put \/ PutRaises \/ DeletePrevious \/ DeletePreviousRaises
    \/ \E k \in Keys, v \in Versions \cup {None} : BeginGet(k, v)
    \/ Get \/ GetMissing \/ GetOtherVersion \/ GetExpired \/ GetRaises \/ DeleteExpired
    \/ \E filter \in SUBSET Keys : BeginInvalidate(filter)
    \/ \E k \in Keys : Invalidate(k) \/ InvalidateRaises(k)
    \/ BeginPurge
    \/ \E k \in Keys : PurgeMissing(k) \/ PurgeFresh(k) \/ PurgeExpired(k) \/ PurgeRaises(k)
    \/ BeginRebuild \/ BeginRebuildEmpty
    \/ \E a \in Artifacts :
          RebuildMissing(a) \/ RebuildExpired(a) \/ RebuildFresh(a) \/ RebuildRaises(a)
    \/ Tick \/ Restart

Spec == Init /\ [][Next]_vars

-----------------------------------------------------------------------------
(* Properties. *)

\* A hit is of a version that a put stored and no later put or invalidation of
\* the key replaced, also when store calls of these calls raised halfway and
\* when the process stopped in them: a failed put leaves the old and the new, and
\* what a failed delete left may be found again by rebuild_index only.
HitIsCurrent == hit # None => hit[2] \in current[hit[1]]

\* As long as no store call failed and since the process started on an empty
\* store, the store holds no artifact but the one the index names for its key: no superseded version is left behind, and an entry
\* is dropped from the index only together with its artifact.
StoredIsIndexed ==
    pc = "idle" /\ faults = 0 /\ restarts = 0 =>
        \A k \in Keys, v \in Versions : stored[<<k, v>>] # None => index[k] = v /\ v \in current[k]

RebuildEnds == pc = "rebuild" /\ pc' = "idle" /\ UNCHANGED <<faults, restarts>>

\* Which of the visible artifacts rebuild_index indexes: for each key one that
\* had not expired when it began and that no other outlives.
IndexesFreshest(visible(_)) ==
    \A k \in Keys :
        LET fresh == {v \in Versions : visible(<<k, v>>) # None /\ ~Expired(visible(<<k, v>>), time)}
        IN  IF fresh = {} THEN index'[k] = None
            ELSE /\ index'[k] \in fresh
                 /\ \A v \in fresh : visible(<<k, v>>) <= visible(<<k, index'[k]>>)

\* A rebuild that ends indexes, of the artifacts the Bloom filter admits, the
\* ones that live longest, in whatever order the store lists them.
RebuildFindsKnown == [][RebuildEnds => IndexesFreshest(Found)]_vars

\* A rebuild that ends indexes the persisted artifacts.
Stored(a) == stored[a]
RebuildFindsPersisted == [][RebuildEnds => IndexesFreshest(Stored)]_vars
=============================================================================
