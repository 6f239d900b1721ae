------------------------------ MODULE PlanCache ------------------------------
(***************************************************************************)
(* PlanCacheManager (agent/plan_cache.py): plan templates in the object    *)
(* store with an HNSW index of the manager's own, used by several threads. *)
(* A call of the store or of the index is a step; a call of the store can  *)
(* raise.  Which plans are similar to a task, and which of them fit the    *)
(* required tools and constraints, is left open.                           *)
(***************************************************************************)
EXTENDS Naturals, FiniteSets

CONSTANTS
    Threads,
    Plans,          \* bound: the plan ids (uuid4) that can be made
    IndexLimit,     \* max_elements
    MaxRecords,     \* bound: calls of record_plan_result
    MaxFaults,      \* bound: calls of store or index that raise
    MaxRestarts,    \* bound: restarts of the process
    MaxManagers,    \* bound: managers made over a live store
    None

ASSUME CacheAssumption ==
    /\ IsFiniteSet(Plans)
    /\ {IndexLimit, MaxRecords, MaxFaults, MaxRestarts, MaxManagers} \subseteq Nat
    /\ None \notin Plans \cup Nat

VARIABLES
    stored,     \* success_count + failure_count of each stored plan
    known,      \* the store's Bloom filter
    index,      \* the plans in the manager's index
    pc,         \* where each thread is
    plan,       \* the plan of its call, or the one its search is about to discard
    count,      \* the count of the entry it read
    todo,       \* the matches its search has still to visit
    mode,       \* the manager: loading, ready, or failed to start
    unread,     \* the listed plans it has still to load
    made,       \* history: ids that were given out
    broken,     \* history: plans the manager may have lost track of, see Begin, Raise, StoreDelete
    attempts,   \* history: results that record_plan_result went to save, per plan
    stretches,  \* history: stretches of overlapping calls on a plan that recorded a result
    credited,   \*   plans whose present stretch is among them
    records, faults, restarts, managers

locals  == <<pc, plan, count, todo>>
history == <<made, broken, attempts, stretches, credited>>
manager == <<mode, unread>>
bounds  == <<records, faults, restarts, managers>>
vars    == <<stored, known, index, pc, plan, count, todo, mode, unread, made, broken,
             attempts, stretches, credited, records, faults, restarts, managers>>

Writing  == {"put", "index", "read", "unindex", "rewrite"}
Deleting == {"exists", "drop", "drop_missing", "erase"}
Changing == Writing \cup Deleting

TypeOK ==
    /\ stored \in [Plans -> Nat \cup {None}]
    /\ known \in SUBSET Plans
    /\ index \in SUBSET Plans /\ Cardinality(index) <= IndexLimit
    /\ pc \in [Threads -> {"idle", "search", "discard"} \cup Changing]
    /\ plan \in [Threads -> Plans \cup {None}]
    /\ count \in [Threads -> Nat \cup {None}]
    /\ todo \in [Threads -> SUBSET Plans]
    /\ mode \in {"loading", "ready", "failed"} /\ unread \in SUBSET Plans
    /\ made \in SUBSET Plans /\ broken \in SUBSET Plans /\ credited \in SUBSET Plans
    /\ attempts \in [Plans -> Nat] /\ stretches \in [Plans -> Nat]
    /\ records \in 0..MaxRecords /\ faults \in 0..MaxFaults /\ restarts \in 0..MaxRestarts /\ managers \in 0..MaxManagers

Init ==
    /\ stored = [p \in Plans |-> None]
    /\ known = {} /\ index = {}
    /\ pc = [t \in Threads |-> "idle"]
    /\ plan = [t \in Threads |-> None]
    /\ count = [t \in Threads |-> None]
    /\ todo = [t \in Threads |-> {}]
    /\ mode = "ready" /\ unread = {}
    /\ made = {} /\ broken = {} /\ credited = {}
    /\ attempts = [p \in Plans |-> 0] /\ stretches = [p \in Plans |-> 0]
    /\ records = 0 /\ faults = 0 /\ restarts = 0 /\ managers = 0

Goto(t, place) == pc' = [pc EXCEPT ![t] = place] /\ UNCHANGED <<plan, count, todo>>

On(t, p) == pc[t] \in Changing /\ plan[t] = p
Free(p)  == \A t \in Threads : ~On(t, p)

Return(t) ==
    /\ pc' = [pc EXCEPT ![t] = "idle"]
    /\ plan' = [plan EXCEPT ![t] = None]
    /\ count' = [count EXCEPT ![t] = None]
    /\ todo' = [todo EXCEPT ![t] = {}]

\* The last of the calls that overlap on a plan ends their stretch.
Closed(plans, t) == IF \E u \in Threads \ {t} : On(u, plan[t]) THEN plans ELSE plans \ {plan[t]}

\* A call on a plan ends.
Leave(t) == Return(t) /\ credited' = Closed(credited, t)

\* It may have done half of its work.
Raise(t) ==
    /\ Leave(t)
    /\ broken' = broken \cup {plan[t]}
    /\ UNCHANGED <<made, stretches>>

Fault == faults < MaxFaults /\ faults' = faults + 1 /\ UNCHANGED <<records, restarts, managers>>

Readable(p) == p \in known /\ stored[p] # None
\* A bug: one element too many.
HasRoomForOneMore(p) == Cardinality(index) <= IndexLimit
\* HNSWIndex.add does nothing for a plan that is indexed.
HasRoomFor(p) == p \in index \/ Cardinality(index) < IndexLimit

\* A delete and a put or record_plan_result at a time: the plan can be left in one of index and
\* store only.
Clash(p, place) == \E t \in Threads : On(t, p) /\ (pc[t] \in Deleting <=> place \notin Deleting)

\* A call on a plan begins at its first step, whoever else is at work on the plan.
Begin(t, p, place) ==
    /\ pc[t] = "idle" /\ mode = "ready"
    /\ pc' = [pc EXCEPT ![t] = place]
    /\ plan' = [plan EXCEPT ![t] = p]
    /\ broken' = IF Clash(p, place) THEN broken \cup {p} ELSE broken
    /\ UNCHANGED <<stored, known, index, count, todo, manager, attempts, stretches, credited,
                   faults, restarts, managers>>

-----------------------------------------------------------------------------
(* put_plan *)

BeginPut(t, p) ==
    /\ p \notin made
    /\ Begin(t, p, "put")
    /\ made' = made \cup {p}
    /\ UNCHANGED records

Put(t) ==
    /\ pc[t] = "put"
    /\ stored' = [stored EXCEPT ![plan[t]] = 0]
    /\ known' = known \cup {plan[t]}
    /\ Goto(t, "index")
    /\ UNCHANGED <<index, manager, history, bounds>>

\* Nothing can be read, or both keys are there: the answer to the last request was lost
\* and the rollback failed.
PutRaises(t) ==
    /\ pc[t] = "put" /\ Fault
    /\ \E left \in {None, 0} : stored' = [stored EXCEPT ![plan[t]] = left]
    /\ Raise(t)
    /\ UNCHANGED <<known, index, manager, attempts>>

\* The last step of put_plan and of record_plan_result, which returns that the result was
\* recorded.
Index(t) ==
    /\ pc[t] = "index" /\ HasRoomFor(plan[t])
    /\ index' = index \cup {plan[t]}
    /\ LET first == count[t] # None /\ plan[t] \notin credited IN
       /\ stretches' = IF first THEN [stretches EXCEPT ![plan[t]] = @ + 1] ELSE stretches
       /\ credited' = Closed(IF first THEN credited \cup {plan[t]} ELSE credited, t)
    /\ Return(t)
    /\ UNCHANGED <<stored, known, manager, made, broken, attempts, bounds>>

IndexRaises(t) ==
    /\ pc[t] = "index" /\ ~HasRoomFor(plan[t])
    /\ Raise(t)
    /\ UNCHANGED <<stored, known, index, manager, attempts, bounds>>

-----------------------------------------------------------------------------
(* record_plan_result *)

BeginRecord(t, p) ==
    /\ records < MaxRecords
    /\ Begin(t, p, "read")
    /\ records' = records + 1
    /\ UNCHANGED made

Read(t) ==
    /\ pc[t] = "read" /\ Readable(plan[t])
    /\ pc' = [pc EXCEPT ![t] = "unindex"]
    /\ count' = [count EXCEPT ![t] = stored[plan[t]]]
    /\ UNCHANGED <<stored, known, index, plan, todo, manager, history, bounds>>

ReadNothing(t) ==
    /\ pc[t] = "read" /\ ~Readable(plan[t])
    /\ Leave(t)
    /\ UNCHANGED <<stored, known, index, manager, made, broken, attempts, stretches, bounds>>

ReadRaises(t) ==
    /\ pc[t] \in {"read", "exists"} /\ Fault
    /\ Raise(t)
    /\ UNCHANGED <<stored, known, index, manager, attempts>>

Unindex(t) ==
    /\ pc[t] = "unindex"
    /\ index' = index \ {plan[t]}
    /\ Goto(t, "rewrite")
    /\ UNCHANGED <<stored, known, manager, history, bounds>>

\* mark_deleted raises when the plan has lost its label, see HNSWIndex.
RemoveRaises(t) ==
    /\ pc[t] \in {"unindex", "drop", "drop_missing"} /\ Fault
    /\ index' = index \ {plan[t]}
    /\ Raise(t)
    /\ UNCHANGED <<stored, known, manager, attempts>>

\* A bug: the result is counted in the entry that was read and not saved.
RewriteForgotten(t) ==
    /\ pc[t] = "rewrite"
    /\ Goto(t, "index")
    /\ UNCHANGED <<stored, known, index, manager, history, bounds>>

\* The entry that was read is saved with the result in it: what other calls have saved since is
\* overwritten.
Rewrite(t) ==
    /\ pc[t] = "rewrite"
    /\ stored' = [stored EXCEPT ![plan[t]] = count[t] + 1]
    /\ attempts' = [attempts EXCEPT ![plan[t]] = @ + 1]
    /\ Goto(t, "index")
    /\ UNCHANGED <<known, index, manager, made, broken, stretches, credited, bounds>>

\* The entry that is there is left, or the new one, or none that can be read: the rollback of
\* a put deletes the .meta.json key, which held the earlier version.
RewriteRaises(t) ==
    /\ pc[t] = "rewrite" /\ Fault
    /\ \E left \in {None, stored[plan[t]], count[t] + 1} : stored' = [stored EXCEPT ![plan[t]] = left]
    /\ attempts' = [attempts EXCEPT ![plan[t]] = @ + 1]
    /\ Raise(t)
    /\ UNCHANGED <<known, index, manager>>

-----------------------------------------------------------------------------
(* delete_plan *)

BeginDelete(t, p) ==
    /\ p \in made
    /\ Begin(t, p, "exists")
    /\ UNCHANGED <<made, records>>

CheckExists(t) ==
    /\ pc[t] = "exists"
    /\ Goto(t, IF Readable(plan[t]) THEN "drop" ELSE "drop_missing")
    /\ UNCHANGED <<stored, known, index, manager, history, bounds>>

\* A plan that is not in the store is only taken out of the index.
DropMissing(t) ==
    /\ pc[t] = "drop_missing"
    /\ index' = index \ {plan[t]}
    /\ Leave(t)
    /\ UNCHANGED <<stored, known, manager, made, broken, attempts, stretches, bounds>>

\* A bug: a deleted plan stays in the index.
DropNothing(t) ==
    /\ pc[t] = "drop"
    /\ Goto(t, "erase")
    /\ UNCHANGED <<stored, known, index, manager, history, bounds>>

Drop(t) ==
    /\ pc[t] = "drop"
    /\ index' = index \ {plan[t]}
    /\ Goto(t, "erase")
    /\ UNCHANGED <<stored, known, manager, history, bounds>>

Erase(t) ==
    /\ pc[t] = "erase"
    /\ stored' = [stored EXCEPT ![plan[t]] = None]
    /\ Leave(t)
    /\ UNCHANGED <<known, index, manager, made, broken, attempts, stretches, bounds>>

EraseRaises(t) ==
    /\ pc[t] = "erase" /\ Fault
    /\ \E left \in {None, stored[plan[t]]} : stored' = [stored EXCEPT ![plan[t]] = left]
    /\ Raise(t)
    /\ UNCHANGED <<known, index, manager, attempts>>

\* UnifiedObjectStore.delete_plan_cache_entry, called without the manager.
StoreDelete(p) ==
    /\ stored[p] # None
    /\ stored' = [stored EXCEPT ![p] = None]
    /\ broken' = broken \cup {p}
    /\ UNCHANGED <<known, index, locals, manager, made, attempts, stretches, credited, bounds>>

-----------------------------------------------------------------------------
(* search_similar_plans *)

BeginSearch(t) ==
    /\ pc[t] = "idle" /\ mode = "ready"
    /\ \E matches \in SUBSET index : todo' = [todo EXCEPT ![t] = matches]
    /\ pc' = [pc EXCEPT ![t] = "search"]
    /\ UNCHANGED <<stored, known, index, plan, count, manager, history, bounds>>

Visit(t, p) == todo' = [todo EXCEPT ![t] = @ \ {p}] /\ UNCHANGED <<pc, plan, count>>

\* The plan is a candidate if validate_plan accepts it.
SearchLoads(t) ==
    /\ pc[t] = "search"
    /\ \E p \in todo[t] : Readable(p) /\ Visit(t, p)
    /\ UNCHANGED <<stored, known, index, manager, history, bounds>>

SearchMisses(t) ==
    /\ pc[t] = "search"
    /\ \E p \in todo[t] :
          /\ ~Readable(p)
          /\ plan' = [plan EXCEPT ![t] = p]
          /\ todo' = [todo EXCEPT ![t] = @ \ {p}]
    /\ pc' = [pc EXCEPT ![t] = "discard"]
    /\ UNCHANGED <<stored, known, index, count, manager, history, bounds>>

\* What was not found is taken out of the index, whatever became of it.
Discard(t) ==
    /\ pc[t] = "discard"
    /\ index' = index \ {plan[t]}
    /\ plan' = [plan EXCEPT ![t] = None]
    /\ pc' = [pc EXCEPT ![t] = "search"]
    /\ UNCHANGED <<stored, known, count, todo, manager, history, bounds>>

DiscardRaises(t) ==
    /\ pc[t] = "discard" /\ Fault
    /\ index' = index \ {plan[t]}
    /\ Return(t)
    /\ UNCHANGED <<stored, known, manager, history>>

SearchRaises(t) ==
    /\ pc[t] = "search" /\ todo[t] # {} /\ Fault
    /\ Return(t)
    /\ UNCHANGED <<stored, known, index, manager, history>>

EndSearch(t) ==
    /\ pc[t] = "search" /\ todo[t] = {}
    /\ Return(t)
    /\ UNCHANGED <<stored, known, index, manager, history, bounds>>

-----------------------------------------------------------------------------
(* A new manager with an empty index; _load_existing_plans *)

Listed == {p \in Plans : stored[p] # None}

StartLoading ==
    /\ mode' = "loading" /\ unread' = Listed
    /\ index' = {} /\ broken' = {}
    /\ UNCHANGED <<stored, made>>

NewManager ==
    /\ managers < MaxManagers
    /\ managers' = managers + 1
    /\ \A t \in Threads : pc[t] = "idle"
    /\ StartLoading
    /\ UNCHANGED <<known, attempts, stretches, credited, locals, records, faults, restarts>>

\* A new process on the old bucket: a put or delete under way may be half done.
Restart ==
    /\ restarts < MaxRestarts
    /\ restarts' = restarts + 1
    /\ known' = {}
    /\ pc' = [t \in Threads |-> "idle"]
    /\ plan' = [t \in Threads |-> None]
    /\ count' = [t \in Threads |-> None]
    /\ todo' = [t \in Threads |-> {}]
    /\ StartLoading
    /\ credited' = {}
    /\ UNCHANGED <<attempts, stretches, records, faults, managers>>

\* A bug: a plan that is found is not indexed.
LoadForgotten ==
    /\ mode = "loading"
    /\ \E p \in unread : Readable(p) /\ HasRoomFor(p) /\ unread' = unread \ {p}
    /\ UNCHANGED <<stored, known, index, locals, mode, history, bounds>>

LoadPlan ==
    /\ mode = "loading"
    /\ \E p \in unread : Readable(p) /\ HasRoomFor(p) /\ index' = index \cup {p} /\ unread' = unread \ {p}
    /\ UNCHANGED <<stored, known, locals, mode, history, bounds>>

LoadMissing ==
    /\ mode = "loading"
    /\ \E p \in unread : ~Readable(p) /\ unread' = unread \ {p}
    /\ UNCHANGED <<stored, known, index, locals, mode, history, bounds>>

\* The constructor raises: the store does, or the index is full.
LoadFails == mode' = "failed" /\ unread' = {} /\ UNCHANGED <<stored, known, index, locals, history>>

LoadRaises ==
    /\ mode = "loading" /\ unread # {}
    /\ Fault
    /\ LoadFails

LoadFull ==
    /\ mode = "loading"
    /\ \E p \in unread : Readable(p) /\ ~HasRoomFor(p)
    /\ LoadFails
    /\ UNCHANGED bounds

Ready ==
    /\ mode = "loading" /\ unread = {}
    /\ mode' = "ready"
    /\ UNCHANGED <<stored, known, index, locals, unread, history, bounds>>

-----------------------------------------------------------------------------
Call(t) ==
    \/ \E p \in Plans : BeginPut(t, p) \/ BeginRecord(t, p) \/ BeginDelete(t, p)
    \/ BeginSearch(t)

Change(t) ==
    \/ Put(t) \/ PutRaises(t) \/ Index(t) \/ IndexRaises(t)
    \/ Read(t) \/ ReadNothing(t) \/ ReadRaises(t) \/ Unindex(t) \/ RemoveRaises(t) \/ Rewrite(t) \/ RewriteRaises(t)
    \/ CheckExists(t) \/ DropMissing(t) \/ Drop(t) \/ Erase(t) \/ EraseRaises(t)

Search(t) == SearchLoads(t) \/ SearchMisses(t) \/ Discard(t) \/ DiscardRaises(t) \/ SearchRaises(t) \/ EndSearch(t)

Load == LoadPlan \/ LoadMissing \/ LoadRaises \/ LoadFull \/ Ready

Next ==
    \/ \E t \in Threads : Call(t) \/ Change(t) \/ Search(t)
    \/ \E p \in Plans : StoreDelete(p)
    \/ NewManager \/ Restart \/ Load

Spec == Init /\ [][Next]_vars

-----------------------------------------------------------------------------
(* Properties. *)

\* Between the calls on it a plan is in the index exactly if it can be read from the store, unless
\* a call on it raised, a delete overlapped a put or a result, or it was deleted behind the
\* manager's back: results recorded at a time, deletes at a time, searches that clean the index
\* up and the load of a new manager neither lose a plan nor leave a dead one.
IndexMatchesStore ==
    mode = "ready" => \A p \in Plans \ broken : Free(p) => (p \in index <=> Readable(p))

\* The entry of a plan counts no result twice, and at least one for each stretch of overlapping
\* calls on the plan in which record_plan_result returned true: a result is lost only to one
\* recorded at the same time, through all exceptions, deletes, searches and restarts.
OnlyOverlapLosesResults ==
    \A p \in Plans : stored[p] # None => stored[p] \in stretches[p]..attempts[p]
=============================================================================
