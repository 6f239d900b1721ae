---------------------------- MODULE PrefetchBatch ----------------------------
(***************************************************************************)
(* PrefetchBatch from the client to the store and back: L3Client           *)
(* (api/grpc_client.py), the handler (api/grpc_server.py), prefetch_batch  *)
(* (core/object_store.py).  A call loads its decisions one by one, a step  *)
(* each, while other calls write and delete the objects.  As AtomicStore   *)
(* promises for ids that are put once, a load, a write and a delete take   *)
(* effect in one step.  An object is a pair <<type, id>>: each type has    *)
(* keys of its own, so one id may name objects of several types.  The      *)
(* empty id, which is skipped, behaves as an id of no object.              *)
(***************************************************************************)
EXTENDS Naturals, Sequences

CONSTANTS
    Calls,          \* each is made once
    Ids,
    Types,          \* prefetch types callers write, known to the store or not
    Requests,       \* the lists of decisions they send
    Objects,        \* what others write and delete
    None,
    MaxWrites,      \* bound: writes and deletes by others
    MaxFaults       \* bound: loads the backend refuses

Decisions == [id : Ids, type : Types]

\* What _prefetch_one has a branch for, and _prefetch_object_response.
Loadable  == {"kv_cache", "rag", "semantic", "tool_artifact", "plan_cache"}
Encodable == {"kv_cache", "rag", "semantic"}

ASSUME BatchAssumption ==
    /\ Requests \subseteq Seq(Decisions)
    /\ Objects \subseteq Loadable \X Ids
    /\ None \notin Types \cup Loadable
    /\ MaxWrites \in Nat /\ MaxFaults \in Nat

VARIABLES
    kept,       \* the objects in the store
    at,         \* where each call is
    asked,      \* its decisions
    next,       \* the decision it loads next
    found,      \* results: the type of the object loaded under each id
    during,     \* history: objects that were in the store at some moment of the call
    throughout, \*   and those that were there at every moment
    refused,    \*   whether the backend refused a load of the call
    writes, faults

history == <<during, throughout, refused>>
vars == <<kept, at, asked, next, found, history, writes, faults>>

TypeOK ==
    /\ kept \in SUBSET Objects
    /\ at \in [Calls -> {"idle", "loading", "answered", "failed"}]
    /\ asked \in [Calls -> Seq(Decisions)]
    /\ next \in [Calls -> Nat \ {0}]
    /\ \A c \in Calls : next[c] <= Len(asked[c]) + 1 /\ (at[c] = "idle" => next[c] = 1)
    /\ found \in [Calls -> [Ids -> Loadable \cup {None}]]
    /\ during \in [Calls -> SUBSET Objects]
    /\ throughout \in [Calls -> SUBSET Objects]
    /\ refused \in [Calls -> BOOLEAN]
    /\ writes \in 0..MaxWrites /\ faults \in 0..MaxFaults

Init ==
    /\ kept \in SUBSET Objects
    /\ at = [c \in Calls |-> "idle"]
    /\ asked = [c \in Calls |-> <<>>]
    /\ next = [c \in Calls |-> 1]
    /\ found = [c \in Calls |-> [i \in Ids |-> None]]
    /\ during = [c \in Calls |-> {}]
    /\ throughout = [c \in Calls |-> {}]
    /\ refused = [c \in Calls |-> FALSE]
    /\ writes = 0 /\ faults = 0

-----------------------------------------------------------------------------
(* Other calls on the objects *)

Write(o) ==
    /\ o \notin kept /\ writes < MaxWrites
    /\ kept' = kept \cup {o}
    /\ during' = [c \in Calls |-> IF at[c] = "loading" THEN during[c] \cup {o} ELSE during[c]]
    /\ writes' = writes + 1
    /\ UNCHANGED <<at, asked, next, found, throughout, refused, faults>>

Erase(o) ==
    /\ o \in kept /\ writes < MaxWrites
    /\ kept' = kept \ {o}
    /\ throughout' = [c \in Calls |-> IF at[c] = "loading" THEN throughout[c] \ {o} ELSE throughout[c]]
    /\ writes' = writes + 1
    /\ UNCHANGED <<at, asked, next, found, during, refused, faults>>

-----------------------------------------------------------------------------
(* The call *)

Ask(c, r) ==
    /\ at[c] = "idle"
    /\ at' = [at EXCEPT ![c] = "loading"]
    /\ asked' = [asked EXCEPT ![c] = r]
    /\ during' = [during EXCEPT ![c] = kept]
    /\ throughout' = [throughout EXCEPT ![c] = kept]
    /\ UNCHANGED <<kept, next, found, refused, writes, faults>>

Loading(c) == at[c] = "loading" /\ next[c] <= Len(asked[c])

Current(c) == asked[c][next[c]]

\* Ids of earlier decisions.
Seen(c) == {asked[c][j].id : j \in 1..(next[c] - 1)}

\* Bugs: break in place of continue on an id seen before, and a loop that does not go on.
SkipAll(c) ==
    /\ Loading(c) /\ Current(c).id \in Seen(c)
    /\ next' = [next EXCEPT ![c] = Len(asked[c]) + 1]
    /\ UNCHANGED <<kept, at, asked, found, history, writes, faults>>

SkipInPlace(c) ==
    /\ Loading(c) /\ Current(c).id \in Seen(c)
    /\ UNCHANGED vars

Skip(c) ==
    /\ Loading(c) /\ Current(c).id \in Seen(c)
    /\ next' = [next EXCEPT ![c] = @ + 1]
    /\ UNCHANGED <<kept, at, asked, found, history, writes, faults>>

\* A bug: the type is taken from the decision, the object from whichever type has one.
LoadedOfAnyType(d) == IF \E o \in kept : o[2] = d.id THEN d.type ELSE None

\* _prefetch_one: the object of that id in the keys of that type.
Loaded(d) == IF <<d.type, d.id>> \in kept THEN d.type ELSE None

Load(c) ==
    /\ Loading(c) /\ Current(c).id \notin Seen(c)
    /\ found' = [found EXCEPT ![c][Current(c).id] = Loaded(Current(c))]
    /\ next' = [next EXCEPT ![c] = @ + 1]
    /\ UNCHANGED <<kept, at, asked, history, writes, faults>>

\* The backend raises, and with it the whole call; an unknown type sends no request.
LoadRaises(c) ==
    /\ Loading(c) /\ Current(c).id \notin Seen(c)
    /\ Current(c).type \in Loadable /\ faults < MaxFaults
    /\ at' = [at EXCEPT ![c] = "failed"]
    /\ refused' = [refused EXCEPT ![c] = TRUE]
    /\ faults' = faults + 1
    /\ UNCHANGED <<kept, asked, next, found, during, throughout, writes>>

\* The handler goes through the decisions again, with the one result of each id.
Answered(c) == {d \in Decisions : \E j \in DOMAIN asked[c] : d = asked[c][j] /\ found[c][d.id] # None}

\* A bug: a handler that insists on a message for every object.
MisreadUnencodable(c) == {d \in Answered(c) : d.type \notin Encodable \/ d.type # found[c][d.id]}

\* Taking the result of another type apart raises.
Misread(c) == {d \in Answered(c) : d.type \in Encodable /\ d.type # found[c][d.id]}

\* What reaches the client: objects of the other types have no message.
Received(c) == {d \in Answered(c) : d.type \in Encodable /\ d.type = found[c][d.id]}

Reply(c) ==
    /\ at[c] = "loading" /\ next[c] > Len(asked[c])
    /\ at' = [at EXCEPT ![c] = IF Misread(c) = {} THEN "answered" ELSE "failed"]
    /\ UNCHANGED <<kept, asked, next, found, history, writes, faults>>

-----------------------------------------------------------------------------

Step(c) == Skip(c) \/ Load(c) \/ LoadRaises(c) \/ Reply(c)

Next ==
    \/ \E o \in Objects : Write(o) \/ Erase(o)
    \/ \E c \in Calls : (\E r \in Requests : Ask(c, r)) \/ Step(c)

\* A handler waits for no other: it has no lock, and the pool schedules its thread.
Fairness == \A c \in Calls : WF_vars(Step(c))

Spec == Init /\ [][Next]_vars /\ Fairness

\* What a batch brings is what was asked for and in the store, under that id and with that
\* type, at some moment of the call (object_store.py, prefetch_batch).
AnswersAreHonest ==
    \A c \in Calls : at[c] = "answered" =>
        \A d \in Received(c) : <<d.type, d.id>> \in during[c]

\* A batch that succeeds leaves out no object that was there all the time, unless an earlier
\* decision named its id with another type or the protocol has no message for its type.
AnswersAreComplete ==
    \A c \in Calls : at[c] = "answered" =>
        \A j \in DOMAIN asked[c] :
            LET d == asked[c][j] IN
            \/ d \in Received(c)
            \/ d.type \notin Encodable
            \/ <<d.type, d.id>> \notin throughout[c]
            \/ \E k \in 1..(j - 1) : asked[c][k].id = d.id /\ asked[c][k].type # d.type

\* However the store changes during a batch, it brings only, and all, of what was asked for and
\* there (object_store.py, prefetch_batch).
AnswersAreRight == AnswersAreHonest /\ AnswersAreComplete

\* Speculative decisions are safe to pass, with one exception: only a request that names one id
\* with two types, of which it finds one, fails although the backend refuses nothing.
OnlyMixedRequestsFail ==
    \A c \in Calls : at[c] = "failed" =>
        \/ refused[c]
        \/ \E j, k \in DOMAIN asked[c] :
              LET d == asked[c][j]
                  e == asked[c][k] IN
              d.id = e.id /\ d.type # e.type /\ <<d.type, d.id>> \in during[c]

\* Every batch comes to an end.
BatchesEnd == \A c \in Calls : at[c] = "loading" ~> at[c] # "loading"
=============================================================================
