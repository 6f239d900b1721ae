------------------------------ MODULE BloomSet ------------------------------
(***************************************************************************)
(* What MetadataStore promises about on_object_added and might_exist: a    *)
(* set of ids that only grows.  Adding an id makes it a member and may     *)
(* make members of others; a query answers, at its return, whether the id  *)
(* is a member.                                                            *)
(***************************************************************************)
CONSTANTS Threads, Keys

VARIABLES
    members,    \* the ids the filter cannot deny
    call,       \* the call each thread is in
    answer      \* the answer to its last query

vars == <<members, call, answer>>

Calls  == [op : {"add", "query"}, key : Keys]
NoCall == [op |-> "none"]

Init ==
    /\ members = {}
    /\ call = [t \in Threads |-> NoCall]
    /\ answer = [t \in Threads |-> "none"]

Grow == members \subseteq members' /\ members' \subseteq Keys

Begin(t) ==
    /\ call[t] = NoCall
    /\ \E c \in Calls : call' = [call EXCEPT ![t] = c]
    /\ answer' = [answer EXCEPT ![t] = "none"]
    /\ UNCHANGED members

\* An add in progress may complete any ids on its way.
Add(t) ==
    /\ call[t] # NoCall
    /\ call[t].op = "add"
    /\ Grow
    /\ UNCHANGED <<call, answer>>

EndAdd(t) ==
    /\ call[t] # NoCall
    /\ call[t].op = "add"
    /\ Grow
    /\ call[t].key \in members'
    /\ call' = [call EXCEPT ![t] = NoCall]
    /\ UNCHANGED answer

EndQuery(t) ==
    /\ call[t] # NoCall
    /\ call[t].op = "query"
    /\ answer' = [answer EXCEPT ![t] = IF call[t].key \in members THEN "yes" ELSE "no"]
    /\ call' = [call EXCEPT ![t] = NoCall]
    /\ UNCHANGED members

Next == \E t \in Threads : Begin(t) \/ Add(t) \/ EndAdd(t) \/ EndQuery(t)

Spec == Init /\ [][Next]_vars
=============================================================================
