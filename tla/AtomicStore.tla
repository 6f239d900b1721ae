---------------------------- MODULE AtomicStore ----------------------------
(***************************************************************************)
(* What the object store promises its callers: a map from ids to versions  *)
(* that changes only on behalf of calls in progress.  A get answers with   *)
(* something the object was at some instant of the call (which is all that *)
(* linearizability asks of a read).  A put or a delete that no other       *)
(* writing call overlapped has taken effect when it returns normally.  A   *)
(* put that raised may have taken effect, or may do so later.              *)
(***************************************************************************)
CONSTANTS Threads, Ids, Versions, NoVersion

VARIABLES
    store,      \* the version each id has
    call,       \* the call each thread is in
    reply,      \* the answer to its last call
    seen,       \* the versions the object it is reading has had during the call
    clean,      \* the writing calls no other writing call on the id overlaps
    doubt       \* the puts that raised

vars == <<store, call, reply, seen, clean, doubt>>

Stored == Versions \cup {NoVersion}
NoCall == [op |-> "none", id |-> NoVersion, ver |-> NoVersion]
Calls  == [op : {"get", "delete"}, id : Ids, ver : {NoVersion}]
            \cup [op : {"put"}, id : Ids, ver : Versions]

Writing(c) == c.op \in {"put", "delete"}
Rivals(t, c) == {u \in Threads \ {t} : Writing(call[u]) /\ call[u].id = c.id}

Init ==
    /\ store = [i \in Ids |-> NoVersion]
    /\ call = [t \in Threads |-> NoCall]
    /\ reply = [t \in Threads |-> "none"]
    /\ seen = [t \in Threads |-> {}]
    /\ clean = {}
    /\ doubt = {}

\* A version comes from a put in progress or from one that raised; it goes
\* away on behalf of a writing call in progress.
Justified(i, v) ==
    \/ v = store[i]
    \/ v \in Versions /\ \/ <<i, v>> \in doubt
                         \/ \E t \in Threads : call[t] = [op |-> "put", id |-> i, ver |-> v]
    \/ v = NoVersion /\ \E t \in Threads : Writing(call[t]) /\ call[t].id = i

Change == \A i \in Ids : Justified(i, store'[i])

Watch == seen' = [t \in Threads |->
            IF call'[t].op # "get" THEN {}
            ELSE IF call[t].op = "get" THEN seen[t] \cup {store'[call[t].id]}
            ELSE {store'[call'[t].id]}]

Begin(t, c) ==
    /\ call[t] = NoCall
    /\ call' = [call EXCEPT ![t] = c]
    /\ reply' = [reply EXCEPT ![t] = "none"]
    /\ clean' = IF ~Writing(c) THEN clean
                ELSE IF Rivals(t, c) = {} THEN clean \cup {t}
                ELSE clean \ Rivals(t, c)
    /\ UNCHANGED <<store, doubt>>
    /\ Watch

End(t, answer) ==
    /\ call[t] # NoCall
    /\ call' = [call EXCEPT ![t] = NoCall]
    /\ reply' = [reply EXCEPT ![t] = answer]
    /\ clean' = clean \ {t}
    /\ Change
    /\ Watch

EndGet(t) ==
    /\ call[t].op = "get"
    /\ \E answer \in seen[t] \cup {"raised"} : End(t, answer)
    /\ UNCHANGED <<store, doubt>>

EndPut(t) ==
    /\ call[t].op = "put"
    /\ \/ /\ End(t, "put")
          /\ t \in clean => store'[call[t].id] = call[t].ver
          /\ UNCHANGED doubt
       \/ /\ End(t, "raised")
          /\ doubt' = doubt \cup {<<call[t].id, call[t].ver>>}

EndDelete(t) ==
    /\ call[t].op = "delete"
    /\ \/ End(t, "deleted") /\ (t \in clean => store'[call[t].id] = NoVersion)
       \/ End(t, "not_deleted")
       \/ End(t, "raised")
    /\ UNCHANGED doubt

Effect ==
    /\ Change
    /\ Watch
    /\ UNCHANGED <<call, reply, clean, doubt>>

Next ==
    \/ Effect
    \/ \E t \in Threads :
          \/ \E c \in Calls : Begin(t, c)
          \/ EndGet(t) \/ EndPut(t) \/ EndDelete(t)

Spec == Init /\ [][Next]_vars
=============================================================================
