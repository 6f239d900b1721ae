--------------------------- MODULE PlanCacheProofs ---------------------------
(***************************************************************************)
(* Proofs about the agent runtime of MCPlanCache: the index of the plan    *)
(* cache follows the store and loses results only to those recorded at the *)
(* same time; the retention policy forgets no block and predicts what was  *)
(* observed; and each part runs in the runtime as if it were alone.        *)
(***************************************************************************)
EXTENDS MCPlanCache, FiniteSetTheorems, TLAPS

-----------------------------------------------------------------------------
(* The inductive invariant.                                                 *)

\* Every call is on a plan, and only a result that is being recorded has read a count; a manager
\* that is not ready has no call.
Calling ==
    \A t \in Threads :
        /\ pc[t] \in Changing \cup {"discard"} <=> plan[t] # None
        /\ pc[t] \notin {"unindex", "rewrite", "index"} => count[t] = None
        /\ pc[t] \in {"unindex", "rewrite"} => count[t] \in Nat
        /\ mode # "ready" => pc[t] = "idle"

\* An id that was not given out is nowhere; a call on it can only find that out.
Unmade ==
    \A p \in Plans \ made :
        /\ stored[p] = None /\ p \notin known \cup index /\ stretches[p] = 0
        /\ \A t \in Threads : p \notin todo[t] /\ (plan[t] = p => pc[t] = "read")

\* What is being put is not there yet: others can only have found that out.
Putting ==
    \A t \in Threads : pc[t] = "put" =>
        /\ stored[plan[t]] = None /\ plan[t] \notin index /\ stretches[plan[t]] = 0
        /\ \A u \in Threads : /\ plan[t] \notin todo[u]
                              /\ plan[u] = plan[t] /\ u # t => pc[u] \in {"read", "exists", "drop_missing"}

\* A count that was read is as high as that of the entry must be, but for the present stretch of
\* calls, and the result of a call that has saved it is there unless the stretch has its own.
CountAt(t, p) ==
    /\ count[t] <= attempts[p]
    /\ stretches[p] <= count[t] + (IF p \in credited THEN 1 ELSE 0)
    /\ pc[t] = "index" /\ p \notin credited /\ stored[p] # None => stretches[p] < stored[p]

Counted == \A t \in Threads : count[t] # None => CountAt(t, plan[t])

\* What the calls on a plan and its entries know of each other while no call was cut short.
Kept(p) ==
    /\ \A t, u \in Threads : On(t, p) /\ On(u, p) => (pc[t] \in Deleting <=> pc[u] \in Deleting)
    /\ p \in index => Readable(p)
    /\ Readable(p) => \/ p \in index
                      \/ \E t \in Threads : plan[t] = p /\ pc[t] \in {"rewrite", "index", "erase"}
    /\ \A t \in Threads : plan[t] = p =>
          /\ pc[t] \in {"unindex", "rewrite", "index"} => Readable(p)
          /\ pc[t] \in {"drop_missing", "discard"} => ~Readable(p)
          /\ pc[t] = "erase" => p \notin index

Tracking == mode = "ready" => \A p \in Plans \ broken : Kept(p)

\* A manager that is loading has indexed what it found and will find the rest.
Loading == mode = "loading" => \A p \in Plans \ broken : /\ p \in index => Readable(p)
                                                         /\ Readable(p) => p \in index \cup unread

TInv == TypeOK /\ Calling
CInv == TInv /\ Unmade /\ Putting /\ Counted /\ OnlyOverlapLosesResults
PInv == CInv /\ Tracking /\ Loading

-----------------------------------------------------------------------------
\* The index stays within its limit when a plan is taken out, or put in where there is room.
LEMMA Room ==
    ASSUME index \in SUBSET Plans, Cardinality(index) <= IndexLimit, NEW p \in Plans
    PROVE  /\ Cardinality(index \ {p}) <= IndexLimit
           /\ HasRoomFor(p) => Cardinality(index \cup {p}) <= IndexLimit
<1>1. IsFiniteSet(index) /\ Cardinality(index) \in Nat /\ IndexLimit \in Nat
  BY CacheAssumption, FS_Subset, FS_CardinalityType
<1>2. Cardinality(index \cup {p}) = IF p \in index THEN Cardinality(index) ELSE Cardinality(index) + 1
  BY <1>1, FS_AddElement
<1>3. Cardinality(index \ {p}) = IF p \in index THEN Cardinality(index) - 1 ELSE Cardinality(index)
  BY <1>1, FS_RemoveElement
<1>4. QED
  BY <1>1, <1>2, <1>3 DEF HasRoomFor

\* So does the index of a new manager.
LEMMA RoomInEmpty == Cardinality({}) <= IndexLimit
BY CacheAssumption, FS_EmptySet

\* Every variable keeps its type, and the index its limit.
LEMMA TypeStep == TInv /\ [Next]_vars => TypeOK'
<1> SUFFICES ASSUME TInv, [Next]_vars PROVE TypeOK'
  OBVIOUS
<1> USE CacheAssumption, Room, RoomInEmpty DEF TInv, TypeOK, Calling, Writing, Deleting, Changing,
         locals, history, manager, bounds, Closed
<1>1. ASSUME NEW t \in Threads, NEW p \in Plans, BeginPut(t, p) PROVE TypeOK'
  BY <1>1 DEF BeginPut, Begin, Clash
<1>2. ASSUME NEW t \in Threads, NEW p \in Plans, BeginRecord(t, p) PROVE TypeOK'
  BY <1>2 DEF BeginRecord, Begin, Clash
<1>3. ASSUME NEW t \in Threads, NEW p \in Plans, BeginDelete(t, p) PROVE TypeOK'
  BY <1>3 DEF BeginDelete, Begin, Clash
<1>4. ASSUME NEW t \in Threads, BeginSearch(t) PROVE TypeOK'
  BY <1>4 DEF BeginSearch
<1>5. ASSUME NEW t \in Threads, Put(t) PROVE TypeOK'
  BY <1>5 DEF Put, Goto
<1>6. ASSUME NEW t \in Threads, PutRaises(t) PROVE TypeOK'
  BY <1>6 DEF PutRaises, Raise, Leave, Return, Fault
<1>7. ASSUME NEW t \in Threads, Index(t) PROVE TypeOK'
  <2> DEFINE p == plan[t]
  <2>1. p \in Plans /\ HasRoomFor(p) /\ index' = index \cup {p}
    BY <1>7 DEF Index
  <2>2. index' \in SUBSET Plans /\ Cardinality(index') <= IndexLimit
    <3> HIDE DEF p
    <3> QED  BY <2>1
  <2>3. stretches' \in [Plans -> Nat] /\ credited' \in SUBSET Plans
    BY <1>7 DEF Index, Closed
  <2>4. QED
    BY <2>2, <2>3, <1>7 DEF Index, Return
<1>8. ASSUME NEW t \in Threads, IndexRaises(t) PROVE TypeOK'
  BY <1>8 DEF IndexRaises, Raise, Leave, Return
<1>9. ASSUME NEW t \in Threads, Read(t) PROVE TypeOK'
  BY <1>9 DEF Read, Readable
<1>10. ASSUME NEW t \in Threads, ReadNothing(t) PROVE TypeOK'
  BY <1>10 DEF ReadNothing, Leave, Return, Readable
<1>11. ASSUME NEW t \in Threads, ReadRaises(t) PROVE TypeOK'
  BY <1>11 DEF ReadRaises, Raise, Leave, Return, Fault
<1>12. ASSUME NEW t \in Threads, Unindex(t) PROVE TypeOK'
  BY <1>12 DEF Unindex, Goto
<1>13. ASSUME NEW t \in Threads, RemoveRaises(t) PROVE TypeOK'
  <2>1. plan[t] \in Plans /\ index' = index \ {plan[t]}
    BY <1>13 DEF RemoveRaises
  <2>2. Cardinality(index') <= IndexLimit
    BY <2>1, Room
  <2>3. QED
    BY <2>1, <2>2, <1>13 DEF RemoveRaises, Raise, Leave, Return, Fault
<1>14. ASSUME NEW t \in Threads, Rewrite(t) PROVE TypeOK'
  BY <1>14 DEF Rewrite, Goto
<1>15. ASSUME NEW t \in Threads, RewriteRaises(t) PROVE TypeOK'
  BY <1>15 DEF RewriteRaises, Raise, Leave, Return, Fault
<1>16. ASSUME NEW t \in Threads, CheckExists(t) PROVE TypeOK'
  BY <1>16 DEF CheckExists, Goto, Readable
<1>17. ASSUME NEW t \in Threads, DropMissing(t) PROVE TypeOK'
  BY <1>17 DEF DropMissing, Leave, Return
<1>18. ASSUME NEW t \in Threads, Drop(t) PROVE TypeOK'
  BY <1>18 DEF Drop, Goto
<1>19. ASSUME NEW t \in Threads, Erase(t) PROVE TypeOK'
  BY <1>19 DEF Erase, Leave, Return
<1>20. ASSUME NEW t \in Threads, EraseRaises(t) PROVE TypeOK'
  BY <1>20 DEF EraseRaises, Raise, Leave, Return, Fault
<1>21. ASSUME NEW t \in Threads, SearchLoads(t) PROVE TypeOK'
  BY <1>21 DEF SearchLoads, Visit
<1>22. ASSUME NEW t \in Threads, SearchMisses(t) PROVE TypeOK'
  BY <1>22 DEF SearchMisses, Readable
<1>23. ASSUME NEW t \in Threads, Discard(t) PROVE TypeOK'
  BY <1>23 DEF Discard
<1>24. ASSUME NEW t \in Threads, DiscardRaises(t) PROVE TypeOK'
  <2>1. plan[t] \in Plans /\ index' = index \ {plan[t]}
    BY <1>24 DEF DiscardRaises
  <2>2. Cardinality(index') <= IndexLimit
    BY <2>1, Room
  <2>3. QED
    BY <2>1, <2>2, <1>24 DEF DiscardRaises, Return, Fault
<1>25. ASSUME NEW t \in Threads, SearchRaises(t) PROVE TypeOK'
  BY <1>25 DEF SearchRaises, Return, Fault
<1>26. ASSUME NEW t \in Threads, EndSearch(t) PROVE TypeOK'
  BY <1>26 DEF EndSearch, Return
<1>27. ASSUME NEW p \in Plans, StoreDelete(p) PROVE TypeOK'
  BY <1>27 DEF StoreDelete
<1>28. CASE NewManager
  BY <1>28 DEF NewManager, StartLoading, Listed
<1>29. CASE Restart
  BY <1>29 DEF Restart, StartLoading, Listed
<1>30. CASE LoadPlan
  BY <1>30 DEF LoadPlan, HasRoomFor, Readable
<1>31. CASE LoadMissing
  BY <1>31 DEF LoadMissing, Readable
<1>32. CASE LoadRaises
  BY <1>32 DEF LoadRaises, LoadFails, Fault
<1>33. CASE LoadFull
  BY <1>33 DEF LoadFull, LoadFails
<1>34. CASE Ready
  BY <1>34 DEF Ready
<1>35. CASE UNCHANGED vars
  BY <1>35 DEF vars
<1>36. QED
  BY <1>1, <1>2, <1>3, <1>4, <1>5, <1>6, <1>7, <1>8, <1>9, <1>10, <1>11, <1>12, <1>13, <1>14,
     <1>15, <1>16, <1>17, <1>18, <1>19, <1>20, <1>21, <1>22, <1>23, <1>24, <1>25, <1>26, <1>27, <1>28,
     <1>29, <1>30, <1>31, <1>32, <1>33, <1>34, <1>35 DEF Next, Call, Change, Search, Load

\* A call has a plan until it ends; a new manager starts without calls.
LEMMA CallingStep == TInv /\ [Next]_vars => Calling'
<1> SUFFICES ASSUME TInv, [Next]_vars PROVE Calling'
  OBVIOUS
<1> USE CacheAssumption DEF TInv, TypeOK, Calling, Writing, Deleting, Changing, locals, history, manager, bounds
<1>1. ASSUME NEW t \in Threads, NEW p \in Plans, BeginPut(t, p) PROVE Calling'
  BY <1>1 DEF BeginPut, Begin, Clash
<1>2. ASSUME NEW t \in Threads, NEW p \in Plans, BeginRecord(t, p) PROVE Calling'
  BY <1>2 DEF BeginRecord, Begin, Clash
<1>3. ASSUME NEW t \in Threads, NEW p \in Plans, BeginDelete(t, p) PROVE Calling'
  BY <1>3 DEF BeginDelete, Begin, Clash
<1>4. ASSUME NEW t \in Threads, BeginSearch(t) PROVE Calling'
  BY <1>4 DEF BeginSearch
<1>5. ASSUME NEW t \in Threads, Put(t) PROVE Calling'
  BY <1>5 DEF Put, Goto
<1>6. ASSUME NEW t \in Threads, PutRaises(t) PROVE Calling'
  BY <1>6 DEF PutRaises, Raise, Leave, Return, Fault
<1>7. ASSUME NEW t \in Threads, Index(t) PROVE Calling'
  BY <1>7 DEF Index, Return, HasRoomFor
<1>8. ASSUME NEW t \in Threads, IndexRaises(t) PROVE Calling'
  BY <1>8 DEF IndexRaises, Raise, Leave, Return
<1>9. ASSUME NEW t \in Threads, Read(t) PROVE Calling'
  BY <1>9 DEF Read, Readable
<1>10. ASSUME NEW t \in Threads, ReadNothing(t) PROVE Calling'
  BY <1>10 DEF ReadNothing, Leave, Return, Readable
<1>11. ASSUME NEW t \in Threads, ReadRaises(t) PROVE Calling'
  BY <1>11 DEF ReadRaises, Raise, Leave, Return, Fault
<1>12. ASSUME NEW t \in Threads, Unindex(t) PROVE Calling'
  BY <1>12 DEF Unindex, Goto
<1>13. ASSUME NEW t \in Threads, RemoveRaises(t) PROVE Calling'
  BY <1>13 DEF RemoveRaises, Raise, Leave, Return, Fault
<1>14. ASSUME NEW t \in Threads, Rewrite(t) PROVE Calling'
  BY <1>14 DEF Rewrite, Goto
<1>15. ASSUME NEW t \in Threads, RewriteRaises(t) PROVE Calling'
  BY <1>15 DEF RewriteRaises, Raise, Leave, Return, Fault
<1>16. ASSUME NEW t \in Threads, CheckExists(t) PROVE Calling'
  BY <1>16 DEF CheckExists, Goto, Readable
<1>17. ASSUME NEW t \in Threads, DropMissing(t) PROVE Calling'
  BY <1>17 DEF DropMissing, Leave, Return
<1>18. ASSUME NEW t \in Threads, Drop(t) PROVE Calling'
  BY <1>18 DEF Drop, Goto
<1>19. ASSUME NEW t \in Threads, Erase(t) PROVE Calling'
  BY <1>19 DEF Erase, Leave, Return
<1>20. ASSUME NEW t \in Threads, EraseRaises(t) PROVE Calling'
  BY <1>20 DEF EraseRaises, Raise, Leave, Return, Fault
<1>21. ASSUME NEW t \in Threads, SearchLoads(t) PROVE Calling'
  BY <1>21 DEF SearchLoads, Visit
<1>22. ASSUME NEW t \in Threads, SearchMisses(t) PROVE Calling'
  BY <1>22 DEF SearchMisses, Readable
<1>23. ASSUME NEW t \in Threads, Discard(t) PROVE Calling'
  BY <1>23 DEF Discard
<1>24. ASSUME NEW t \in Threads, DiscardRaises(t) PROVE Calling'
  BY <1>24 DEF DiscardRaises, Return, Fault
<1>25. ASSUME NEW t \in Threads, SearchRaises(t) PROVE Calling'
  BY <1>25 DEF SearchRaises, Return, Fault
<1>26. ASSUME NEW t \in Threads, EndSearch(t) PROVE Calling'
  BY <1>26 DEF EndSearch, Return
<1>27. ASSUME NEW p \in Plans, StoreDelete(p) PROVE Calling'
  BY <1>27 DEF StoreDelete
<1>28. CASE NewManager
  BY <1>28 DEF NewManager, StartLoading, Listed
<1>29. CASE Restart
  BY <1>29 DEF Restart, StartLoading, Listed
<1>30. CASE LoadPlan
  BY <1>30 DEF LoadPlan, HasRoomFor, Readable
<1>31. CASE LoadMissing
  BY <1>31 DEF LoadMissing, Readable
<1>32. CASE LoadRaises
  BY <1>32 DEF LoadRaises, LoadFails, Fault
<1>33. CASE LoadFull
  BY <1>33 DEF LoadFull, LoadFails
<1>34. CASE Ready
  BY <1>34 DEF Ready
<1>35. CASE UNCHANGED vars
  BY <1>35 DEF vars
<1>36. QED
  BY <1>1, <1>2, <1>3, <1>4, <1>5, <1>6, <1>7, <1>8, <1>9, <1>10, <1>11, <1>12, <1>13, <1>14,
     <1>15, <1>16, <1>17, <1>18, <1>19, <1>20, <1>21, <1>22, <1>23, <1>24, <1>25, <1>26, <1>27, <1>28,
     <1>29, <1>30, <1>31, <1>32, <1>33, <1>34, <1>35 DEF Next, Call, Change, Search, Load

\* Only put_plan makes an id known, and it has given the id out before.
LEMMA UnmadeStep == TInv /\ Unmade /\ [Next]_vars => Unmade'
<1> SUFFICES ASSUME TInv, Unmade, [Next]_vars PROVE Unmade'
  OBVIOUS
<1> USE CacheAssumption DEF TInv, TypeOK, Calling, Unmade, Writing, Deleting, Changing, locals,
         history, manager, bounds
<1>1. ASSUME NEW t \in Threads, NEW p \in Plans, BeginPut(t, p) PROVE Unmade'
  BY <1>1 DEF BeginPut, Begin, Clash
<1>2. ASSUME NEW t \in Threads, NEW p \in Plans, BeginRecord(t, p) PROVE Unmade'
  BY <1>2 DEF BeginRecord, Begin, Clash
<1>3. ASSUME NEW t \in Threads, NEW p \in Plans, BeginDelete(t, p) PROVE Unmade'
  BY <1>3 DEF BeginDelete, Begin, Clash
<1>4. ASSUME NEW t \in Threads, BeginSearch(t) PROVE Unmade'
  BY <1>4 DEF BeginSearch
<1>5. ASSUME NEW t \in Threads, Put(t) PROVE Unmade'
  BY <1>5 DEF Put, Goto
<1>6. ASSUME NEW t \in Threads, PutRaises(t) PROVE Unmade'
  BY <1>6 DEF PutRaises, Raise, Leave, Return, Fault
<1>7. ASSUME NEW t \in Threads, Index(t) PROVE Unmade'
  BY <1>7 DEF Index, Return, HasRoomFor
<1>8. ASSUME NEW t \in Threads, IndexRaises(t) PROVE Unmade'
  BY <1>8 DEF IndexRaises, Raise, Leave, Return
<1>9. ASSUME NEW t \in Threads, Read(t) PROVE Unmade'
  BY <1>9 DEF Read, Readable
<1>10. ASSUME NEW t \in Threads, ReadNothing(t) PROVE Unmade'
  BY <1>10 DEF ReadNothing, Leave, Return, Readable
<1>11. ASSUME NEW t \in Threads, ReadRaises(t) PROVE Unmade'
  BY <1>11 DEF ReadRaises, Raise, Leave, Return, Fault
<1>12. ASSUME NEW t \in Threads, Unindex(t) PROVE Unmade'
  BY <1>12 DEF Unindex, Goto
<1>13. ASSUME NEW t \in Threads, RemoveRaises(t) PROVE Unmade'
  BY <1>13 DEF RemoveRaises, Raise, Leave, Return, Fault
<1>14. ASSUME NEW t \in Threads, Rewrite(t) PROVE Unmade'
  BY <1>14 DEF Rewrite, Goto
<1>15. ASSUME NEW t \in Threads, RewriteRaises(t) PROVE Unmade'
  BY <1>15 DEF RewriteRaises, Raise, Leave, Return, Fault
<1>16. ASSUME NEW t \in Threads, CheckExists(t) PROVE Unmade'
  BY <1>16 DEF CheckExists, Goto, Readable
<1>17. ASSUME NEW t \in Threads, DropMissing(t) PROVE Unmade'
  BY <1>17 DEF DropMissing, Leave, Return
<1>18. ASSUME NEW t \in Threads, Drop(t) PROVE Unmade'
  BY <1>18 DEF Drop, Goto
<1>19. ASSUME NEW t \in Threads, Erase(t) PROVE Unmade'
  BY <1>19 DEF Erase, Leave, Return
<1>20. ASSUME NEW t \in Threads, EraseRaises(t) PROVE Unmade'
  BY <1>20 DEF EraseRaises, Raise, Leave, Return, Fault
<1>21. ASSUME NEW t \in Threads, SearchLoads(t) PROVE Unmade'
  BY <1>21 DEF SearchLoads, Visit
<1>22. ASSUME NEW t \in Threads, SearchMisses(t) PROVE Unmade'
  BY <1>22 DEF SearchMisses, Readable
<1>23. ASSUME NEW t \in Threads, Discard(t) PROVE Unmade'
  BY <1>23 DEF Discard
<1>24. ASSUME NEW t \in Threads, DiscardRaises(t) PROVE Unmade'
  BY <1>24 DEF DiscardRaises, Return, Fault
<1>25. ASSUME NEW t \in Threads, SearchRaises(t) PROVE Unmade'
  BY <1>25 DEF SearchRaises, Return, Fault
<1>26. ASSUME NEW t \in Threads, EndSearch(t) PROVE Unmade'
  BY <1>26 DEF EndSearch, Return
<1>27. ASSUME NEW p \in Plans, StoreDelete(p) PROVE Unmade'
  BY <1>27 DEF StoreDelete
<1>28. CASE NewManager
  BY <1>28 DEF NewManager, StartLoading, Listed
<1>29. CASE Restart
  BY <1>29 DEF Restart, StartLoading, Listed
<1>30. CASE LoadPlan
  BY <1>30 DEF LoadPlan, HasRoomFor, Readable
<1>31. CASE LoadMissing
  BY <1>31 DEF LoadMissing, Readable
<1>32. CASE LoadRaises
  BY <1>32 DEF LoadRaises, LoadFails, Fault
<1>33. CASE LoadFull
  BY <1>33 DEF LoadFull, LoadFails
<1>34. CASE Ready
  BY <1>34 DEF Ready
<1>35. CASE UNCHANGED vars
  BY <1>35 DEF vars
<1>36. QED
  BY <1>1, <1>2, <1>3, <1>4, <1>5, <1>6, <1>7, <1>8, <1>9, <1>10, <1>11, <1>12, <1>13, <1>14,
     <1>15, <1>16, <1>17, <1>18, <1>19, <1>20, <1>21, <1>22, <1>23, <1>24, <1>25, <1>26, <1>27, <1>28,
     <1>29, <1>30, <1>31, <1>32, <1>33, <1>34, <1>35 DEF Next, Call, Change, Search, Load

\* A plan that is being put stays unreadable, so no other call gets further than to find that out.
LEMMA PuttingStep == TInv /\ Unmade /\ Putting /\ [Next]_vars => Putting'
<1> SUFFICES ASSUME TInv, Unmade, Putting, [Next]_vars PROVE Putting'
  OBVIOUS
<1> USE CacheAssumption DEF TInv, TypeOK, Calling, Unmade, Putting, Writing, Deleting, Changing, locals,
         history, manager, bounds, On
<1>1. ASSUME NEW t \in Threads, NEW p \in Plans, BeginPut(t, p) PROVE Putting'
  BY <1>1 DEF BeginPut, Begin, Clash
<1>2. ASSUME NEW t \in Threads, NEW p \in Plans, BeginRecord(t, p) PROVE Putting'
  BY <1>2 DEF BeginRecord, Begin, Clash
<1>3. ASSUME NEW t \in Threads, NEW p \in Plans, BeginDelete(t, p) PROVE Putting'
  BY <1>3 DEF BeginDelete, Begin, Clash
<1>4. ASSUME NEW t \in Threads, BeginSearch(t) PROVE Putting'
  BY <1>4 DEF BeginSearch
<1>5. ASSUME NEW t \in Threads, Put(t) PROVE Putting'
  BY <1>5 DEF Put, Goto
<1>6. ASSUME NEW t \in Threads, PutRaises(t) PROVE Putting'
  BY <1>6 DEF PutRaises, Raise, Leave, Return, Fault
<1>7. ASSUME NEW t \in Threads, Index(t) PROVE Putting'
  BY <1>7 DEF Index, Return, HasRoomFor
<1>8. ASSUME NEW t \in Threads, IndexRaises(t) PROVE Putting'
  BY <1>8 DEF IndexRaises, Raise, Leave, Return
<1>9. ASSUME NEW t \in Threads, Read(t) PROVE Putting'
  BY <1>9 DEF Read, Readable
<1>10. ASSUME NEW t \in Threads, ReadNothing(t) PROVE Putting'
  BY <1>10 DEF ReadNothing, Leave, Return, Readable
<1>11. ASSUME NEW t \in Threads, ReadRaises(t) PROVE Putting'
  BY <1>11 DEF ReadRaises, Raise, Leave, Return, Fault
<1>12. ASSUME NEW t \in Threads, Unindex(t) PROVE Putting'
  BY <1>12 DEF Unindex, Goto
<1>13. ASSUME NEW t \in Threads, RemoveRaises(t) PROVE Putting'
  BY <1>13 DEF RemoveRaises, Raise, Leave, Return, Fault
<1>14. ASSUME NEW t \in Threads, Rewrite(t) PROVE Putting'
  BY <1>14 DEF Rewrite, Goto
<1>15. ASSUME NEW t \in Threads, RewriteRaises(t) PROVE Putting'
  BY <1>15 DEF RewriteRaises, Raise, Leave, Return, Fault
<1>16. ASSUME NEW t \in Threads, CheckExists(t) PROVE Putting'
  BY <1>16 DEF CheckExists, Goto, Readable
<1>17. ASSUME NEW t \in Threads, DropMissing(t) PROVE Putting'
  BY <1>17 DEF DropMissing, Leave, Return
<1>18. ASSUME NEW t \in Threads, Drop(t) PROVE Putting'
  BY <1>18 DEF Drop, Goto
<1>19. ASSUME NEW t \in Threads, Erase(t) PROVE Putting'
  BY <1>19 DEF Erase, Leave, Return
<1>20. ASSUME NEW t \in Threads, EraseRaises(t) PROVE Putting'
  BY <1>20 DEF EraseRaises, Raise, Leave, Return, Fault
<1>21. ASSUME NEW t \in Threads, SearchLoads(t) PROVE Putting'
  BY <1>21 DEF SearchLoads, Visit
<1>22. ASSUME NEW t \in Threads, SearchMisses(t) PROVE Putting'
  BY <1>22 DEF SearchMisses, Readable
<1>23. ASSUME NEW t \in Threads, Discard(t) PROVE Putting'
  BY <1>23 DEF Discard
<1>24. ASSUME NEW t \in Threads, DiscardRaises(t) PROVE Putting'
  BY <1>24 DEF DiscardRaises, Return, Fault
<1>25. ASSUME NEW t \in Threads, SearchRaises(t) PROVE Putting'
  BY <1>25 DEF SearchRaises, Return, Fault
<1>26. ASSUME NEW t \in Threads, EndSearch(t) PROVE Putting'
  BY <1>26 DEF EndSearch, Return
<1>27. ASSUME NEW p \in Plans, StoreDelete(p) PROVE Putting'
  BY <1>27 DEF StoreDelete
<1>28. CASE NewManager
  BY <1>28 DEF NewManager, StartLoading, Listed
<1>29. CASE Restart
  BY <1>29 DEF Restart, StartLoading, Listed
<1>30. CASE LoadPlan
  BY <1>30 DEF LoadPlan, HasRoomFor, Readable
<1>31. CASE LoadMissing
  BY <1>31 DEF LoadMissing, Readable
<1>32. CASE LoadRaises
  BY <1>32 DEF LoadRaises, LoadFails, Fault
<1>33. CASE LoadFull
  BY <1>33 DEF LoadFull, LoadFails
<1>34. CASE Ready
  BY <1>34 DEF Ready
<1>35. CASE UNCHANGED vars
  BY <1>35 DEF vars
<1>36. QED
  BY <1>1, <1>2, <1>3, <1>4, <1>5, <1>6, <1>7, <1>8, <1>9, <1>10, <1>11, <1>12, <1>13, <1>14,
     <1>15, <1>16, <1>17, <1>18, <1>19, <1>20, <1>21, <1>22, <1>23, <1>24, <1>25, <1>26, <1>27, <1>28,
     <1>29, <1>30, <1>31, <1>32, <1>33, <1>34, <1>35 DEF Next, Call, Change, Search, Load

\* What a call knows of the counts of its plan survives the steps of all others.
LEMMA CountedStep == CInv /\ [Next]_vars => Counted'
<1> SUFFICES ASSUME CInv, [Next]_vars PROVE Counted'
  OBVIOUS
<1> USE CacheAssumption DEF CInv, TInv, TypeOK, Calling, Putting, Counted, CountAt,
         OnlyOverlapLosesResults, Writing, Deleting, Changing, locals, history, manager, bounds, On, Closed
<1>1. ASSUME NEW t \in Threads, NEW p \in Plans, BeginPut(t, p) PROVE Counted'
  BY <1>1 DEF BeginPut, Begin, Clash
<1>2. ASSUME NEW t \in Threads, NEW p \in Plans, BeginRecord(t, p) PROVE Counted'
  BY <1>2 DEF BeginRecord, Begin, Clash
<1>3. ASSUME NEW t \in Threads, NEW p \in Plans, BeginDelete(t, p) PROVE Counted'
  BY <1>3 DEF BeginDelete, Begin, Clash
<1>4. ASSUME NEW t \in Threads, BeginSearch(t) PROVE Counted'
  BY <1>4 DEF BeginSearch
<1>5. ASSUME NEW t \in Threads, Put(t) PROVE Counted'
  BY <1>5 DEF Put, Goto
<1>6. ASSUME NEW t \in Threads, PutRaises(t) PROVE Counted'
  BY <1>6 DEF PutRaises, Raise, Leave, Return, Fault
<1>7. ASSUME NEW t \in Threads, Index(t) PROVE Counted'
  BY <1>7 DEF Index, Return, HasRoomFor
<1>8. ASSUME NEW t \in Threads, IndexRaises(t) PROVE Counted'
  BY <1>8 DEF IndexRaises, Raise, Leave, Return
<1>9. ASSUME NEW t \in Threads, Read(t) PROVE Counted'
  BY <1>9 DEF Read, Readable
<1>10. ASSUME NEW t \in Threads, ReadNothing(t) PROVE Counted'
  BY <1>10 DEF ReadNothing, Leave, Return, Readable
<1>11. ASSUME NEW t \in Threads, ReadRaises(t) PROVE Counted'
  BY <1>11 DEF ReadRaises, Raise, Leave, Return, Fault
<1>12. ASSUME NEW t \in Threads, Unindex(t) PROVE Counted'
  BY <1>12 DEF Unindex, Goto
<1>13. ASSUME NEW t \in Threads, RemoveRaises(t) PROVE Counted'
  BY <1>13 DEF RemoveRaises, Raise, Leave, Return, Fault
<1>14. ASSUME NEW t \in Threads, Rewrite(t) PROVE Counted'
  BY <1>14 DEF Rewrite, Goto
<1>15. ASSUME NEW t \in Threads, RewriteRaises(t) PROVE Counted'
  BY <1>15 DEF RewriteRaises, Raise, Leave, Return, Fault
<1>16. ASSUME NEW t \in Threads, CheckExists(t) PROVE Counted'
  BY <1>16 DEF CheckExists, Goto, Readable
<1>17. ASSUME NEW t \in Threads, DropMissing(t) PROVE Counted'
  BY <1>17 DEF DropMissing, Leave, Return
<1>18. ASSUME NEW t \in Threads, Drop(t) PROVE Counted'
  BY <1>18 DEF Drop, Goto
<1>19. ASSUME NEW t \in Threads, Erase(t) PROVE Counted'
  BY <1>19 DEF Erase, Leave, Return
<1>20. ASSUME NEW t \in Threads, EraseRaises(t) PROVE Counted'
  BY <1>20 DEF EraseRaises, Raise, Leave, Return, Fault
<1>21. ASSUME NEW t \in Threads, SearchLoads(t) PROVE Counted'
  BY <1>21 DEF SearchLoads, Visit
<1>22. ASSUME NEW t \in Threads, SearchMisses(t) PROVE Counted'
  BY <1>22 DEF SearchMisses, Readable
<1>23. ASSUME NEW t \in Threads, Discard(t) PROVE Counted'
  BY <1>23 DEF Discard
<1>24. ASSUME NEW t \in Threads, DiscardRaises(t) PROVE Counted'
  BY <1>24 DEF DiscardRaises, Return, Fault
<1>25. ASSUME NEW t \in Threads, SearchRaises(t) PROVE Counted'
  BY <1>25 DEF SearchRaises, Return, Fault
<1>26. ASSUME NEW t \in Threads, EndSearch(t) PROVE Counted'
  BY <1>26 DEF EndSearch, Return
<1>27. ASSUME NEW p \in Plans, StoreDelete(p) PROVE Counted'
  BY <1>27 DEF StoreDelete
<1>28. CASE NewManager
  BY <1>28 DEF NewManager, StartLoading, Listed
<1>29. CASE Restart
  BY <1>29 DEF Restart, StartLoading, Listed
<1>30. CASE LoadPlan
  BY <1>30 DEF LoadPlan, HasRoomFor, Readable
<1>31. CASE LoadMissing
  BY <1>31 DEF LoadMissing, Readable
<1>32. CASE LoadRaises
  BY <1>32 DEF LoadRaises, LoadFails, Fault
<1>33. CASE LoadFull
  BY <1>33 DEF LoadFull, LoadFails
<1>34. CASE Ready
  BY <1>34 DEF Ready
<1>35. CASE UNCHANGED vars
  BY <1>35 DEF vars
<1>36. QED
  BY <1>1, <1>2, <1>3, <1>4, <1>5, <1>6, <1>7, <1>8, <1>9, <1>10, <1>11, <1>12, <1>13, <1>14,
     <1>15, <1>16, <1>17, <1>18, <1>19, <1>20, <1>21, <1>22, <1>23, <1>24, <1>25, <1>26, <1>27, <1>28,
     <1>29, <1>30, <1>31, <1>32, <1>33, <1>34, <1>35 DEF Next, Call, Change, Search, Load

\* No step takes an entry below the stretches of calls that recorded a result.
LEMMA LossStep == CInv /\ [Next]_vars => OnlyOverlapLosesResults'
<1> SUFFICES ASSUME CInv, [Next]_vars PROVE OnlyOverlapLosesResults'
  OBVIOUS
<1> USE CacheAssumption DEF CInv, TInv, TypeOK, Calling, Putting, Counted, CountAt,
         OnlyOverlapLosesResults, Writing, Deleting, Changing, locals, history, manager, bounds
<1>1. ASSUME NEW t \in Threads, NEW p \in Plans, BeginPut(t, p) PROVE OnlyOverlapLosesResults'
  BY <1>1 DEF BeginPut, Begin, Clash
<1>2. ASSUME NEW t \in Threads, NEW p \in Plans, BeginRecord(t, p) PROVE OnlyOverlapLosesResults'
  BY <1>2 DEF BeginRecord, Begin, Clash
<1>3. ASSUME NEW t \in Threads, NEW p \in Plans, BeginDelete(t, p) PROVE OnlyOverlapLosesResults'
  BY <1>3 DEF BeginDelete, Begin, Clash
<1>4. ASSUME NEW t \in Threads, BeginSearch(t) PROVE OnlyOverlapLosesResults'
  BY <1>4 DEF BeginSearch
<1>5. ASSUME NEW t \in Threads, Put(t) PROVE OnlyOverlapLosesResults'
  BY <1>5 DEF Put, Goto
<1>6. ASSUME NEW t \in Threads, PutRaises(t) PROVE OnlyOverlapLosesResults'
  BY <1>6 DEF PutRaises, Raise, Leave, Return, Fault
<1>7. ASSUME NEW t \in Threads, Index(t) PROVE OnlyOverlapLosesResults'
  BY <1>7 DEF Index, Return, HasRoomFor
<1>8. ASSUME NEW t \in Threads, IndexRaises(t) PROVE OnlyOverlapLosesResults'
  BY <1>8 DEF IndexRaises, Raise, Leave, Return
<1>9. ASSUME NEW t \in Threads, Read(t) PROVE OnlyOverlapLosesResults'
  BY <1>9 DEF Read, Readable
<1>10. ASSUME NEW t \in Threads, ReadNothing(t) PROVE OnlyOverlapLosesResults'
  BY <1>10 DEF ReadNothing, Leave, Return, Readable
<1>11. ASSUME NEW t \in Threads, ReadRaises(t) PROVE OnlyOverlapLosesResults'
  BY <1>11 DEF ReadRaises, Raise, Leave, Return, Fault
<1>12. ASSUME NEW t \in Threads, Unindex(t) PROVE OnlyOverlapLosesResults'
  BY <1>12 DEF Unindex, Goto
<1>13. ASSUME NEW t \in Threads, RemoveRaises(t) PROVE OnlyOverlapLosesResults'
  BY <1>13 DEF RemoveRaises, Raise, Leave, Return, Fault
<1>14. ASSUME NEW t \in Threads, Rewrite(t) PROVE OnlyOverlapLosesResults'
  BY <1>14 DEF Rewrite, Goto
<1>15. ASSUME NEW t \in Threads, RewriteRaises(t) PROVE OnlyOverlapLosesResults'
  BY <1>15 DEF RewriteRaises, Raise, Leave, Return, Fault
<1>16. ASSUME NEW t \in Threads, CheckExists(t) PROVE OnlyOverlapLosesResults'
  BY <1>16 DEF CheckExists, Goto, Readable
<1>17. ASSUME NEW t \in Threads, DropMissing(t) PROVE OnlyOverlapLosesResults'
  BY <1>17 DEF DropMissing, Leave, Return
<1>18. ASSUME NEW t \in Threads, Drop(t) PROVE OnlyOverlapLosesResults'
  BY <1>18 DEF Drop, Goto
<1>19. ASSUME NEW t \in Threads, Erase(t) PROVE OnlyOverlapLosesResults'
  BY <1>19 DEF Erase, Leave, Return
<1>20. ASSUME NEW t \in Threads, EraseRaises(t) PROVE OnlyOverlapLosesResults'
  BY <1>20 DEF EraseRaises, Raise, Leave, Return, Fault
<1>21. ASSUME NEW t \in Threads, SearchLoads(t) PROVE OnlyOverlapLosesResults'
  BY <1>21 DEF SearchLoads, Visit
<1>22. ASSUME NEW t \in Threads, SearchMisses(t) PROVE OnlyOverlapLosesResults'
  BY <1>22 DEF SearchMisses, Readable
<1>23. ASSUME NEW t \in Threads, Discard(t) PROVE OnlyOverlapLosesResults'
  BY <1>23 DEF Discard
<1>24. ASSUME NEW t \in Threads, DiscardRaises(t) PROVE OnlyOverlapLosesResults'
  BY <1>24 DEF DiscardRaises, Return, Fault
<1>25. ASSUME NEW t \in Threads, SearchRaises(t) PROVE OnlyOverlapLosesResults'
  BY <1>25 DEF SearchRaises, Return, Fault
<1>26. ASSUME NEW t \in Threads, EndSearch(t) PROVE OnlyOverlapLosesResults'
  BY <1>26 DEF EndSearch, Return
<1>27. ASSUME NEW p \in Plans, StoreDelete(p) PROVE OnlyOverlapLosesResults'
  BY <1>27 DEF StoreDelete
<1>28. CASE NewManager
  BY <1>28 DEF NewManager, StartLoading, Listed
<1>29. CASE Restart
  BY <1>29 DEF Restart, StartLoading, Listed
<1>30. CASE LoadPlan
  BY <1>30 DEF LoadPlan, HasRoomFor, Readable
<1>31. CASE LoadMissing
  BY <1>31 DEF LoadMissing, Readable
<1>32. CASE LoadRaises
  BY <1>32 DEF LoadRaises, LoadFails, Fault
<1>33. CASE LoadFull
  BY <1>33 DEF LoadFull, LoadFails
<1>34. CASE Ready
  BY <1>34 DEF Ready
<1>35. CASE UNCHANGED vars
  BY <1>35 DEF vars
<1>36. QED
  BY <1>1, <1>2, <1>3, <1>4, <1>5, <1>6, <1>7, <1>8, <1>9, <1>10, <1>11, <1>12, <1>13, <1>14,
     <1>15, <1>16, <1>17, <1>18, <1>19, <1>20, <1>21, <1>22, <1>23, <1>24, <1>25, <1>26, <1>27, <1>28,
     <1>29, <1>30, <1>31, <1>32, <1>33, <1>34, <1>35 DEF Next, Call, Change, Search, Load

\* The calls on a plan keep its entries in step while no delete meets a writer.
LEMMA TrackingStep == PInv /\ [Next]_vars => Tracking'
<1> SUFFICES ASSUME PInv, [Next]_vars PROVE Tracking'
  OBVIOUS
<1> USE CacheAssumption DEF PInv, CInv, TInv, TypeOK, Calling, Unmade, Putting, Tracking, Kept, Loading,
         Readable, Writing, Deleting, Changing, locals, history, manager, bounds, On
<1>1. ASSUME NEW t \in Threads, NEW p \in Plans, BeginPut(t, p) PROVE Tracking'
  BY <1>1 DEF BeginPut, Begin, Clash
<1>2. ASSUME NEW t \in Threads, NEW p \in Plans, BeginRecord(t, p) PROVE Tracking'
  BY <1>2 DEF BeginRecord, Begin, Clash
<1>3. ASSUME NEW t \in Threads, NEW p \in Plans, BeginDelete(t, p) PROVE Tracking'
  BY <1>3 DEF BeginDelete, Begin, Clash
<1>4. ASSUME NEW t \in Threads, BeginSearch(t) PROVE Tracking'
  BY <1>4 DEF BeginSearch
<1>5. ASSUME NEW t \in Threads, Put(t) PROVE Tracking'
  BY <1>5 DEF Put, Goto
<1>6. ASSUME NEW t \in Threads, PutRaises(t) PROVE Tracking'
  BY <1>6 DEF PutRaises, Raise, Leave, Return, Fault
<1>7. ASSUME NEW t \in Threads, Index(t) PROVE Tracking'
  BY <1>7 DEF Index, Return, HasRoomFor
<1>8. ASSUME NEW t \in Threads, IndexRaises(t) PROVE Tracking'
  BY <1>8 DEF IndexRaises, Raise, Leave, Return
<1>9. ASSUME NEW t \in Threads, Read(t) PROVE Tracking'
  BY <1>9 DEF Read, Readable
<1>10. ASSUME NEW t \in Threads, ReadNothing(t) PROVE Tracking'
  BY <1>10 DEF ReadNothing, Leave, Return, Readable
<1>11. ASSUME NEW t \in Threads, ReadRaises(t) PROVE Tracking'
  BY <1>11 DEF ReadRaises, Raise, Leave, Return, Fault
<1>12. ASSUME NEW t \in Threads, Unindex(t) PROVE Tracking'
  BY <1>12 DEF Unindex, Goto
<1>13. ASSUME NEW t \in Threads, RemoveRaises(t) PROVE Tracking'
  BY <1>13 DEF RemoveRaises, Raise, Leave, Return, Fault
<1>14. ASSUME NEW t \in Threads, Rewrite(t) PROVE Tracking'
  BY <1>14 DEF Rewrite, Goto
<1>15. ASSUME NEW t \in Threads, RewriteRaises(t) PROVE Tracking'
  BY <1>15 DEF RewriteRaises, Raise, Leave, Return, Fault
<1>16. ASSUME NEW t \in Threads, CheckExists(t) PROVE Tracking'
  BY <1>16 DEF CheckExists, Goto, Readable
<1>17. ASSUME NEW t \in Threads, DropMissing(t) PROVE Tracking'
  BY <1>17 DEF DropMissing, Leave, Return
<1>18. ASSUME NEW t \in Threads, Drop(t) PROVE Tracking'
  BY <1>18 DEF Drop, Goto
<1>19. ASSUME NEW t \in Threads, Erase(t) PROVE Tracking'
  BY <1>19 DEF Erase, Leave, Return
<1>20. ASSUME NEW t \in Threads, EraseRaises(t) PROVE Tracking'
  BY <1>20 DEF EraseRaises, Raise, Leave, Return, Fault
<1>21. ASSUME NEW t \in Threads, SearchLoads(t) PROVE Tracking'
  BY <1>21 DEF SearchLoads, Visit
<1>22. ASSUME NEW t \in Threads, SearchMisses(t) PROVE Tracking'
  BY <1>22 DEF SearchMisses, Readable
<1>23. ASSUME NEW t \in Threads, Discard(t) PROVE Tracking'
  BY <1>23 DEF Discard
<1>24. ASSUME NEW t \in Threads, DiscardRaises(t) PROVE Tracking'
  BY <1>24 DEF DiscardRaises, Return, Fault
<1>25. ASSUME NEW t \in Threads, SearchRaises(t) PROVE Tracking'
  BY <1>25 DEF SearchRaises, Return, Fault
<1>26. ASSUME NEW t \in Threads, EndSearch(t) PROVE Tracking'
  BY <1>26 DEF EndSearch, Return
<1>27. ASSUME NEW p \in Plans, StoreDelete(p) PROVE Tracking'
  BY <1>27 DEF StoreDelete
<1>28. CASE NewManager
  BY <1>28 DEF NewManager, StartLoading, Listed
<1>29. CASE Restart
  BY <1>29 DEF Restart, StartLoading, Listed
<1>30. CASE LoadPlan
  BY <1>30 DEF LoadPlan, HasRoomFor, Readable
<1>31. CASE LoadMissing
  BY <1>31 DEF LoadMissing, Readable
<1>32. CASE LoadRaises
  BY <1>32 DEF LoadRaises, LoadFails, Fault
<1>33. CASE LoadFull
  BY <1>33 DEF LoadFull, LoadFails
<1>34. CASE Ready
  BY <1>34 DEF Ready
<1>35. CASE UNCHANGED vars
  BY <1>35 DEF vars
<1>36. QED
  BY <1>1, <1>2, <1>3, <1>4, <1>5, <1>6, <1>7, <1>8, <1>9, <1>10, <1>11, <1>12, <1>13, <1>14,
     <1>15, <1>16, <1>17, <1>18, <1>19, <1>20, <1>21, <1>22, <1>23, <1>24, <1>25, <1>26, <1>27, <1>28,
     <1>29, <1>30, <1>31, <1>32, <1>33, <1>34, <1>35 DEF Next, Call, Change, Search, Load

\* The load of a new manager drops a plan from its list only into the index, or unreadable.
LEMMA LoadingStep == PInv /\ [Next]_vars => Loading'
<1> SUFFICES ASSUME PInv, [Next]_vars PROVE Loading'
  OBVIOUS
<1> USE CacheAssumption DEF PInv, CInv, TInv, TypeOK, Calling, Loading, Readable, Changing,
         locals, history, manager, bounds
<1>1. ASSUME NEW t \in Threads, NEW p \in Plans, BeginPut(t, p) PROVE Loading'
  BY <1>1 DEF BeginPut, Begin, Clash
<1>2. ASSUME NEW t \in Threads, NEW p \in Plans, BeginRecord(t, p) PROVE Loading'
  BY <1>2 DEF BeginRecord, Begin, Clash
<1>3. ASSUME NEW t \in Threads, NEW p \in Plans, BeginDelete(t, p) PROVE Loading'
  BY <1>3 DEF BeginDelete, Begin, Clash
<1>4. ASSUME NEW t \in Threads, BeginSearch(t) PROVE Loading'
  BY <1>4 DEF BeginSearch
<1>5. ASSUME NEW t \in Threads, Put(t) PROVE Loading'
  BY <1>5 DEF Put, Goto
<1>6. ASSUME NEW t \in Threads, PutRaises(t) PROVE Loading'
  BY <1>6 DEF PutRaises, Raise, Leave, Return, Fault
<1>7. ASSUME NEW t \in Threads, Index(t) PROVE Loading'
  BY <1>7 DEF Index, Return, HasRoomFor
<1>8. ASSUME NEW t \in Threads, IndexRaises(t) PROVE Loading'
  BY <1>8 DEF IndexRaises, Raise, Leave, Return
<1>9. ASSUME NEW t \in Threads, Read(t) PROVE Loading'
  BY <1>9 DEF Read, Readable
<1>10. ASSUME NEW t \in Threads, ReadNothing(t) PROVE Loading'
  BY <1>10 DEF ReadNothing, Leave, Return, Readable
<1>11. ASSUME NEW t \in Threads, ReadRaises(t) PROVE Loading'
  BY <1>11 DEF ReadRaises, Raise, Leave, Return, Fault
<1>12. ASSUME NEW t \in Threads, Unindex(t) PROVE Loading'
  BY <1>12 DEF Unindex, Goto
<1>13. ASSUME NEW t \in Threads, RemoveRaises(t) PROVE Loading'
  BY <1>13 DEF RemoveRaises, Raise, Leave, Return, Fault
<1>14. ASSUME NEW t \in Threads, Rewrite(t) PROVE Loading'
  BY <1>14 DEF Rewrite, Goto
<1>15. ASSUME NEW t \in Threads, RewriteRaises(t) PROVE Loading'
  BY <1>15 DEF RewriteRaises, Raise, Leave, Return, Fault
<1>16. ASSUME NEW t \in Threads, CheckExists(t) PROVE Loading'
  BY <1>16 DEF CheckExists, Goto, Readable
<1>17. ASSUME NEW t \in Threads, DropMissing(t) PROVE Loading'
  BY <1>17 DEF DropMissing, Leave, Return
<1>18. ASSUME NEW t \in Threads, Drop(t) PROVE Loading'
  BY <1>18 DEF Drop, Goto
<1>19. ASSUME NEW t \in Threads, Erase(t) PROVE Loading'
  BY <1>19 DEF Erase, Leave, Return
<1>20. ASSUME NEW t \in Threads, EraseRaises(t) PROVE Loading'
  BY <1>20 DEF EraseRaises, Raise, Leave, Return, Fault
<1>21. ASSUME NEW t \in Threads, SearchLoads(t) PROVE Loading'
  BY <1>21 DEF SearchLoads, Visit
<1>22. ASSUME NEW t \in Threads, SearchMisses(t) PROVE Loading'
  BY <1>22 DEF SearchMisses, Readable
<1>23. ASSUME NEW t \in Threads, Discard(t) PROVE Loading'
  BY <1>23 DEF Discard
<1>24. ASSUME NEW t \in Threads, DiscardRaises(t) PROVE Loading'
  BY <1>24 DEF DiscardRaises, Return, Fault
<1>25. ASSUME NEW t \in Threads, SearchRaises(t) PROVE Loading'
  BY <1>25 DEF SearchRaises, Return, Fault
<1>26. ASSUME NEW t \in Threads, EndSearch(t) PROVE Loading'
  BY <1>26 DEF EndSearch, Return
<1>27. ASSUME NEW p \in Plans, StoreDelete(p) PROVE Loading'
  BY <1>27 DEF StoreDelete
<1>28. CASE NewManager
  BY <1>28 DEF NewManager, StartLoading, Listed
<1>29. CASE Restart
  BY <1>29 DEF Restart, StartLoading, Listed
<1>30. CASE LoadPlan
  BY <1>30 DEF LoadPlan, HasRoomFor, Readable
<1>31. CASE LoadMissing
  BY <1>31 DEF LoadMissing, Readable
<1>32. CASE LoadRaises
  BY <1>32 DEF LoadRaises, LoadFails, Fault
<1>33. CASE LoadFull
  BY <1>33 DEF LoadFull, LoadFails
<1>34. CASE Ready
  BY <1>34 DEF Ready
<1>35. CASE UNCHANGED vars
  BY <1>35 DEF vars
<1>36. QED
  BY <1>1, <1>2, <1>3, <1>4, <1>5, <1>6, <1>7, <1>8, <1>9, <1>10, <1>11, <1>12, <1>13, <1>14,
     <1>15, <1>16, <1>17, <1>18, <1>19, <1>20, <1>21, <1>22, <1>23, <1>24, <1>25, <1>26, <1>27, <1>28,
     <1>29, <1>30, <1>31, <1>32, <1>33, <1>34, <1>35 DEF Next, Call, Change, Search, Load

\* The invariant holds initially, after every step, and so always.
LEMMA PInvInit == Init => PInv
<1> SUFFICES ASSUME Init PROVE PInv
  OBVIOUS
<1>1. TypeOK
  BY CacheAssumption, RoomInEmpty DEF Init, TypeOK
<1>2. Calling /\ Counted
  BY CacheAssumption DEF Init, Calling, Counted, Writing, Deleting, Changing
<1>3. Unmade /\ Putting /\ OnlyOverlapLosesResults
  BY CacheAssumption DEF Init, Unmade, Putting, OnlyOverlapLosesResults
<1>4. Tracking /\ Loading
  BY CacheAssumption DEF Init, Tracking, Kept, On, Loading, Readable
<1>5. QED
  BY <1>1, <1>2, <1>3, <1>4 DEF PInv, CInv, TInv

LEMMA PInvStep == PInv /\ [Next]_vars => PInv'
BY TypeStep, CallingStep, UnmadeStep, PuttingStep, CountedStep, LossStep, TrackingStep, LoadingStep
   DEF PInv, CInv, TInv

LEMMA PInvAlways == Spec => []PInv
BY PInvInit, PInvStep, PTL DEF Spec

-----------------------------------------------------------------------------
(* The retention policy: the blocks it holds and the latencies it predicts. *)

\* The size of a set is the same for both parts.
LEMMA SameCardinality == \A S : Retention!Cardinality(S) = Cardinality(S)
BY DEF Retention!Cardinality, Cardinality

\* The decision of a call survives the storing of a decision for another call, or for none.
LEMMA OtherDecisionsStay ==
    ASSUME NEW s, NEW d, Retention!StoreDecision(s, d),
           NEW c \in Calls, c # d.call
    PROVE  decision_of_call'[c] = decision_of_call[c]
BY DEF Retention!StoreDecision

\* Every offloaded block is named by an offload decision and every pinned one by a pin decision
\* (AgentTTLPolicy._pinned_blocks, _offloaded_blocks, _decisions_by_tool_call): a decision that
\* is stored later replaces the one of its step, never the one of another call.
THEOREM HeldAreDecided ==
    ASSUME None \notin Calls
    PROVE  Retention!Spec => []Retention!HeldBlocksAreDecided
<1>1. Retention!Init => Retention!HeldBlocksAreDecided
  BY DEF Retention!Init, Retention!HeldBlocksAreDecided
<1>2. Retention!HeldBlocksAreDecided /\ [Retention!Next]_Retention!vars => Retention!HeldBlocksAreDecided'
  <2> SUFFICES ASSUME Retention!HeldBlocksAreDecided, [Retention!Next]_Retention!vars
               PROVE  Retention!HeldBlocksAreDecided'
    OBVIOUS
  <2>1. ASSUME NEW s \in Steps, NEW blocks \in SUBSET Blocks, Retention!Retain(s, blocks)
        PROVE  Retention!HeldBlocksAreDecided'
    <3> DEFINE d == [action |-> "retain", blocks |-> blocks, call |-> None]
    <3>1. Retention!StoreDecision(s, d) /\ pinned' = pinned /\ offloaded' = offloaded
      BY <2>1 DEF Retention!Retain, Retention!held
    <3>2. \A c \in Calls : c # d.call
      OBVIOUS
    <3>3. \A c \in Calls : decision_of_call'[c] = decision_of_call[c]
      BY <3>1, <3>2, OtherDecisionsStay
    <3> QED
      BY <3>1, <3>3 DEF Retention!HeldBlocksAreDecided, Retention!Decided
  <2>2. ASSUME NEW s \in Steps, NEW blocks \in SUBSET Blocks, NEW c \in Calls,
               NEW t \in Tools, NEW k \in Classes \cup {None},
               Retention!Pin(s, blocks, c, t, k) \/ Retention!Offload(s, blocks, c, t, k)
        PROVE  Retention!HeldBlocksAreDecided'
    <3>1. \A b : \A a \in {"pin", "offload"} : Retention!Decided(b, a) =>
              \E x \in Calls \ {c} : decision_of_call[x].action = a /\ b \in decision_of_call[x].blocks
      BY <2>2 DEF Retention!Pin, Retention!Offload, Retention!NewCall, Retention!Unknown, Retention!Decided
    <3>2. CASE Retention!Pin(s, blocks, c, t, k)
      <4> DEFINE d == [action |-> "pin", blocks |-> blocks, call |-> c]
      <4>1. Retention!StoreDecision(s, d) /\ pinned' = pinned \cup blocks /\ offloaded' = offloaded
        BY <3>2 DEF Retention!Pin
      <4>2. \A x \in Calls \ {c} : decision_of_call'[x] = decision_of_call[x]
        BY <4>1, OtherDecisionsStay
      <4>3. decision_of_call'[c] = d
        BY <4>1 DEF Retention!StoreDecision
      <4>4. ASSUME NEW b, NEW a \in {"pin", "offload"}, Retention!Decided(b, a)
            PROVE  Retention!Decided(b, a)'
        <5>1. PICK x \in Calls \ {c} : decision_of_call[x].action = a /\ b \in decision_of_call[x].blocks
          BY <3>1, <4>4
        <5>2. QED
          BY <4>2, <5>1 DEF Retention!Decided
      <4>5. ASSUME NEW b \in blocks PROVE Retention!Decided(b, "pin")'
        BY <4>3, <4>5 DEF Retention!Decided
      <4>6. QED
        BY <4>1, <4>4, <4>5 DEF Retention!HeldBlocksAreDecided
    <3>3. CASE Retention!Offload(s, blocks, c, t, k)
      <4> DEFINE d == [action |-> "offload", blocks |-> blocks, call |-> c]
      <4>1. Retention!StoreDecision(s, d) /\ offloaded' = offloaded \cup blocks /\ pinned' = pinned
        BY <3>3 DEF Retention!Offload
      <4>2. \A x \in Calls \ {c} : decision_of_call'[x] = decision_of_call[x]
        BY <4>1, OtherDecisionsStay
      <4>3. decision_of_call'[c] = d
        BY <4>1 DEF Retention!StoreDecision
      <4>4. ASSUME NEW b, NEW a \in {"pin", "offload"}, Retention!Decided(b, a)
            PROVE  Retention!Decided(b, a)'
        <5>1. PICK x \in Calls \ {c} : decision_of_call[x].action = a /\ b \in decision_of_call[x].blocks
          BY <3>1, <4>4
        <5>2. QED
          BY <4>2, <5>1 DEF Retention!Decided
      <4>5. ASSUME NEW b \in blocks PROVE Retention!Decided(b, "offload")'
        BY <4>3, <4>5 DEF Retention!Decided
      <4>6. QED
        BY <4>1, <4>4, <4>5 DEF Retention!HeldBlocksAreDecided
    <3> QED
      BY <2>2, <3>2, <3>3
  <2>3. ASSUME NEW c \in Calls, Retention!PrefetchDue(c)
        PROVE  Retention!HeldBlocksAreDecided'
    BY <2>3 DEF Retention!PrefetchDue, Retention!HeldBlocksAreDecided, Retention!Decided,
         Retention!decisions, Retention!held
  <2>4. ASSUME NEW c \in Calls, NEW t \in Tools \cup {None}, NEW k \in Classes \cup {None},
               NEW latency \in Retention!Latencies, Retention!OnToolCompleted(c, t, k, latency)
        PROVE  Retention!HeldBlocksAreDecided'
    BY <2>4 DEF Retention!OnToolCompleted, Retention!HeldBlocksAreDecided, Retention!Decided,
         Retention!decisions, Retention!held
  <2>5. ASSUME NEW blocks \in SUBSET Blocks,
             Retention!OnKvReloaded(blocks) \/ Retention!OnPinnedKvReleased(blocks)
        PROVE  Retention!HeldBlocksAreDecided'
    BY <2>5 DEF Retention!OnKvReloaded, Retention!OnPinnedKvReleased, Retention!HeldBlocksAreDecided,
         Retention!Decided, Retention!decisions
  <2>6. CASE Retention!Reset
    BY <2>6 DEF Retention!Reset, Retention!HeldBlocksAreDecided, Retention!Decided, Retention!decisions,
         Retention!held
  <2>7. CASE UNCHANGED Retention!vars
    BY <2>7 DEF Retention!vars, Retention!HeldBlocksAreDecided, Retention!Decided
  <2> QED
    BY <2>1, <2>2, <2>3, <2>4, <2>5, <2>6, <2>7 DEF Retention!Next
<1> QED
  BY <1>1, <1>2, PTL DEF Retention!Spec

-----------------------------------------------------------------------------
\* The moving average of each profile: there is one once a latency was recorded, and it equals
\* the latencies recorded when those are all alike.
EstimateOK ==
    /\ ema \in [Retention!Profiles -> Retention!Latencies \cup {None}]
    /\ observed \in [Retention!Profiles -> SUBSET Retention!Latencies]
    /\ \A p \in Retention!Profiles :
          /\ ema[p] = None <=> observed[p] = {}
          /\ \A latency \in Retention!Latencies : observed[p] = {latency} => ema[p] = latency

\* ToolLatencyEstimator.predict_latency: when all latencies recorded for a class of arguments
\* were short (long), it predicts short (long), whatever else was recorded for the tool; for a
\* class without any, when all latencies of the tool were.
THEOREM PredictionsFollowObservations ==
    ASSUME None \notin Retention!Latencies
    PROVE  Retention!Spec => []Retention!PredictionFollowsObservations
<1>1. Retention!Init => EstimateOK
  BY DEF Retention!Init, EstimateOK
<1>2. EstimateOK /\ [Retention!Next]_Retention!vars => EstimateOK'
  <2> SUFFICES ASSUME EstimateOK, [Retention!Next]_Retention!vars
               PROVE  EstimateOK'
    OBVIOUS
  <2>1. ASSUME NEW t, NEW k, NEW latency \in Retention!Latencies, Retention!RecordLatency(t, k, latency)
        PROVE  EstimateOK'
    <3> DEFINE touched == {<<t, None>>, <<t, k>>}
    <3>1. PICK overall \in Retention!Averages(<<t, None>>, latency),
               specific \in Retention!Averages(<<t, k>>, latency) :
              ema' = [ema EXCEPT ![<<t, None>>] = overall, ![<<t, k>>] = specific]
      BY <2>1 DEF Retention!RecordLatency
    <3>2. observed' = [p \in Retention!Profiles |->
                         IF p \in touched THEN observed[p] \cup {latency} ELSE observed[p]]
      BY <2>1 DEF Retention!RecordLatency
    <3>3. \A p : Retention!Averages(p, latency) \subseteq Retention!Latencies
      BY DEF Retention!Averages
    <3>4. /\ ema' \in [Retention!Profiles -> Retention!Latencies \cup {None}]
          /\ observed' \in [Retention!Profiles -> SUBSET Retention!Latencies]
      BY <3>1, <3>2, <3>3 DEF EstimateOK
    <3>5. ASSUME NEW p \in Retention!Profiles
          PROVE  /\ ema'[p] = None <=> observed'[p] = {}
                 /\ \A l \in Retention!Latencies : observed'[p] = {l} => ema'[p] = l
      <4>1. CASE p \in touched
        <5>1. ema'[p] \in Retention!Averages(p, latency)
          BY <4>1, <3>1 DEF EstimateOK
        <5>2. observed'[p] = observed[p] \cup {latency}
          BY <4>1, <3>2
        <5>3. ema'[p] # None
          BY <5>1, <3>3
        <5>4. ASSUME NEW l \in Retention!Latencies, observed'[p] = {l}
              PROVE  ema'[p] = l
          <6>1. l = latency /\ observed[p] \in {{}, {latency}}
            BY <5>2, <5>4
          <6>2. ema[p] \in {None, latency}
            BY <6>1 DEF EstimateOK
          <6> QED
            BY <5>1, <6>1, <6>2 DEF Retention!Averages
        <5> QED
          BY <5>2, <5>3, <5>4
      <4>2. CASE p \notin touched
        BY <4>2, <3>1, <3>2 DEF EstimateOK
      <4> QED
        BY <4>1, <4>2
    <3> QED
      BY <3>4, <3>5 DEF EstimateOK
  <2>2. ASSUME NEW c \in Calls, NEW t \in Tools \cup {None}, NEW k \in Classes \cup {None},
               NEW latency \in Retention!Latencies, Retention!OnToolCompleted(c, t, k, latency)
        PROVE  EstimateOK'
    BY <2>1, <2>2 DEF Retention!OnToolCompleted
  <2>3. CASE Retention!Reset
    BY <2>3 DEF Retention!Reset, EstimateOK
  <2>4. CASE UNCHANGED Retention!estimator
    BY <2>4 DEF Retention!estimator, EstimateOK
  <2>5. ASSUME NEW s \in Steps, NEW blocks \in SUBSET Blocks, Retention!Retain(s, blocks)
        PROVE  UNCHANGED Retention!estimator
    BY <2>5 DEF Retention!Retain
  <2>6. ASSUME NEW s \in Steps, NEW blocks \in SUBSET Blocks, NEW c \in Calls,
               NEW t \in Tools, NEW k \in Classes \cup {None},
               Retention!Pin(s, blocks, c, t, k) \/ Retention!Offload(s, blocks, c, t, k)
        PROVE  UNCHANGED Retention!estimator
    BY <2>6 DEF Retention!Pin, Retention!Offload
  <2>7. ASSUME NEW c \in Calls, Retention!PrefetchDue(c)
        PROVE  UNCHANGED Retention!estimator
    BY <2>7 DEF Retention!PrefetchDue
  <2>8. ASSUME NEW blocks \in SUBSET Blocks,
             Retention!OnKvReloaded(blocks) \/ Retention!OnPinnedKvReleased(blocks)
        PROVE  UNCHANGED Retention!estimator
    BY <2>8 DEF Retention!OnKvReloaded, Retention!OnPinnedKvReleased
  <2>9. CASE UNCHANGED Retention!vars
    BY <2>4, <2>9 DEF Retention!vars, Retention!estimator
  <2> QED
    BY <2>2, <2>3, <2>4, <2>5, <2>6, <2>7, <2>8, <2>9 DEF Retention!Next
<1>3. EstimateOK => Retention!PredictionFollowsObservations
  <2> SUFFICES ASSUME EstimateOK, NEW t \in Tools, NEW k \in Classes \cup {None},
                      NEW latency \in Retention!Latencies,
                      (IF observed[<<t, k>>] # {} THEN observed[<<t, k>>] ELSE observed[<<t, None>>])
                          = {latency}
               PROVE  Retention!PredictLatency(t, k) = latency
    BY DEF Retention!PredictionFollowsObservations
  <2>1. <<t, k>> \in Retention!Profiles /\ <<t, None>> \in Retention!Profiles
    BY DEF Retention!Profiles
  <2>2. CASE observed[<<t, k>>] # {}
    BY <2>1, <2>2 DEF EstimateOK, Retention!PredictLatency
  <2>3. CASE observed[<<t, k>>] = {}
    BY <2>1, <2>3 DEF EstimateOK, Retention!PredictLatency
  <2> QED
    BY <2>2, <2>3
<1> QED
  BY <1>1, <1>2, <1>3, PTL DEF Retention!Spec

-----------------------------------------------------------------------------
(* Every variable of the policy has its type, and prefetches are triggered  *)
(* for offloads.                                                            *)

\* TypeOK, for any steps, calls, blocks, tools and classes; a step has finitely many blocks.
THEOREM RetentionTypeCorrect ==
    ASSUME None \notin Calls, IsFiniteSet(Blocks)
    PROVE  Retention!Spec => []Retention!TypeOK
<1>0. \A S \in SUBSET Blocks : Cardinality(S) \in Nat
  BY FS_Subset, FS_CardinalityType
<1>1. Retention!Init => Retention!TypeOK
  BY DEF Retention!Init, Retention!TypeOK, Retention!Unknown, Retention!Decisions
<1>2. Retention!TypeOK /\ [Retention!Next]_Retention!vars => Retention!TypeOK'
  <2> SUFFICES ASSUME Retention!TypeOK, [Retention!Next]_Retention!vars
               PROVE  Retention!TypeOK'
    OBVIOUS
  <2>0. ASSUME NEW s \in Steps, NEW d \in Retention!Decisions, Retention!StoreDecision(s, d),
               d.call = None \/ (d.call \in Calls /\ Retention!NewCall(d.call))
        PROVE  /\ decision_of_step' \in [Steps -> Retention!Decisions]
               /\ decision_of_call' \in [Calls -> Retention!Decisions]
               /\ triggered \subseteq {c \in Calls : decision_of_call'[c].action = "offload"}
    <3>1. d.call \notin triggered
      BY <2>0 DEF Retention!TypeOK, Retention!NewCall, Retention!Unknown
    <3>2. QED
      BY <2>0, <3>1 DEF Retention!TypeOK, Retention!StoreDecision
  <2>1. ASSUME NEW s \in Steps, NEW blocks \in SUBSET Blocks, Retention!Retain(s, blocks)
        PROVE  Retention!TypeOK'
    <3> DEFINE d == [action |-> "retain", blocks |-> blocks, call |-> None]
    <3>1. d \in Retention!Decisions /\ d.call = None
      BY DEF Retention!Decisions
    <3>2. Retention!StoreDecision(s, d)
      BY <2>1 DEF Retention!Retain
    <3> HIDE DEF d
    <3>3. QED
      BY <2>0, <2>1, <3>1, <3>2 DEF Retention!TypeOK, Retention!Retain, Retention!estimator,
           Retention!held, Retention!prefetch
  <2>2. ASSUME NEW s \in Steps, NEW blocks \in SUBSET Blocks, NEW c \in Calls,
               NEW t \in Tools, NEW k \in Classes \cup {None}, Retention!Pin(s, blocks, c, t, k)
        PROVE  Retention!TypeOK'
    <3> DEFINE d == [action |-> "pin", blocks |-> blocks, call |-> c]
    <3>1. d \in Retention!Decisions /\ d.call = c
      BY DEF Retention!Decisions
    <3>2. Retention!StoreDecision(s, d) /\ Retention!NewCall(c)
      BY <2>2 DEF Retention!Pin
    <3> HIDE DEF d
    <3>3. <<t, k>> \in Retention!Profiles
      BY DEF Retention!Profiles
    <3>4. QED
      BY <2>0, <2>2, <3>1, <3>2, <3>3 DEF Retention!TypeOK, Retention!Pin, Retention!estimator,
           Retention!prefetch
  <2>3. ASSUME NEW s \in Steps, NEW blocks \in SUBSET Blocks, NEW c \in Calls,
               NEW t \in Tools, NEW k \in Classes \cup {None}, Retention!Offload(s, blocks, c, t, k)
        PROVE  Retention!TypeOK'
    <3> DEFINE d == [action |-> "offload", blocks |-> blocks, call |-> c]
    <3>1. d \in Retention!Decisions /\ d.call = c
      BY DEF Retention!Decisions
    <3>2. Retention!StoreDecision(s, d) /\ Retention!NewCall(c)
      BY <2>3 DEF Retention!Offload
    <3> HIDE DEF d
    <3>3. <<t, k>> \in Retention!Profiles /\ Cardinality(blocks) \in Nat
      BY <1>0 DEF Retention!Profiles
    <3>4. QED
      BY <2>0, <2>3, <3>1, <3>2, <3>3, SameCardinality
         DEF Retention!TypeOK, Retention!Offload, Retention!estimator,
           Retention!prefetch
  <2>4. ASSUME NEW c \in Calls, Retention!PrefetchDue(c)
        PROVE  Retention!TypeOK'
    <3>1. Cardinality(decision_of_call[c].blocks) \in Nat
      BY <1>0 DEF Retention!TypeOK, Retention!Decisions
    <3>2. QED
      BY <2>4, <3>1, SameCardinality
         DEF Retention!TypeOK, Retention!PrefetchDue, Retention!estimator, Retention!decisions,
           Retention!held
  <2>5. ASSUME NEW c \in Calls, NEW tool \in Tools \cup {None}, NEW class \in Classes \cup {None},
               NEW latency \in Retention!Latencies, Retention!OnToolCompleted(c, tool, class, latency)
        PROVE  Retention!TypeOK'
    <3>1. PICK t, k : Retention!RecordLatency(t, k, latency)
      BY <2>5 DEF Retention!OnToolCompleted
    <3>2. ema' \in [Retention!Profiles -> Retention!Latencies \cup {None}]
      <4>1. PICK overall, specific :
              /\ overall \in Retention!Averages(<<t, None>>, latency)
              /\ specific \in Retention!Averages(<<t, k>>, latency)
              /\ ema' = [ema EXCEPT ![<<t, None>>] = overall, ![<<t, k>>] = specific]
        BY <3>1 DEF Retention!RecordLatency
      <4>2. overall \in Retention!Latencies \cup {None} /\ specific \in Retention!Latencies \cup {None}
        BY <4>1 DEF Retention!Averages
      <4>3. QED
        BY <4>1, <4>2 DEF Retention!TypeOK
    <3>3. observed' \in [Retention!Profiles -> SUBSET Retention!Latencies]
      BY <3>1 DEF Retention!TypeOK, Retention!RecordLatency
    <3>4. QED
      BY <2>5, <3>2, <3>3 DEF Retention!TypeOK, Retention!OnToolCompleted, Retention!decisions, Retention!held,
           Retention!prefetch
  <2>6. ASSUME NEW blocks \in SUBSET Blocks,
             Retention!OnKvReloaded(blocks) \/ Retention!OnPinnedKvReleased(blocks)
        PROVE  Retention!TypeOK'
    BY <2>6 DEF Retention!TypeOK, Retention!OnKvReloaded, Retention!OnPinnedKvReleased,
         Retention!estimator, Retention!decisions, Retention!prefetch
  <2>7. CASE Retention!Reset
    BY <2>7 DEF Retention!TypeOK, Retention!Reset, Retention!decisions, Retention!held, Retention!prefetch
  <2>8. CASE UNCHANGED Retention!vars
    BY <2>8 DEF Retention!TypeOK, Retention!vars
  <2> QED
    BY <2>1, <2>2, <2>3, <2>4, <2>5, <2>6, <2>7, <2>8 DEF Retention!Next
<1> QED
  BY <1>1, <1>2, PTL DEF Retention!Spec

-----------------------------------------------------------------------------
(* What is prefetched, against what was scheduled for it.                     *)

Offloads(c) == decision_of_call[c].action = "offload"

\* The blocks that one of these calls has offloaded, each with its call.
OffloadedBy(calls) == {x \in calls \X Blocks : Offloads(x[1]) /\ x[2] \in decision_of_call[x[1]].blocks}

\* Both counters count blocks of calls: those of all calls, those of the triggered ones.
CountersCount ==
    /\ IsFiniteSet(OffloadedBy(Calls))
    /\ scheduled = Cardinality(OffloadedBy(Calls))
    /\ trigger_count = Cardinality(OffloadedBy(triggered))

\* The blocks of one more call count in full.
LEMMA OneCallMore ==
    ASSUME NEW S, IsFiniteSet(S), NEW c, NEW blocks, IsFiniteSet(blocks), \A x \in S : x[1] # c,
           NEW T, T = S \cup ({c} \X blocks)
    PROVE  IsFiniteSet(T) /\ Cardinality(T) = Cardinality(S) + Cardinality(blocks)
<1>1. IsFiniteSet({c}) /\ Cardinality({c}) = 1
  BY FS_Singleton
<1>2. Cardinality(blocks) \in Nat /\ Cardinality(S) \in Nat
  BY FS_CardinalityType
<1> DEFINE added == {c} \X blocks
<1>3. IsFiniteSet(added) /\ Cardinality(added) = Cardinality(blocks)
  <2>1. PICK b : b = Cardinality(blocks)
    OBVIOUS
  <2>2. IsFiniteSet(added) /\ Cardinality(added) = Cardinality({c}) * b
    BY <1>1, <2>1, FS_Product
  <2>3. 1 * b = b
    BY <1>2, <2>1
  <2>4. QED
    BY <1>1, <2>1, <2>2, <2>3
<1>4. S \cap added = {}
  OBVIOUS
<1> HIDE DEF added
<1>5. Cardinality(S \cap added) = 0
  BY <1>4, FS_EmptySet
<1>6. /\ IsFiniteSet(S \cup added)
      /\ Cardinality(S \cup added) = Cardinality(S) + Cardinality(added) - Cardinality(S \cap added)
  BY <1>3, FS_Union
<1>7. Cardinality(S \cup added) = Cardinality(S) + Cardinality(blocks)
  BY <1>2, <1>3, <1>5, <1>6
<1>8. QED
  BY <1>6, <1>7 DEF added

LEMMA CountersCountInit == Retention!Init => CountersCount
<1> SUFFICES ASSUME Retention!Init PROVE CountersCount
  OBVIOUS
<1>1. OffloadedBy(Calls) = {} /\ OffloadedBy(triggered) = {}
  BY DEF Retention!Init, OffloadedBy, Offloads, Retention!Unknown
<1>2. QED
  BY <1>1, FS_EmptySet DEF CountersCount, Retention!Init

LEMMA CountersCountStep ==
    ASSUME None \notin Calls, IsFiniteSet(Blocks)
    PROVE  Retention!TypeOK /\ CountersCount /\ [Retention!Next]_Retention!vars => CountersCount'
<1> SUFFICES ASSUME Retention!TypeOK, CountersCount, [Retention!Next]_Retention!vars PROVE CountersCount'
  OBVIOUS
<1>0. ASSUME NEW s, NEW d, Retention!StoreDecision(s, d), d.action # "offload",
             d.call = None \/ Retention!NewCall(d.call), triggered' = triggered
      PROVE  OffloadedBy(Calls)' = OffloadedBy(Calls) /\ OffloadedBy(triggered)' = OffloadedBy(triggered)
  BY <1>0 DEF Retention!TypeOK, OffloadedBy, Offloads, Retention!StoreDecision, Retention!NewCall,
       Retention!Unknown
<1>1. ASSUME NEW s \in Steps, NEW blocks \in SUBSET Blocks, Retention!Retain(s, blocks)
      PROVE  CountersCount'
  <2> DEFINE d == [action |-> "retain", blocks |-> blocks, call |-> None]
  <2>1. Retention!StoreDecision(s, d) /\ d.action # "offload" /\ d.call = None
    BY <1>1 DEF Retention!Retain
  <2> HIDE DEF d
  <2>2. QED
    BY <1>0, <1>1, <2>1 DEF CountersCount, Retention!Retain, Retention!prefetch
<1>2. ASSUME NEW s \in Steps, NEW blocks \in SUBSET Blocks, NEW c \in Calls,
             NEW t \in Tools, NEW k \in Classes \cup {None}, Retention!Pin(s, blocks, c, t, k)
      PROVE  CountersCount'
  <2> DEFINE d == [action |-> "pin", blocks |-> blocks, call |-> c]
  <2>1. Retention!StoreDecision(s, d) /\ d.action # "offload" /\ Retention!NewCall(d.call)
    BY <1>2 DEF Retention!Pin
  <2> HIDE DEF d
  <2>2. QED
    BY <1>0, <1>2, <2>1 DEF CountersCount, Retention!Pin, Retention!prefetch
<1>3. ASSUME NEW s \in Steps, NEW blocks \in SUBSET Blocks, NEW c \in Calls,
             NEW t \in Tools, NEW k \in Classes \cup {None}, Retention!Offload(s, blocks, c, t, k)
      PROVE  CountersCount'
  <2>1. /\ ~Offloads(c) /\ c \notin triggered
        /\ decision_of_call' =
              [x \in Calls |-> IF x = c THEN [action |-> "offload", blocks |-> blocks, call |-> c]
                               ELSE decision_of_call[x]]
        /\ scheduled' = scheduled + Cardinality(blocks)
        /\ trigger_count' = trigger_count /\ triggered' = triggered
    BY <1>3, SameCardinality
       DEF Retention!Offload, Retention!StoreDecision, Retention!NewCall, Retention!Unknown, Offloads,
         Retention!TypeOK, Retention!prefetch
  <2>2. OffloadedBy(Calls)' = OffloadedBy(Calls) \cup ({c} \X blocks)
    BY <2>1 DEF OffloadedBy, Offloads
  <2>3. OffloadedBy(triggered)' = OffloadedBy(triggered)
    BY <2>1 DEF OffloadedBy, Offloads, Retention!TypeOK
  <2>4. IsFiniteSet(blocks) /\ \A x \in OffloadedBy(Calls) : x[1] # c
    BY <2>1, FS_Subset DEF OffloadedBy
  <2>5. IsFiniteSet(OffloadedBy(Calls)) /\ IsFiniteSet(blocks)
    BY <2>4 DEF CountersCount
  <2>6. PICK S : S = OffloadedBy(Calls)
    OBVIOUS
  <2>7. PICK T : T = OffloadedBy(Calls)'
    OBVIOUS
  <2>8. T = S \cup ({c} \X blocks) /\ IsFiniteSet(S) /\ \A x \in S : x[1] # c
    BY <2>2, <2>4, <2>5, <2>6, <2>7
  <2>9. IsFiniteSet(T) /\ Cardinality(T) = Cardinality(S) + Cardinality(blocks)
    BY <2>5, <2>8, OneCallMore
  <2>10. QED
    BY <2>1, <2>3, <2>6, <2>7, <2>9 DEF CountersCount
<1>4. ASSUME NEW c \in Calls, Retention!PrefetchDue(c)
      PROVE  CountersCount'
  <2> DEFINE blocks == decision_of_call[c].blocks
  <2>1. /\ Offloads(c) /\ c \notin triggered /\ blocks \subseteq Blocks
        /\ triggered' = triggered \cup {c} /\ trigger_count' = trigger_count + Cardinality(blocks)
        /\ decision_of_call' = decision_of_call /\ scheduled' = scheduled
    BY <1>4, SameCardinality
       DEF Retention!PrefetchDue, Offloads, Retention!decisions, Retention!TypeOK, Retention!Decisions
  <2>2. OffloadedBy(Calls)' = OffloadedBy(Calls)
    BY <2>1 DEF OffloadedBy, Offloads
  <2>3. OffloadedBy(triggered)' = OffloadedBy(triggered) \cup ({c} \X blocks)
    BY <2>1 DEF OffloadedBy, Offloads
  <2>4. IsFiniteSet(blocks) /\ \A x \in OffloadedBy(triggered) : x[1] # c
    BY <2>1, FS_Subset DEF OffloadedBy
  <2>5. IsFiniteSet(OffloadedBy(triggered))
    <3>1. OffloadedBy(triggered) \subseteq OffloadedBy(Calls)
      BY DEF OffloadedBy, Retention!TypeOK
    <3>2. QED
      BY <3>1, FS_Subset DEF CountersCount
  <2>6. PICK S : S = OffloadedBy(triggered)
    OBVIOUS
  <2>7. PICK T : T = OffloadedBy(triggered)'
    OBVIOUS
  <2> HIDE DEF blocks
  <2>8. T = S \cup ({c} \X blocks) /\ IsFiniteSet(S) /\ \A x \in S : x[1] # c
    BY <2>3, <2>4, <2>5, <2>6, <2>7
  <2>9. IsFiniteSet(T) /\ Cardinality(T) = Cardinality(S) + Cardinality(blocks)
    BY <2>4, <2>8, OneCallMore
  <2>10. QED
    BY <2>1, <2>2, <2>6, <2>7, <2>9 DEF CountersCount
<1>5. CASE UNCHANGED <<decision_of_call, triggered, scheduled, trigger_count>>
  BY <1>5 DEF CountersCount, OffloadedBy, Offloads
<1>6. ASSUME NEW c \in Calls, NEW tool \in Tools \cup {None}, NEW class \in Classes \cup {None},
             NEW latency \in Retention!Latencies, Retention!OnToolCompleted(c, tool, class, latency)
      PROVE  CountersCount'
  BY <1>5, <1>6 DEF Retention!OnToolCompleted, Retention!decisions, Retention!prefetch
<1>7. ASSUME NEW blocks \in SUBSET Blocks,
             Retention!OnKvReloaded(blocks) \/ Retention!OnPinnedKvReleased(blocks)
      PROVE  CountersCount'
  BY <1>5, <1>7 DEF Retention!OnKvReloaded, Retention!OnPinnedKvReleased, Retention!decisions,
       Retention!prefetch
<1>8. CASE Retention!Reset
  BY <1>5, <1>8 DEF Retention!Reset, Retention!decisions, Retention!prefetch
<1>9. CASE UNCHANGED Retention!vars
  BY <1>5, <1>9 DEF Retention!vars
<1>10. QED
  BY <1>1, <1>2, <1>3, <1>4, <1>6, <1>7, <1>8, <1>9 DEF Retention!Next

\* However often and late the runtime polls prefetch_due, it prefetches each offloaded block of
\* a call once: no more blocks than were scheduled.
THEOREM PrefetchesFollowOffloads ==
    ASSUME None \notin Calls, IsFiniteSet(Blocks)
    PROVE  Retention!Spec => []Retention!PrefetchesAreScheduled
<1>1. Retention!TypeOK /\ CountersCount => Retention!PrefetchesAreScheduled
  <2>1. Retention!TypeOK => OffloadedBy(triggered) \subseteq OffloadedBy(Calls)
    BY DEF Retention!TypeOK, OffloadedBy
  <2>2. QED
    BY <2>1, FS_Subset DEF CountersCount, Retention!PrefetchesAreScheduled
<1>2. Retention!Spec => []Retention!TypeOK
  BY RetentionTypeCorrect
<1>3. QED
  BY <1>1, <1>2, CountersCountInit, CountersCountStep, PTL DEF Retention!Spec

-----------------------------------------------------------------------------
(* The runtime: each of its two parts runs as if it were alone.             *)

\* A behaviour of the runtime is one of each part: the other's steps are stutters for it.
LEMMA PartsRunAlone == RuntimeSpec => Spec /\ Retention!Spec
<1>1. RuntimeInit => Init /\ Retention!Init
  BY DEF RuntimeInit
<1>2. [RuntimeNext]_<<vars, retention>> => [Next]_vars /\ [Retention!Next]_Retention!vars
  BY DEF RuntimeNext, retention, Retention!vars
<1>3. QED
  BY <1>1, <1>2, PTL DEF RuntimeSpec, Spec, Retention!Spec

\* TypeOK of the plan cache and of the retention policy, for any threads and plans, steps, calls and
\* tools: the index stays within max_elements, and a prefetch is triggered for an offload only.
THEOREM RuntimeTypeCorrect ==
    ASSUME None \notin Calls, IsFiniteSet(Blocks)
    PROVE  RuntimeSpec => []RuntimeTypeOK
<1>1. PInv /\ Retention!TypeOK => RuntimeTypeOK
  BY DEF PInv, CInv, TInv, RuntimeTypeOK
<1>2. Retention!Spec => []Retention!TypeOK
  BY RetentionTypeCorrect
<1>3. QED
  BY <1>1, <1>2, PartsRunAlone, PInvAlways, PTL

\* Between the calls on it a plan is in the manager's index exactly if the store has it, whatever
\* overlapping results, overlapping deletes, searches, loads of a new manager and restarts do, for
\* any threads and plans.
THEOREM IndexFollowsStore == RuntimeSpec => []IndexMatchesStore
<1>1. PInv => IndexMatchesStore
  BY DEF PInv, Tracking, Kept, IndexMatchesStore, Free, On, Changing, Writing, Deleting
<1>2. QED
  BY <1>1, PartsRunAlone, PInvAlways, PTL

\* The entry of a plan counts every stretch of overlapping calls in which record_plan_result
\* returned true, and no result twice, however many threads record results of one plan, search,
\* delete and fail at the same time: only a result recorded beside another can be lost.
THEOREM ResultsAreCounted == RuntimeSpec => []OnlyOverlapLosesResults
<1>1. PInv => OnlyOverlapLosesResults
  BY DEF PInv, CInv
<1>2. QED
  BY <1>1, PartsRunAlone, PInvAlways, PTL

\* No offloaded or pinned block loses the decision that brings it back, and a poll prefetches
\* each block of a call once.
THEOREM HeldBlocksAreNotForgotten ==
    ASSUME None \notin Calls, IsFiniteSet(Blocks)
    PROVE  RuntimeSpec => []HeldBlocksComeBack
<1>1. Retention!Spec => []Retention!HeldBlocksAreDecided /\ []Retention!PrefetchesAreScheduled
  BY HeldAreDecided, PrefetchesFollowOffloads, PTL
<1>2. Retention!HeldBlocksAreDecided /\ Retention!PrefetchesAreScheduled => HeldBlocksComeBack
  BY DEF HeldBlocksComeBack
<1>3. QED
  BY <1>1, <1>2, PartsRunAlone, PTL

\* A predicted latency agrees with those observed for the tool and the class of arguments.
THEOREM PredictionsAgree ==
    ASSUME None \notin Retention!Latencies
    PROVE  RuntimeSpec => []PredictionFollowsObservations
<1>1. Retention!PredictionFollowsObservations => PredictionFollowsObservations
  BY DEF PredictionFollowsObservations
<1>2. QED
  BY <1>1, PredictionsFollowObservations, PartsRunAlone, PTL
=============================================================================
