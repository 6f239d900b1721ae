--------------------------- MODULE ToolCacheProofs ---------------------------
(***************************************************************************)
(* Proofs about ToolCache: what a hit may return, what the store keeps and *)
(* what a rebuild indexes.                                                 *)
(***************************************************************************)
EXTENDS ToolCache, TLAPS

\* What the locals of a call hold in each place, over and above TypeOK.
CallShape ==
    /\ pc \in Putting \cup {"get", "delete_expired"} => key \in Keys
    /\ pc \in Putting \cup {"delete_expired"} => version \in Versions
    /\ pc \in {"put", "delete_previous", "purge", "rebuild"} => time \in Nat
    /\ pc \in {"invalidate", "purge"} => todo \subseteq Keys
    /\ pc = "rebuild" => todo \subseteq Artifacts
    /\ pc # "idle" => hit = None

Shape == TypeOK /\ CallShape

LEMMA ArtifactParts ==
    /\ \A k \in Keys, v \in Versions : <<k, v>> \in Artifacts /\ <<k, v>>[1] = k /\ <<k, v>>[2] = v
    /\ \A a \in Artifacts : a[1] \in Keys /\ a[2] \in Versions /\ a = <<a[1], a[2]>>
BY DEF Artifacts

LEMMA ShapeInit == Init => Shape
BY CacheAssumption DEF Init, Shape, TypeOK, CallShape, Times, Putting

LEMMA ShapeStep == Shape /\ [Next]_vars => Shape'
<1> SUFFICES ASSUME Shape, [Next]_vars PROVE Shape'
  OBVIOUS
<1> USE CacheAssumption, ArtifactParts DEF Shape, TypeOK, CallShape, Times, Putting, store, locals
<1>1. ASSUME NEW k \in Keys, NEW v \in Versions, NEW ttl \in TTLs, BeginPut(k, v, ttl) PROVE Shape'
  BY <1>1 DEF BeginPut, Begin
<1>2. CASE Put
  <2>1. TypeOK'
    BY <1>2 DEF Put, StorePut, Register, Goto, Return
  <2>2. CallShape'
    BY <1>2 DEF Put, StorePut, Register, Goto, Return
  <2>3. QED
    BY <2>1, <2>2
<1>3. CASE PutRaises
  BY <1>3 DEF PutRaises, StorePutRaises, Raises, Return
<1>4. CASE DeletePrevious
  <2>1. TypeOK'
    BY <1>4 DEF DeletePrevious, StoreDelete, Register, Return
  <2>2. CallShape'
    BY <1>4 DEF DeletePrevious, StoreDelete, Register, Return
  <2>3. QED
    BY <2>1, <2>2
<1>5. CASE DeletePreviousRaises
  <2>1. stored' \in [Artifacts -> Times] /\ known' = known
    <3>1. PICK a : StoreDeleteRaises(a)
      BY <1>5 DEF DeletePreviousRaises
    <3>2. stored' = stored \/ stored' = [stored EXCEPT ![a] = None]
      BY <3>1 DEF StoreDeleteRaises
    <3>3. [stored EXCEPT ![a] = None] \in [Artifacts -> Times]
      OBVIOUS
    <3>4. QED
      BY <3>1, <3>2, <3>3 DEF StoreDeleteRaises
  <2>2. faults' \in 0..MaxFaults
    BY <1>5 DEF DeletePreviousRaises, StoreDeleteRaises, Raises
  <2>3. current' \in [Keys -> SUBSET Versions]
    BY <1>5 DEF DeletePreviousRaises
  <2>4. TypeOK'
    BY <1>5, <2>1, <2>2, <2>3 DEF DeletePreviousRaises, Return
  <2>5. CallShape'
    BY <1>5 DEF DeletePreviousRaises, Return
  <2>6. QED
    BY <2>4, <2>5
<1>6. ASSUME NEW k \in Keys, NEW v \in Versions \cup {None}, BeginGet(k, v) PROVE Shape'
  BY <1>6 DEF BeginGet, Begin
<1>7. CASE Get
  BY <1>7 DEF Get, Asked, Return
<1>8. CASE GetMissing
  BY <1>8 DEF GetMissing, Asked, Return
<1>9. CASE GetOtherVersion
  BY <1>9 DEF GetOtherVersion, Return
<1>10. CASE GetExpired
  BY <1>10 DEF GetExpired, Asked
<1>11. CASE GetRaises
  BY <1>11 DEF GetRaises, StoreGetRaises, Raises, Return
<1>12. CASE DeleteExpired
  BY <1>12 DEF DeleteExpired, StoreDelete, StoreDeleteRaises, Raises, Return
<1>13. ASSUME NEW filter \in SUBSET Keys, BeginInvalidate(filter) PROVE Shape'
  BY <1>13 DEF BeginInvalidate, Begin
<1>14. ASSUME NEW k \in Keys, Invalidate(k) PROVE Shape'
  BY <1>14 DEF Invalidate, StoreDelete, Visited, Return
<1>15. ASSUME NEW k \in Keys, InvalidateRaises(k) PROVE Shape'
  BY <1>15 DEF InvalidateRaises, StoreDeleteRaises, Raises, Return
<1>16. CASE BeginPurge
  BY <1>16 DEF BeginPurge, Begin
<1>17. ASSUME NEW k \in Keys, PurgeMissing(k) PROVE Shape'
  BY <1>17 DEF PurgeMissing, Visited, Return
<1>18. ASSUME NEW k \in Keys, PurgeFresh(k) PROVE Shape'
  BY <1>18 DEF PurgeFresh, Visited, Return
<1>19. ASSUME NEW k \in Keys, PurgeExpired(k) PROVE Shape'
  <2>1. CASE StoreDelete(<<k, index[k]>>) /\ Visited(k)
    BY <1>19, <2>1 DEF PurgeExpired, StoreDelete, Visited, Return
  <2>2. CASE StoreDeleteRaises(<<k, index[k]>>) /\ Return(None)
    BY <1>19, <2>2 DEF PurgeExpired, StoreDeleteRaises, Raises, Return
  <2>3. QED
    BY <1>19, <2>1, <2>2 DEF PurgeExpired
<1>20. ASSUME NEW k \in Keys, PurgeRaises(k) PROVE Shape'
  BY <1>20 DEF PurgeRaises, StoreGetRaises, Raises, Return
<1>21. CASE BeginRebuild
  BY <1>21 DEF BeginRebuild, Begin, Persisted
<1>22. CASE BeginRebuildEmpty
  BY <1>22 DEF BeginRebuildEmpty, Begin, Persisted, Raises
<1>23. ASSUME NEW a \in Artifacts, RebuildMissing(a) PROVE Shape'
  BY <1>23 DEF RebuildMissing, Visited, Return
<1>24. ASSUME NEW a \in Artifacts, RebuildExpired(a) PROVE Shape'
  BY <1>24 DEF RebuildExpired, StoreDelete, StoreDeleteRaises, Raises, Visited, Return
<1>25. ASSUME NEW a \in Artifacts, RebuildFresh(a) PROVE Shape'
  BY <1>25 DEF RebuildFresh, Replaces, Visited, Return
<1>26. ASSUME NEW a \in Artifacts, RebuildRaises(a) PROVE Shape'
  BY <1>26 DEF RebuildRaises, StoreGetRaises, Raises, Return
<1>27. CASE Tick
  BY <1>27 DEF Tick
<1>28. CASE Restart
  BY <1>28 DEF Restart, Return
<1>29. CASE UNCHANGED vars
  BY <1>29 DEF vars
<1>30. QED
  BY <1>1, <1>2, <1>3, <1>4, <1>5, <1>6, <1>7, <1>8, <1>9, <1>10, <1>11, <1>12, <1>13, <1>14, <1>15, <1>16, <1>17, <1>18, <1>19, <1>20, <1>21, <1>22, <1>23, <1>24, <1>25, <1>26, <1>27, <1>28, <1>29 DEF Next

\* The store, the index and the caller stay well typed.
THEOREM TypeCorrect == Spec => []TypeOK
<1>1. Shape => TypeOK
  BY DEF Shape
<1>2. QED
  BY <1>1, ShapeInit, ShapeStep, PTL DEF Spec

-----------------------------------------------------------------------------
(* What the index names, and what the store holds, while no call failed.    *)

IndexIsCurrent == \A k \in Keys : index[k] # None => index[k] \in current[k]

\* A visible artifact is named by the index, or the caller is about to name or to
\* delete it, or a rebuild has still to visit it.
Accounted(a) ==
    \/ index[a[1]] = a[2]
    \/ pc \in {"delete_previous", "delete_expired"} /\ a = <<key, version>>
    \/ pc = "rebuild" /\ a \in todo

Alone(a) == \A b \in Artifacts : b[1] = a[1] /\ Found(b) # None => b = a

VisibleAreAccounted ==
    \A a \in Artifacts : Found(a) # None =>
        /\ Accounted(a)
        /\ a[2] \in current[a[1]] \/ (pc = "delete_previous" /\ a = <<key, version>>)
        /\ pc = "rebuild" => Alone(a)

\* The Bloom filter of a process that started on an empty store knows all of it.
StoredAreKnown == restarts = 0 => \A a \in Artifacts : stored[a] # None => a \in known

CInv ==
    /\ Shape
    /\ IndexIsCurrent
    /\ faults = 0 => VisibleAreAccounted /\ StoredAreKnown
    /\ HitIsCurrent

LEMMA CInvInit == Init => CInv
<1> SUFFICES ASSUME Init PROVE CInv
  OBVIOUS
<1>1. \A a \in Artifacts : stored[a] = None /\ Found(a) = None
  BY DEF Init, Found
<1>2. QED
  BY <1>1, ShapeInit DEF Init, CInv, IndexIsCurrent, VisibleAreAccounted, StoredAreKnown, HitIsCurrent

LEMMA IndexIsCurrentStep == CInv /\ [Next]_vars => IndexIsCurrent' /\ HitIsCurrent'
<1> SUFFICES ASSUME CInv, [Next]_vars PROVE IndexIsCurrent' /\ HitIsCurrent'
  OBVIOUS
<1> USE CacheAssumption, ArtifactParts
        DEF CInv, Shape, TypeOK, CallShape, IndexIsCurrent, HitIsCurrent, Putting, store, locals
<1>1. ASSUME NEW k \in Keys, NEW v \in Versions, NEW ttl \in TTLs, BeginPut(k, v, ttl) PROVE IndexIsCurrent' /\ HitIsCurrent'
  BY <1>1 DEF BeginPut, Begin
<1>2. CASE Put
  BY <1>2 DEF Put, StorePut, Register, Goto, Return
<1>3. CASE PutRaises
  BY <1>3 DEF PutRaises, StorePutRaises, Raises, Return
<1>4. CASE DeletePrevious
  BY <1>4 DEF DeletePrevious, StoreDelete, Register, Return
<1>5. CASE DeletePreviousRaises
  BY <1>5 DEF DeletePreviousRaises, StoreDeleteRaises, Raises, Return
<1>6. ASSUME NEW k \in Keys, NEW v \in Versions \cup {None}, BeginGet(k, v) PROVE IndexIsCurrent' /\ HitIsCurrent'
  BY <1>6 DEF BeginGet, Begin
<1>7. CASE Get
  BY <1>7 DEF Get, Asked, Return
<1>8. CASE GetMissing
  BY <1>8 DEF GetMissing, Asked, Return
<1>9. CASE GetOtherVersion
  BY <1>9 DEF GetOtherVersion, Return
<1>10. CASE GetExpired
  BY <1>10 DEF GetExpired, Asked
<1>11. CASE GetRaises
  BY <1>11 DEF GetRaises, StoreGetRaises, Raises, Return
<1>12. CASE DeleteExpired
  BY <1>12 DEF DeleteExpired, StoreDelete, StoreDeleteRaises, Raises, Return
<1>13. ASSUME NEW filter \in SUBSET Keys, BeginInvalidate(filter) PROVE IndexIsCurrent' /\ HitIsCurrent'
  BY <1>13 DEF BeginInvalidate, Begin
<1>14. ASSUME NEW k \in Keys, Invalidate(k) PROVE IndexIsCurrent' /\ HitIsCurrent'
  BY <1>14 DEF Invalidate, StoreDelete, Visited, Return
<1>15. ASSUME NEW k \in Keys, InvalidateRaises(k) PROVE IndexIsCurrent' /\ HitIsCurrent'
  BY <1>15 DEF InvalidateRaises, StoreDeleteRaises, Raises, Return
<1>16. CASE BeginPurge
  BY <1>16 DEF BeginPurge, Begin
<1>17. ASSUME NEW k \in Keys, PurgeMissing(k) PROVE IndexIsCurrent' /\ HitIsCurrent'
  BY <1>17 DEF PurgeMissing, Visited, Return
<1>18. ASSUME NEW k \in Keys, PurgeFresh(k) PROVE IndexIsCurrent' /\ HitIsCurrent'
  BY <1>18 DEF PurgeFresh, Visited, Return
<1>19. ASSUME NEW k \in Keys, PurgeExpired(k) PROVE IndexIsCurrent' /\ HitIsCurrent'
  BY <1>19 DEF PurgeExpired, StoreDelete, StoreDeleteRaises, Raises, Visited, Return
<1>20. ASSUME NEW k \in Keys, PurgeRaises(k) PROVE IndexIsCurrent' /\ HitIsCurrent'
  BY <1>20 DEF PurgeRaises, StoreGetRaises, Raises, Return
<1>21. CASE BeginRebuild
  BY <1>21 DEF BeginRebuild, Begin, Persisted
<1>22. CASE BeginRebuildEmpty
  BY <1>22 DEF BeginRebuildEmpty, Begin, Persisted, Raises
<1>23. ASSUME NEW a \in Artifacts, RebuildMissing(a) PROVE IndexIsCurrent' /\ HitIsCurrent'
  BY <1>23 DEF RebuildMissing, Visited, Return
<1>24. ASSUME NEW a \in Artifacts, RebuildExpired(a) PROVE IndexIsCurrent' /\ HitIsCurrent'
  BY <1>24 DEF RebuildExpired, StoreDelete, StoreDeleteRaises, Raises, Visited, Return
<1>25. ASSUME NEW a \in Artifacts, RebuildFresh(a) PROVE IndexIsCurrent' /\ HitIsCurrent'
  <2>1. index'[a[1]] \in {index[a[1]], a[2]} /\ \A k \in Keys : k # a[1] => index'[k] = index[k]
    BY <1>25 DEF RebuildFresh
  <2>2. a[2] \in current'[a[1]] /\ \A k \in Keys : current[k] \subseteq current'[k]
    BY <1>25 DEF RebuildFresh, VisibleAreAccounted
  <2>3. hit' = None
    BY <1>25 DEF RebuildFresh, Visited, Return
  <2>4. QED
    BY <2>1, <2>2, <2>3
<1>26. ASSUME NEW a \in Artifacts, RebuildRaises(a) PROVE IndexIsCurrent' /\ HitIsCurrent'
  BY <1>26 DEF RebuildRaises, StoreGetRaises, Raises, Return
<1>27. CASE Tick
  BY <1>27 DEF Tick
<1>28. CASE Restart
  BY <1>28 DEF Restart, Return
<1>29. CASE UNCHANGED vars
  BY <1>29 DEF vars
<1>30. QED
  BY <1>1, <1>2, <1>3, <1>4, <1>5, <1>6, <1>7, <1>8, <1>9, <1>10, <1>11, <1>12, <1>13, <1>14, <1>15, <1>16, <1>17, <1>18, <1>19, <1>20, <1>21, <1>22, <1>23, <1>24, <1>25, <1>26, <1>27, <1>28, <1>29 DEF Next

LEMMA AccountedStep == CInv /\ Shape' /\ faults' = 0 /\ [Next]_vars => VisibleAreAccounted' /\ StoredAreKnown'
<1> SUFFICES ASSUME CInv, Shape', faults' = 0, [Next]_vars PROVE VisibleAreAccounted' /\ StoredAreKnown'
  OBVIOUS
<1> USE CacheAssumption, ArtifactParts
        DEF CInv, Shape, TypeOK, CallShape, VisibleAreAccounted, StoredAreKnown, Accounted, Alone, Found,
            Putting, store, locals
<1>1. ASSUME NEW k \in Keys, NEW v \in Versions, NEW ttl \in TTLs, BeginPut(k, v, ttl) PROVE VisibleAreAccounted' /\ StoredAreKnown'
  BY <1>1 DEF BeginPut, Begin
<1>2. CASE Put
  BY <1>2 DEF Put, StorePut, Register, Goto, Return
<1>3. CASE PutRaises
  BY <1>3 DEF PutRaises, StorePutRaises, Raises, Return
<1>4. CASE DeletePrevious
  BY <1>4 DEF DeletePrevious, StoreDelete, Register, Return
<1>5. CASE DeletePreviousRaises
  BY <1>5 DEF DeletePreviousRaises, StoreDeleteRaises, Raises, Return
<1>6. ASSUME NEW k \in Keys, NEW v \in Versions \cup {None}, BeginGet(k, v) PROVE VisibleAreAccounted' /\ StoredAreKnown'
  BY <1>6 DEF BeginGet, Begin
<1>7. CASE Get
  BY <1>7 DEF Get, Asked, Return
<1>8. CASE GetMissing
  BY <1>8 DEF GetMissing, Asked, Return
<1>9. CASE GetOtherVersion
  BY <1>9 DEF GetOtherVersion, Return
<1>10. CASE GetExpired
  BY <1>10 DEF GetExpired, Asked
<1>11. CASE GetRaises
  BY <1>11 DEF GetRaises, StoreGetRaises, Raises, Return
<1>12. CASE DeleteExpired
  <2>1. /\ pc = "delete_expired" /\ pc' = "idle" /\ stored' = [stored EXCEPT ![<<key, version>>] = None]
        /\ UNCHANGED <<known, faults, index, current, restarts>>
    BY <1>12 DEF DeleteExpired, StoreDelete, StoreDeleteRaises, Raises, Return
  <2>2. VisibleAreAccounted /\ StoredAreKnown
    BY <2>1
  <2>3. ASSUME NEW a \in Artifacts, stored'[a] # None PROVE stored[a] # None /\ stored'[a] = stored[a] /\ a # <<key, version>>
    BY <2>1, <2>3
  <2>4. StoredAreKnown'
    BY <2>1, <2>2, <2>3
  <2>5. ASSUME NEW a \in Artifacts, Found(a)' # None PROVE index'[a[1]] = a[2] /\ a[2] \in current'[a[1]]
    <3>1. a \in known /\ stored'[a] # None
      BY <2>1, <2>5
    <3>2. Found(a) # None /\ a # <<key, version>>
      BY <2>3, <3>1
    <3>3. Accounted(a) /\ a[2] \in current[a[1]]
      BY <2>1, <2>2, <3>2
    <3>4. QED
      BY <2>1, <3>2, <3>3
  <2>6. VisibleAreAccounted'
    BY <2>1, <2>5
  <2>7. QED
    BY <2>4, <2>6
<1>13. ASSUME NEW filter \in SUBSET Keys, BeginInvalidate(filter) PROVE VisibleAreAccounted' /\ StoredAreKnown'
  BY <1>13 DEF BeginInvalidate, Begin
<1>14. ASSUME NEW k \in Keys, Invalidate(k) PROVE VisibleAreAccounted' /\ StoredAreKnown'
  BY <1>14 DEF Invalidate, StoreDelete, Visited, Return
<1>15. ASSUME NEW k \in Keys, InvalidateRaises(k) PROVE VisibleAreAccounted' /\ StoredAreKnown'
  BY <1>15 DEF InvalidateRaises, StoreDeleteRaises, Raises, Return
<1>16. CASE BeginPurge
  BY <1>16 DEF BeginPurge, Begin
<1>17. ASSUME NEW k \in Keys, PurgeMissing(k) PROVE VisibleAreAccounted' /\ StoredAreKnown'
  BY <1>17 DEF PurgeMissing, Visited, Return
<1>18. ASSUME NEW k \in Keys, PurgeFresh(k) PROVE VisibleAreAccounted' /\ StoredAreKnown'
  BY <1>18 DEF PurgeFresh, Visited, Return
<1>19. ASSUME NEW k \in Keys, PurgeExpired(k) PROVE VisibleAreAccounted' /\ StoredAreKnown'
  <2>1. PICK v : v = index[k]
    OBVIOUS
  <2>2. /\ pc = "purge" /\ pc' \in {"idle", "purge"} /\ stored' = [stored EXCEPT ![<<k, v>>] = None]
        /\ index' = [index EXCEPT ![k] = None] /\ UNCHANGED <<known, faults, current, restarts>>
    BY <1>19, <2>1 DEF PurgeExpired, StoreDelete, StoreDeleteRaises, Raises, Visited, Return
  <2>3. VisibleAreAccounted /\ StoredAreKnown
    BY <2>2
  <2>4. ASSUME NEW a \in Artifacts, stored'[a] # None PROVE stored[a] # None /\ stored'[a] = stored[a] /\ a # <<k, v>>
    BY <2>2, <2>4
  <2>5. StoredAreKnown'
    BY <2>2, <2>3, <2>4
  <2>6. ASSUME NEW a \in Artifacts, Found(a)' # None PROVE index'[a[1]] = a[2] /\ a[2] \in current'[a[1]]
    <3>1. a \in known /\ stored'[a] # None
      BY <2>2, <2>6
    <3>2. Found(a) # None /\ a # <<k, v>>
      BY <2>4, <3>1
    <3>3. index[a[1]] = a[2] /\ a[2] \in current[a[1]]
      BY <2>2, <2>3, <3>2
    <3>4. a[1] # k
      BY <2>1, <3>2, <3>3
    <3>5. QED
      BY <2>2, <3>3, <3>4
  <2>7. VisibleAreAccounted'
    BY <2>2, <2>6
  <2>8. QED
    BY <2>5, <2>7
<1>20. ASSUME NEW k \in Keys, PurgeRaises(k) PROVE VisibleAreAccounted' /\ StoredAreKnown'
  BY <1>20 DEF PurgeRaises, StoreGetRaises, Raises, Return
<1>21. CASE BeginRebuild
  BY <1>21 DEF BeginRebuild, Begin, Persisted
<1>22. CASE BeginRebuildEmpty
  BY <1>22 DEF BeginRebuildEmpty, Begin, Persisted, Raises
<1>23. ASSUME NEW a \in Artifacts, RebuildMissing(a) PROVE VisibleAreAccounted' /\ StoredAreKnown'
  BY <1>23 DEF RebuildMissing, Visited, Return
<1>24. ASSUME NEW a \in Artifacts, RebuildExpired(a) PROVE VisibleAreAccounted' /\ StoredAreKnown'
  BY <1>24 DEF RebuildExpired, StoreDelete, StoreDeleteRaises, Raises, Visited, Return
<1>25. ASSUME NEW a \in Artifacts, RebuildFresh(a) PROVE VisibleAreAccounted' /\ StoredAreKnown'
  BY <1>25 DEF RebuildFresh, Replaces, Visited, Return
<1>26. ASSUME NEW a \in Artifacts, RebuildRaises(a) PROVE VisibleAreAccounted' /\ StoredAreKnown'
  BY <1>26 DEF RebuildRaises, StoreGetRaises, Raises, Return
<1>27. CASE Tick
  BY <1>27 DEF Tick
<1>28. CASE Restart
  BY <1>28 DEF Restart, Return
<1>29. CASE UNCHANGED vars
  BY <1>29 DEF vars
<1>30. QED
  BY <1>1, <1>2, <1>3, <1>4, <1>5, <1>6, <1>7, <1>8, <1>9, <1>10, <1>11, <1>12, <1>13, <1>14, <1>15, <1>16, <1>17, <1>18, <1>19, <1>20, <1>21, <1>22, <1>23, <1>24, <1>25, <1>26, <1>27, <1>28, <1>29 DEF Next

LEMMA CInvStep == CInv /\ [Next]_vars => CInv'
BY ShapeStep, IndexIsCurrentStep, AccountedStep DEF CInv

\* A hit is of a version that the last put of the key stored, or that a failed
\* call may have left, however gets, purges, invalidations, rebuilds, failures,
\* crashes and the clock interleave; for any keys, versions and lifetimes.
THEOREM HitsAreCurrent == Spec => []HitIsCurrent
<1>1. CInv => HitIsCurrent
  BY DEF CInv
<1>2. QED
  BY <1>1, CInvInit, CInvStep, PTL DEF Spec

\* Between two calls, and until a store call fails or the process restarts, every
\* stored artifact is the one the index names for its key: no put, purge, get,
\* invalidation or rebuild leaves one behind.
THEOREM StoreHoldsWhatIsIndexed == Spec => []StoredIsIndexed
<1>1. CInv => StoredIsIndexed
  <2>1. SUFFICES ASSUME CInv, pc = "idle", faults = 0, restarts = 0, NEW k \in Keys, NEW v \in Versions,
                        stored[<<k, v>>] # None
                 PROVE  index[k] = v /\ v \in current[k]
    BY DEF StoredIsIndexed
  <2>2. Found(<<k, v>>) # None
    BY <2>1, ArtifactParts DEF CInv, StoredAreKnown, Found
  <2>3. QED
    BY <2>1, <2>2, ArtifactParts DEF CInv, VisibleAreAccounted, Accounted
<1>2. QED
  BY <1>1, CInvInit, CInvStep, PTL DEF Spec

-----------------------------------------------------------------------------
(* What a rebuild indexes.                                                  *)

\* The artifacts of k that are not in todo and that a rebuild may index.
Fresh(k, left) == {v \in Versions : /\ <<k, v>> \notin left
                                    /\ Found(<<k, v>>) # None
                                    /\ ~Expired(Found(<<k, v>>), time)}

\* v is one of them that none of them outlives; there is none if there are none.
Best(k, left, v) ==
    IF Fresh(k, left) = {} THEN v = None
    ELSE /\ v \in Fresh(k, left)
         /\ \A w \in Fresh(k, left) : Found(<<k, w>>) <= Found(<<k, v>>)

RebuildSoFar == pc = "rebuild" => \A k \in Keys : Best(k, todo, index[k])

\* After the visit of a, the index names a fresh artifact of k that no visited one
\* outlives, if there is one.
LEMMA VisitKeepsBest ==
    ASSUME Shape, NEW a \in todo, pc = "rebuild", NEW k \in Keys, Best(k, todo, index[k]),
           \/ (Found(a) = None \/ Expired(Found(a), time)) /\ index' = index
           \/ /\ Found(a) # None /\ ~Expired(Found(a), time)
              /\ index' = IF Replaces(a) THEN [index EXCEPT ![a[1]] = a[2]] ELSE index
    PROVE  Best(k, todo \ {a}, index'[k])
<1> USE ArtifactParts DEF Shape, TypeOK, CallShape
<1>1. a \in Artifacts /\ \A v \in Versions : Found(<<k, v>>) # None => Found(<<k, v>>) \in Nat
  BY DEF Found, Times
<1>2. CASE k # a[1] \/ Found(a) = None \/ Expired(Found(a), time)
  <2>1. index'[k] = index[k]
    BY <1>1, <1>2
  <2>2. Fresh(k, todo \ {a}) = Fresh(k, todo)
    BY <1>1, <1>2 DEF Fresh
  <2>3. QED
    BY <2>1, <2>2 DEF Best
<1>3. CASE k = a[1] /\ Found(a) # None /\ ~Expired(Found(a), time)
  <2>1. Fresh(k, todo \ {a}) = Fresh(k, todo) \cup {a[2]}
    BY <1>1, <1>3 DEF Fresh
  <2>2. Found(a) = Found(<<k, a[2]>>) /\ Found(a) \in Nat /\ \A v \in Fresh(k, todo) : Found(<<k, v>>) \in Nat
    BY <1>1, <1>3 DEF Fresh
  <2>2a. Found(<<k, a[2]>>) <= Found(<<k, a[2]>>)
    <3>1. Found(<<k, a[2]>>) \in Nat
      BY <2>2
    <3> DEFINE f == Found(<<k, a[2]>>)
    <3>2. f \in Nat => f <= f
      <4> HIDE DEF f
      <4> QED  OBVIOUS
    <3>3. QED
      BY <3>1, <3>2
  <2>3. CASE Fresh(k, todo) = {}
    <3>1. index[k] = None
      BY <2>3 DEF Best
    <3>2. index'[k] = a[2]
      BY <1>1, <1>3, <3>1 DEF Replaces
    <3>3. Fresh(k, todo \ {a}) = {a[2]}
      BY <2>1, <2>3
    <3>4. QED
      BY <2>2a, <3>2, <3>3 DEF Best
  <2>4. CASE Fresh(k, todo) # {} /\ Found(a) > Found(<<k, index[k]>>)
    <3>1. index'[k] = a[2]
      BY <1>1, <1>3, <2>4 DEF Replaces
    <3>2. \A v \in Fresh(k, todo) : Found(<<k, v>>) <= Found(<<k, a[2]>>)
      BY <2>2, <2>4 DEF Best
    <3>3. QED
      BY <2>1, <2>2a, <3>1, <3>2 DEF Best
  <2>5. CASE Fresh(k, todo) # {} /\ ~(Found(a) > Found(<<k, index[k]>>))
    <3>0. index[k] \in Fresh(k, todo)
      BY <2>5 DEF Best
    <3>1. index[k] # None /\ Found(<<k, index[k]>>) # None
      BY <3>0, CacheAssumption DEF Fresh
    <3>2. index'[k] = index[k]
      BY <1>1, <1>3, <2>5, <3>1 DEF Replaces
    <3>3. Found(<<k, a[2]>>) <= Found(<<k, index[k]>>)
      BY <2>2, <2>5, <3>0
    <3>4. QED
      BY <2>1, <2>5, <3>0, <3>2, <3>3 DEF Best
  <2>6. QED
    BY <2>3, <2>4, <2>5
<1>4. QED
  BY <1>2, <1>3

\* Every visit that does not end in a failure.
LEMMA Visits ==
    ASSUME Shape, pc = "rebuild", RebuildSoFar, NEW a \in Artifacts, faults' = faults,
           RebuildMissing(a) \/ RebuildExpired(a) \/ RebuildFresh(a) \/ RebuildRaises(a)
    PROVE  /\ a \in todo
           /\ \A k \in Keys : Best(k, todo \ {a}, index'[k])
           /\ \/ pc' = "idle" /\ todo = {a}
              \/ pc' = "rebuild" /\ todo' = todo \ {a} /\ time' = time
           /\ known' = known
           /\ stored' = stored \/ (Expired(Found(a), time) /\ stored' = [stored EXCEPT ![a] = None])
<1> USE DEF store, locals
<1>1. CASE RebuildMissing(a)
  BY <1>1, VisitKeepsBest DEF RebuildSoFar, RebuildMissing, Visited, Return
<1>2. CASE RebuildExpired(a)
  <2>1. StoreDelete(a) /\ Visited(a) /\ index' = index /\ a \in todo /\ Expired(Found(a), time)
    BY <1>2 DEF RebuildExpired, StoreDeleteRaises, Raises, Shape, TypeOK
  <2>2. QED
    BY <2>1, VisitKeepsBest DEF RebuildSoFar, StoreDelete, Visited, Return
<1>3. CASE RebuildFresh(a)
  BY <1>3, VisitKeepsBest DEF RebuildSoFar, RebuildFresh, Visited, Return
<1>4. CASE RebuildRaises(a)
  BY <1>4 DEF RebuildRaises, StoreGetRaises, Raises, Shape, TypeOK
<1>5. QED
  BY <1>1, <1>2, <1>3, <1>4

\* In a rebuild nothing else happens but the passing of time and the end of the
\* process.
LEMMA InRebuild ==
    ASSUME Shape, [Next]_vars, pc = "rebuild"
    PROVE  \/ \E a \in Artifacts : RebuildMissing(a) \/ RebuildExpired(a) \/ RebuildFresh(a) \/ RebuildRaises(a)
           \/ UNCHANGED <<stored, known, index, pc, time, todo, faults, restarts>>
           \/ Restart
BY DEF Next, vars, store, locals, Tick, BeginPut, Begin, Put, PutRaises, DeletePrevious, DeletePreviousRaises, BeginGet, Get,
       GetMissing, GetOtherVersion, GetExpired, GetRaises, DeleteExpired, BeginInvalidate, Invalidate,
       InvalidateRaises, BeginPurge, PurgeMissing, PurgeFresh, PurgeExpired, PurgeRaises, BeginRebuild,
       BeginRebuildEmpty

LEMMA RebuildStarts ==
    ASSUME Shape, [Next]_vars, pc # "rebuild", pc' = "rebuild"
    PROVE  BeginRebuild
BY DEF Next, vars, store, locals, Tick, BeginPut, Begin, Put, Goto, Return, Visited, PutRaises, DeletePrevious,
       DeletePreviousRaises, Register, BeginGet, Get, GetMissing, GetOtherVersion, GetExpired, GetRaises, DeleteExpired,
       BeginInvalidate, Invalidate, InvalidateRaises, BeginPurge, PurgeMissing, PurgeFresh, PurgeExpired, PurgeRaises,
       BeginRebuildEmpty, RebuildMissing, RebuildExpired, RebuildFresh, RebuildRaises, Restart

LEMMA RebuildSoFarStep == Shape /\ Shape' /\ RebuildSoFar /\ [Next]_vars => RebuildSoFar'
<1> SUFFICES ASSUME Shape, Shape', RebuildSoFar, [Next]_vars, pc' = "rebuild", NEW k \in Keys
             PROVE  Best(k, todo, index[k])'
  BY DEF RebuildSoFar
<1>1. CASE pc # "rebuild"
  <2>1. BeginRebuild
    BY <1>1, RebuildStarts
  <2>2. index'[k] = None /\ \A v \in Versions : <<k, v>> \notin todo' => Found(<<k, v>>)' = None
    BY <2>1, ArtifactParts DEF BeginRebuild, Begin, Persisted, Found, store
  <2>3. Fresh(k, todo)' = {}
    BY <2>2 DEF Fresh
  <2>4. QED
    BY <2>2, <2>3 DEF Best
<1>2. ASSUME NEW a \in Artifacts, pc = "rebuild",
             RebuildMissing(a) \/ RebuildExpired(a) \/ RebuildFresh(a) \/ RebuildRaises(a)
      PROVE  Best(k, todo, index[k])'
  <2>0. faults' = faults
    BY <1>2 DEF RebuildMissing, RebuildExpired, RebuildFresh, RebuildRaises, StoreDelete, store, Return
  <2>1. /\ Best(k, todo \ {a}, index'[k]) /\ todo' = todo \ {a} /\ time' = time /\ known' = known
        /\ stored' = stored \/ (Expired(Found(a), time) /\ stored' = [stored EXCEPT ![a] = None])
    BY <1>2, <2>0, Visits
  <2>2. ASSUME NEW v \in Versions
        PROVE  \/ Found(<<k, v>>)' = Found(<<k, v>>)
               \/ /\ Found(<<k, v>>)' = None
                  /\ Expired(Found(<<k, v>>), time)
    BY <2>1, ArtifactParts DEF Found, Shape, TypeOK
  <2>3. Fresh(k, todo)' = Fresh(k, todo \ {a})
    BY <2>1, <2>2 DEF Fresh
  <2>4. \A v \in Fresh(k, todo \ {a}) : Found(<<k, v>>)' = Found(<<k, v>>)
    BY <2>2 DEF Fresh
  <2>5. QED
    BY <2>1, <2>3, <2>4 DEF Best
<1>3. CASE pc = "rebuild" /\ UNCHANGED <<stored, known, index, pc, time, todo>>
  BY <1>3 DEF RebuildSoFar, Best, Fresh, Found
<1>4. CASE Restart
  BY <1>4 DEF Restart, Return
<1>5. QED
  BY <1>1, <1>2, <1>3, <1>4, InRebuild

\* A rebuild that ends without a failure has indexed, for every key, the visible
\* artifact that lives longest, or none if all have expired, in whatever order the
\* store listed them.
THEOREM RebuildIndexesTheFreshest == Spec => RebuildFindsKnown
<1>1. Shape /\ RebuildSoFar /\ [Next]_vars => [RebuildEnds => IndexesFreshest(Found)]_vars
  <2>1. SUFFICES ASSUME Shape, RebuildSoFar, [Next]_vars, RebuildEnds, NEW k \in Keys
                 PROVE  Best(k, {}, index'[k])
    BY DEF IndexesFreshest, Best, Fresh
  <2>2. PICK a \in Artifacts : RebuildMissing(a) \/ RebuildExpired(a) \/ RebuildFresh(a) \/ RebuildRaises(a)
    BY <2>1, InRebuild DEF RebuildEnds, Restart, Shape, TypeOK
  <2>3. Best(k, todo \ {a}, index'[k]) /\ todo \ {a} = {}
    BY <2>1, <2>2, Visits DEF RebuildEnds
  <2>4. QED
    BY <2>3
<1>2. Init => RebuildSoFar
  BY DEF Init, RebuildSoFar
<1>3. QED
  BY <1>1, <1>2, ShapeInit, ShapeStep, RebuildSoFarStep, PTL DEF Spec, RebuildFindsKnown

=============================================================================
