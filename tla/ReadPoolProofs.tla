-------------------------- MODULE ReadPoolProofs --------------------------
(* The pool of connections for reading, for any number of connections and of    *)
(* readers, of whom any number of requests nest their queries.                  *)
EXTENDS ReadPool, FiniteSetTheorems, TLAPS

Inners == {r \in Readers : reads[r] = "inner"}

(* No connection is lost or made: each is in the pool, under rows that are open *)
(* or under inner rows.                                                         *)
Conserved == free + Cardinality(Holders) + Cardinality(Inners) = Conns

OnlyNestedNest == \A r \in Readers : reads[r] \in {"waiting inner", "inner"} => r \in Nested

PoolInv == PoolTypeOK /\ Conserved /\ OnlyNestedNest

States == {"idle", "waiting", "open", "waiting inner", "inner"}
Moved(r) == \E s \in States : Becomes(r, s)
One(r, S) == IF r \in S THEN 1 ELSE 0
RowsBounded == rowsLeft \in [Readers -> 0 .. MaxRows]
NestsRightly(r) == reads[r] \in {"waiting inner", "inner"} => r \in Nested
AllWait == \A r \in Holders : reads[r] = "waiting inner" /\ r \notin NestedRequests

LEMMA HoldersFinite ==
    /\ IsFiniteSet(Holders) /\ IsFiniteSet(Inners)
    /\ Cardinality(Holders) \in Nat /\ Cardinality(Inners) \in Nat
    /\ Inners \subseteq Holders /\ Holders \subseteq Readers
<1>1. Holders \subseteq Readers /\ Inners \subseteq Readers /\ Inners \subseteq Holders
    BY DEF Holders, Inners
<1>2. IsFiniteSet(Readers)
    BY PoolAssumption
<1>3. IsFiniteSet(Holders)
    <2>1. Holders \in SUBSET Readers
        BY <1>1
    <2> QED
        BY <1>2, <2>1, FS_Subset
<1>4. IsFiniteSet(Inners)
    <2>1. Inners \in SUBSET Readers
        BY <1>1
    <2> QED
        BY <1>2, <2>1, FS_Subset
<1> QED
    BY <1>1, <1>3, <1>4, FS_CardinalityType

(* A set that gains or loses one element, or stays. *)
LEMMA OneMore ==
    ASSUME NEW S, IsFiniteSet(S), NEW r, NEW T, T \ {r} = S \ {r}
    PROVE  /\ Cardinality(S) \in Nat /\ Cardinality(T) \in Nat
           /\ Cardinality(T) + One(r, S) = Cardinality(S) + One(r, T)
<1>0. PICK R : R = S \ {r}
    OBVIOUS
<1>1. IsFiniteSet(R)
    <2>1. IsFiniteSet(S \ {r})
        BY FS_RemoveElement
    <2> QED
        BY <1>0, <2>1
<1>2. Cardinality(R) \in Nat
    BY <1>1, FS_CardinalityType
<1>3. Cardinality(R \cup {r}) = Cardinality(R) + 1
    <2>1. r \notin R
        BY <1>0
    <2> QED
        BY <1>1, <2>1, FS_AddElement
<1>4. ASSUME NEW A, A \ {r} = R
      PROVE  Cardinality(A) = Cardinality(R) + One(r, A)
    <2>1. CASE r \in A
        <3>1. A = R \cup {r}
            BY <1>4, <2>1
        <3> QED
            BY <1>3, <2>1, <3>1 DEF One
    <2>2. CASE r \notin A
        <3>1. A = R
            BY <1>4, <2>2
        <3> QED
            BY <1>2, <2>2, <3>1 DEF One
    <2> QED
        BY <2>1, <2>2
<1>5. Cardinality(S) = Cardinality(R) + One(r, S)
    BY <1>0, <1>4
<1>6. Cardinality(T) = Cardinality(R) + One(r, T)
    BY <1>0, <1>4
<1>7. One(r, S) \in Nat /\ One(r, T) \in Nat
    BY DEF One
<1> QED
    BY <1>2, <1>5, <1>6, <1>7

(* What a change of one reader's state does to the two sets. *)
LEMMA OneReaderMoves ==
    ASSUME reads \in [Readers -> States], NEW r \in Readers, Moved(r)
    PROVE  /\ reads' \in [Readers -> States]
           /\ \A q \in Readers \ {r} : reads'[q] = reads[q]
           /\ Cardinality(Holders)' + One(r, Holders) = Cardinality(Holders) + One(r, Holders')
           /\ Cardinality(Inners)' + One(r, Inners) = Cardinality(Inners) + One(r, Inners')
           /\ Cardinality(Holders)' \in Nat /\ Cardinality(Inners)' \in Nat
<1>1. /\ reads' \in [Readers -> States]
      /\ \A q \in Readers \ {r} : reads'[q] = reads[q]
    BY DEF Moved, Becomes
<1>2. Holders' \ {r} = Holders \ {r} /\ Inners' \ {r} = Inners \ {r}
    BY <1>1 DEF Holders, Inners
<1>3. /\ Cardinality(Holders') \in Nat
      /\ Cardinality(Holders') + One(r, Holders) = Cardinality(Holders) + One(r, Holders')
    BY <1>2, HoldersFinite, OneMore
<1>4. /\ Cardinality(Inners') \in Nat
      /\ Cardinality(Inners') + One(r, Inners) = Cardinality(Inners) + One(r, Inners')
    BY <1>2, HoldersFinite, OneMore
<1> QED
    BY <1>1, <1>3, <1>4

Typed ==
    /\ free \in Int /\ free >= 0 /\ free <= Conns /\ Conns \in Nat /\ MaxRows \in Nat
    /\ reads \in [Readers -> States]
    /\ rowsLeft \in [Readers -> 0 .. MaxRows]

LEMMA InvTyped == PoolInv => Typed
<1> SUFFICES ASSUME PoolInv PROVE Typed
    OBVIOUS
<1>1. /\ free \in 0 .. Conns
      /\ reads \in [Readers -> States]
      /\ rowsLeft \in [Readers -> 0 .. MaxRows]
    BY DEF PoolInv, PoolTypeOK, States
<1>2. Conns \in Nat /\ MaxRows \in Nat
    BY PoolAssumption
<1>3. free \in Int /\ free >= 0 /\ free <= Conns
    BY <1>1, <1>2
<1> QED
    BY <1>1, <1>2, <1>3 DEF Typed

(* A step of one reader that takes from the pool, or gives back, as much as the *)
(* reader then holds more or less.                                              *)
LEMMA Moving ==
    ASSUME PoolInv, NEW r \in Readers, Moved(r),
           free' \in Int, free' >= 0,
           free' + One(r, Holders') + One(r, Inners')
               = free + One(r, Holders) + One(r, Inners),
           NestsRightly(r)', RowsBounded'
    PROVE  PoolInv'
<1>1. Typed
    BY InvTyped
<1>2. /\ reads' \in [Readers -> States]
      /\ \A q \in Readers \ {r} : reads'[q] = reads[q]
      /\ Cardinality(Holders)' + One(r, Holders) = Cardinality(Holders) + One(r, Holders')
      /\ Cardinality(Inners)' + One(r, Inners) = Cardinality(Inners) + One(r, Inners')
      /\ Cardinality(Holders)' \in Nat /\ Cardinality(Inners)' \in Nat
    BY <1>1, OneReaderMoves DEF Typed
<1>3. \A S : One(r, S) \in {0, 1}
    BY DEF One
<1>4. /\ One(r, Holders) \in Nat /\ One(r, Inners) \in Nat
      /\ One(r, Holders') \in Nat /\ One(r, Inners') \in Nat
    BY <1>3
<1>5. /\ free + Cardinality(Holders) + Cardinality(Inners) = Conns
      /\ Cardinality(Holders) \in Nat /\ Cardinality(Inners) \in Nat
      /\ free \in Int /\ Conns \in Nat
    <2>1. free + Cardinality(Holders) + Cardinality(Inners) = Conns
        BY DEF PoolInv, Conserved
    <2>2. free \in Int /\ Conns \in Nat
        BY <1>1 DEF Typed
    <2> QED
        BY <2>1, <2>2, HoldersFinite
<1>6. free' + Cardinality(Holders)' + Cardinality(Inners)' = Conns
    <2>1. /\ Cardinality(Holders)' + One(r, Holders) = Cardinality(Holders) + One(r, Holders')
          /\ Cardinality(Inners)' + One(r, Inners) = Cardinality(Inners) + One(r, Inners')
          /\ Cardinality(Holders)' \in Nat /\ Cardinality(Inners)' \in Nat
        BY <1>2
    <2> QED
        BY <1>4, <1>5, <2>1
<1>7. free' \in 0 .. Conns
    <2>1. Cardinality(Holders)' \in Nat /\ Cardinality(Inners)' \in Nat
        BY <1>2
    <2> QED
        BY <1>5, <1>6, <2>1
<1>8. OnlyNestedNest'
    BY <1>2 DEF PoolInv, OnlyNestedNest, NestsRightly
<1>9. PoolTypeOK'
    BY <1>2, <1>7 DEF PoolTypeOK, States, RowsBounded
<1> QED
    BY <1>6, <1>8, <1>9 DEF PoolInv, Conserved

LEMMA PoolStep == PoolInv /\ [PoolNext]_poolVars => PoolInv'
<1> SUFFICES ASSUME PoolInv, [PoolNext]_poolVars PROVE PoolInv'
    OBVIOUS
<1>1. /\ free \in Int /\ free >= 0 /\ Conns \in Nat /\ MaxRows \in Nat
      /\ reads \in [Readers -> States]
      /\ rowsLeft \in [Readers -> 0 .. MaxRows]
    BY InvTyped DEF Typed
<1>2. \A r \in Readers : reads[r] \in {"waiting inner", "inner"} => r \in Nested
    BY DEF PoolInv, OnlyNestedNest
<1>0. free \in Int /\ free >= 0
    BY <1>1
<1>3. ASSUME NEW r \in Readers, Ask(r) PROVE PoolInv'
    <2>1. Moved(r)
        BY <1>3 DEF Ask, Moved, Becomes, States
    <2>2. reads'[r] = "waiting" /\ reads[r] = "idle"
        BY <1>1, <1>3 DEF Ask, Becomes
    <2>9. free' = free
        BY <1>3 DEF Ask
    <2>3. NestsRightly(r)'
        BY <1>2, <2>2 DEF NestsRightly
    <2>6. RowsBounded'
        BY <1>1, <1>3 DEF Ask, RowsBounded
    <2>7. /\ One(r, Holders) = 0 /\ One(r, Inners) = 0
          /\ One(r, Holders') = 0 /\ One(r, Inners') = 0
        BY <2>2 DEF One, Holders, Inners
    <2>8. /\ free' \in Int /\ free' >= 0
          /\ free' + One(r, Holders') + One(r, Inners')
                 = free + One(r, Holders) + One(r, Inners)
        BY <1>0, <2>7, <2>9
    <2> QED
        BY <2>1, <2>3, <2>6, <2>8, Moving
<1>4. ASSUME NEW r \in Readers, Open(r) PROVE PoolInv'
    <2>1. Moved(r)
        BY <1>4 DEF Open, Moved, Becomes, States
    <2>2. reads'[r] = "open" /\ reads[r] = "waiting"
        BY <1>1, <1>4 DEF Open, Becomes
    <2>9. free' = free - 1 /\ free > 0
        BY <1>4 DEF Open
    <2>3. NestsRightly(r)'
        BY <1>2, <2>2 DEF NestsRightly
    <2>6. RowsBounded'
        BY <1>1, <1>4 DEF Open, RowsBounded
    <2>7. /\ One(r, Holders) = 0 /\ One(r, Inners) = 0
          /\ One(r, Holders') = 1 /\ One(r, Inners') = 0
        BY <2>2 DEF One, Holders, Inners
    <2>8. /\ free' \in Int /\ free' >= 0
          /\ free' + One(r, Holders') + One(r, Inners')
                 = free + One(r, Holders) + One(r, Inners)
        BY <1>0, <2>7, <2>9
    <2> QED
        BY <2>1, <2>3, <2>6, <2>8, Moving
<1>5. ASSUME NEW r \in Readers, NextRow(r) PROVE PoolInv'
    <2>1. Moved(r)
        BY <1>5 DEF NextRow, Moved, Becomes, States
    <2>2. reads'[r] \in {"open", "waiting inner"} /\ reads[r] = "open"
        BY <1>1, <1>5 DEF NextRow, Becomes
    <2>9. free' = free
        BY <1>5 DEF NextRow
    <2>3. NestsRightly(r)'
        BY <1>1, <1>5 DEF NextRow, Becomes, NestsRightly
    <2>4. rowsLeft[r] \in 0 .. MaxRows /\ rowsLeft[r] > 0
        BY <1>1, <1>5 DEF NextRow
    <2>5. rowsLeft[r] - 1 \in 0 .. MaxRows
        BY <1>1, <2>4
    <2>6. RowsBounded'
        BY <1>1, <1>5, <2>5 DEF NextRow, RowsBounded
    <2>7. /\ One(r, Holders) = 1 /\ One(r, Inners) = 0
          /\ One(r, Holders') = 1 /\ One(r, Inners') = 0
        BY <2>2 DEF One, Holders, Inners
    <2>8. /\ free' \in Int /\ free' >= 0
          /\ free' + One(r, Holders') + One(r, Inners')
                 = free + One(r, Holders) + One(r, Inners)
        BY <1>0, <2>7, <2>9
    <2> QED
        BY <2>1, <2>3, <2>6, <2>8, Moving
<1>6. ASSUME NEW r \in Readers, OpenInner(r) PROVE PoolInv'
    <2>1. Moved(r)
        BY <1>6 DEF OpenInner, Moved, Becomes, States
    <2>2. reads'[r] = "inner" /\ reads[r] = "waiting inner"
        BY <1>1, <1>6 DEF OpenInner, Becomes
    <2>9. free' = free - 1 /\ free > 0
        BY <1>6 DEF OpenInner
    <2>3. NestsRightly(r)'
        BY <1>2, <2>2 DEF NestsRightly
    <2>6. RowsBounded'
        BY <1>1, <1>6 DEF OpenInner, RowsBounded
    <2>7. /\ One(r, Holders) = 1 /\ One(r, Inners) = 0
          /\ One(r, Holders') = 1 /\ One(r, Inners') = 1
        BY <2>2 DEF One, Holders, Inners
    <2>8. /\ free' \in Int /\ free' >= 0
          /\ free' + One(r, Holders') + One(r, Inners')
                 = free + One(r, Holders) + One(r, Inners)
        BY <1>0, <2>7, <2>9
    <2> QED
        BY <2>1, <2>3, <2>6, <2>8, Moving
<1>7. ASSUME NEW r \in Readers, CloseInner(r) PROVE PoolInv'
    <2>1. Moved(r)
        BY <1>7 DEF CloseInner, Moved, Becomes, States
    <2>2. reads'[r] = "open" /\ reads[r] = "inner"
        BY <1>1, <1>7 DEF CloseInner, Becomes
    <2>9. free' = free + 1
        BY <1>7 DEF CloseInner
    <2>3. NestsRightly(r)'
        BY <1>2, <2>2 DEF NestsRightly
    <2>6. RowsBounded'
        BY <1>1, <1>7 DEF CloseInner, RowsBounded
    <2>7. /\ One(r, Holders) = 1 /\ One(r, Inners) = 1
          /\ One(r, Holders') = 1 /\ One(r, Inners') = 0
        BY <2>2 DEF One, Holders, Inners
    <2>8. /\ free' \in Int /\ free' >= 0
          /\ free' + One(r, Holders') + One(r, Inners')
                 = free + One(r, Holders) + One(r, Inners)
        BY <1>0, <2>7, <2>9
    <2> QED
        BY <2>1, <2>3, <2>6, <2>8, Moving
<1>8. ASSUME NEW r \in Readers, CloseRows(r) PROVE PoolInv'
    <2>1. Moved(r)
        BY <1>8 DEF CloseRows, Moved, Becomes, States
    <2>2. reads'[r] = "idle" /\ reads[r] = "open"
        BY <1>1, <1>8 DEF CloseRows, Becomes
    <2>9. free' = free + 1
        BY <1>8 DEF CloseRows
    <2>3. NestsRightly(r)'
        BY <1>2, <2>2 DEF NestsRightly
    <2>6. RowsBounded'
        BY <1>1, <1>8 DEF CloseRows, RowsBounded
    <2>7. /\ One(r, Holders) = 1 /\ One(r, Inners) = 0
          /\ One(r, Holders') = 0 /\ One(r, Inners') = 0
        BY <2>2 DEF One, Holders, Inners
    <2>8. /\ free' \in Int /\ free' >= 0
          /\ free' + One(r, Holders') + One(r, Inners')
                 = free + One(r, Holders) + One(r, Inners)
        BY <1>0, <2>7, <2>9
    <2> QED
        BY <2>1, <2>3, <2>6, <2>8, Moving
<1>9. ASSUME NEW r \in Readers, Abort(r) PROVE PoolInv'
    <2>1. Moved(r)
        BY <1>9 DEF Abort, Moved, Becomes, States
    <2>2. reads'[r] = "idle" /\ free' = free + Held(reads[r])
        BY <1>1, <1>9 DEF Abort, Becomes, Returned
    <2>3. 0 \in 0 .. MaxRows
        BY <1>1
    <2>4. RowsBounded'
        BY <1>1, <1>9, <2>3 DEF Abort, RowsBounded
    <2>5. One(r, Holders') = 0 /\ One(r, Inners') = 0
        BY <2>2 DEF One, Holders, Inners
    <2>6. Held(reads[r]) = One(r, Holders) + One(r, Inners)
        <3>1. CASE reads[r] \in {"open", "waiting inner"}
            <4>1. Held(reads[r]) = 1
                BY <3>1 DEF Held
            <4>2. One(r, Holders) = 1 /\ One(r, Inners) = 0
                BY <3>1 DEF One, Holders, Inners
            <4> QED
                BY <4>1, <4>2
        <3>2. CASE reads[r] = "inner"
            <4>1. Held(reads[r]) = 2
                BY <3>2 DEF Held
            <4>2. One(r, Holders) = 1 /\ One(r, Inners) = 1
                BY <3>2 DEF One, Holders, Inners
            <4> QED
                BY <4>1, <4>2
        <3>3. CASE reads[r] \notin {"open", "waiting inner", "inner"}
            <4>1. Held(reads[r]) = 0
                BY <3>3 DEF Held
            <4>2. One(r, Holders) = 0 /\ One(r, Inners) = 0
                BY <3>3 DEF One, Holders, Inners
            <4> QED
                BY <4>1, <4>2
        <3> QED
            BY <3>1, <3>2, <3>3
    <2>7. One(r, Holders) \in Nat /\ One(r, Inners) \in Nat
        BY DEF One
    <2>8. /\ free' \in Int /\ free' >= 0
          /\ free' + One(r, Holders') + One(r, Inners')
                 = free + One(r, Holders) + One(r, Inners)
        BY <1>0, <2>2, <2>5, <2>6, <2>7
    <2>9. NestsRightly(r)'
        BY <2>2 DEF NestsRightly
    <2> QED
        BY <2>1, <2>4, <2>8, <2>9, Moving
<1>10. CASE UNCHANGED poolVars
    <2>1. free' = free /\ reads' = reads /\ rowsLeft' = rowsLeft
        BY <1>10 DEF poolVars
    <2>2. Holders' = Holders /\ Inners' = Inners
        BY <2>1 DEF Holders, Inners
    <2>3. Conserved'
        BY <2>1, <2>2 DEF PoolInv, Conserved
    <2>4. PoolTypeOK' /\ OnlyNestedNest'
        BY <2>1 DEF PoolInv, PoolTypeOK, OnlyNestedNest
    <2> QED
        BY <2>3, <2>4 DEF PoolInv
<1> QED
    BY <1>3, <1>4, <1>5, <1>6, <1>7, <1>8, <1>9, <1>10 DEF PoolNext, ReadStep

(* When all that hold a connection waited for a second one and none of them     *)
(* was a request, the connections held would be as many as they, who are fewer  *)
(* than the connections.                                                        *)
LEMMA NotAllWait == PoolInv => CircleTakesRequest
<1> SUFFICES ASSUME PoolInv, free = 0, AllWait PROVE FALSE
    BY DEF CircleTakesRequest, AllWait
<1>1. Holders \subseteq NestedJobs
    BY DEF PoolInv, OnlyNestedNest, Holders, AllWait, Nested
<1>2. NestedJobs \subseteq Readers
    BY DEF Readers, Nested
<1>3. Cardinality(Holders) <= Cardinality(NestedJobs) /\ Cardinality(NestedJobs) \in Nat
    <2>1. Holders \in SUBSET NestedJobs /\ NestedJobs \in SUBSET Readers
        BY <1>1, <1>2
    <2>2. IsFiniteSet(Readers)
        BY PoolAssumption
    <2>3. IsFiniteSet(NestedJobs)
        BY <2>1, <2>2, FS_Subset
    <2> QED
        BY <2>1, <2>3, FS_Subset, FS_CardinalityType
<1>4. Inners = {}
    BY DEF Inners, Holders, AllWait
<1>5. Cardinality(Inners) = 0
    BY <1>4, FS_EmptySet
<1>6. Conns \in Nat /\ Cardinality(NestedJobs) < Conns
    BY PoolAssumption
<1> QED
    BY <1>3, <1>5, <1>6, HoldersFinite DEF PoolInv, Conserved

LEMMA PoolStarts == PoolInit => PoolInv
<1> SUFFICES ASSUME PoolInit PROVE PoolInv
    OBVIOUS
<1>1. Holders = {} /\ Inners = {}
    BY DEF PoolInit, Holders, Inners
<1>2. Cardinality(Holders) = 0 /\ Cardinality(Inners) = 0
    BY <1>1, FS_EmptySet
<1> QED
    BY <1>2, PoolAssumption DEF PoolInit, PoolInv, PoolTypeOK, Conserved, OnlyNestedNest

(* No path of a query, not one that fails between its rows nor one whose client *)
(* goes away, keeps a connection or gives one back twice (rows.Close in         *)
(* notifications.go and health_checks.go, which is deferred).                   *)
THEOREM ConnectionsAreConserved == PoolSpec => [](PoolTypeOK /\ Conserved)
<1>1. PoolInv => PoolTypeOK /\ Conserved
    BY DEF PoolInv
<1> QED
    BY <1>1, PoolStarts, PoolStep, PTL DEF PoolSpec

(* However many requests nest their queries: when nobody can go on, one of them *)
(* is in the circle, and the goroutines of the process never block each other   *)
(* (Store.reader of store_impl.go with ListNotificationRules and GetChecksDue). *)
THEOREM JobsNeverBlock == PoolSpec => []CircleTakesRequest
<1> QED
    BY PoolStarts, NotAllWait, PoolStep, PTL DEF PoolSpec
=============================================================================
