-------------------------- MODULE OffsetPagesProofs ---------------------------
(* What offset paging is worth, for any number of rows, any limit and any    *)
(* writes between the pages.  The core is that the rows of an answer have    *)
(* the places 0, 1, 2, ... without a gap, because no two rows are equal in   *)
(* the order: a page with a row behind it is full.                           *)
EXTENDS OffsetPages, FiniteSetTheorems, WellFoundedInduction, TLAPS

(* A set of natural numbers has a least element.                             *)
LEMMA HasMinimum ==
    ASSUME NEW S, S \subseteq Nat, S # {}
    PROVE  \E m \in S : \A n \in S : m <= n
<1>1. PICK m \in S : \A n \in S : ~(<<n, m>> \in OpToRel(<, Nat))
  <2> DEFINE R == OpToRel(<, Nat)
  <2>1. IsWellFoundedOn(R, Nat)
    BY NatLessThanWellFounded
  <2> HIDE DEF R
  <2>2. \E m \in S : \A n \in S : ~(<<n, m>> \in R)
    BY <2>1, WFMin
  <2> QED BY <2>2 DEF R
<1>2. \A n \in S : ~(n < m)
  BY <1>1 DEF OpToRel
<1> QED BY <1>2

-----------------------------------------------------------------------------
(* Places.                                                                   *)

Ahead(T, r) == {s \in T : Before(s, r)}
PlaceIn(T, r) == Cardinality(Ahead(T, r))
Upto(T, k) == {r \in T : PlaceIn(T, r) < k}

LEMMA PlaceTyped ==
    ASSUME NEW T, IsFiniteSet(T), NEW r
    PROVE  IsFiniteSet(Ahead(T, r)) /\ PlaceIn(T, r) \in Nat
<1>1. Ahead(T, r) \in SUBSET T
  BY DEF Ahead
<1> QED BY <1>1, FS_Subset, FS_CardinalityType DEF PlaceIn

(* What goes before a row stays before it when rows are added.               *)
LEMMA PlaceGrows ==
    ASSUME NEW T, NEW U, IsFiniteSet(T), IsFiniteSet(U), NEW r, Ahead(T, r) \subseteq U
    PROVE  PlaceIn(T, r) <= PlaceIn(U, r)
<1>1. Ahead(T, r) \in SUBSET Ahead(U, r)
  BY DEF Ahead
<1> QED BY <1>1, PlaceTyped, FS_Subset DEF PlaceIn

LEMMA PlaceIncreases ==
    ASSUME NEW T, T \subseteq Row, IsFiniteSet(T), NEW r \in T, NEW s \in T, Before(s, r)
    PROVE  PlaceIn(T, s) < PlaceIn(T, r)
<1>1. Ahead(T, s) \in SUBSET Ahead(T, r)
  BY DEF Ahead, Before, Row
<1>2. s \in Ahead(T, r) /\ s \notin Ahead(T, s)
  BY DEF Ahead, Before, Row
<1>3. Cardinality(Ahead(T, s)) <= Cardinality(Ahead(T, r)) /\ Cardinality(Ahead(T, r)) # Cardinality(Ahead(T, s))
  BY <1>1, <1>2, PlaceTyped, FS_Subset
<1> QED BY <1>3, PlaceTyped DEF PlaceIn

(* The rows with a place below k are k rows, while there are so many.        *)
LEMMA Ranks ==
    ASSUME NEW T, T \subseteq Row, IsFiniteSet(T), NEW k \in Nat, k <= Cardinality(T)
    PROVE  IsFiniteSet(Upto(T, k)) /\ Cardinality(Upto(T, k)) = k
<1>0. \A n : Upto(T, n) \in SUBSET T /\ IsFiniteSet(Upto(T, n)) /\ Cardinality(Upto(T, n)) \in Nat
  BY FS_Subset, FS_CardinalityType DEF Upto
<1> DEFINE Bad == {n \in Nat : n <= Cardinality(T) /\ Cardinality(Upto(T, n)) # n}
<1>1. SUFFICES ASSUME Bad # {} PROVE FALSE
  BY <1>0
<1>2. PICK m \in Bad : \A n \in Bad : m <= n
  BY <1>1, HasMinimum
<1>3. m # 0
  <2>1. Upto(T, 0) = {}
    BY PlaceTyped DEF Upto
  <2> QED BY <1>2, <2>1, FS_EmptySet
<1> DEFINE P == Upto(T, m - 1)
<1>4. Cardinality(P) = m - 1 /\ m - 1 \in Nat
  <2>1. m \in Nat /\ m - 1 \in Nat /\ m - 1 <= Cardinality(T)
    BY <1>2, <1>3, FS_CardinalityType
  <2>2. m - 1 \notin Bad
    BY <1>2, <2>1
  <2> QED BY <2>1, <2>2
<1>5. P # T /\ P \subseteq T /\ IsFiniteSet(P)
  BY <1>0, <1>2, <1>4, FS_CardinalityType
<1> HIDE DEF P
<1>6. PICK f \in T \ P : \A r \in T \ P : PlaceIn(T, f) <= PlaceIn(T, r)
  <2> DEFINE Places == {PlaceIn(T, r) : r \in T \ P}
  <2>1. Places \subseteq Nat /\ Places # {}
    BY <1>5, PlaceTyped
  <2>2. PICK least \in Places : \A n \in Places : least <= n
    BY <2>1, HasMinimum
  <2> QED BY <2>2
<1>7. \A s \in T : Before(s, f) => s \in P
  <2> SUFFICES ASSUME NEW s \in T, Before(s, f), s \notin P PROVE FALSE
    OBVIOUS
  <2>1. PlaceIn(T, s) < PlaceIn(T, f) /\ PlaceIn(T, f) <= PlaceIn(T, s)
    BY <1>6, PlaceIncreases
  <2> QED BY <2>1, PlaceTyped
<1>8. PlaceIn(T, f) = m - 1
  <2>1. Ahead(T, f) \in SUBSET P
    BY <1>7 DEF Ahead
  <2>2. PlaceIn(T, f) <= m - 1
    BY <1>4, <1>5, <2>1, FS_Subset DEF PlaceIn
  <2>3. PlaceIn(T, f) >= m - 1
    BY <1>4, <1>6, PlaceTyped DEF P, Upto
  <2> QED BY <1>4, <2>2, <2>3, PlaceTyped
<1>9. \A r \in T \ P : r # f => PlaceIn(T, r) >= m
  <2> TAKE r \in T \ P
  <2> HAVE r # f
  <2>1. ~Before(r, f)
    BY <1>7
  <2>2. Before(f, r)
    BY <1>6, <2>1 DEF Before, Row
  <2>3. PlaceIn(T, f) < PlaceIn(T, r)
    BY <1>6, <2>2, PlaceIncreases
  <2> QED BY <1>4, <1>8, <2>3, PlaceTyped
<1>10. Upto(T, m) = P \cup {f}
  <2>1. \A r \in T : r \in P <=> PlaceIn(T, r) < m - 1
    BY DEF P, Upto
  <2>2. \A r \in T : PlaceIn(T, r) \in Nat
    BY PlaceTyped
  <2>3. P \subseteq T /\ f \in T
    BY <1>5, <1>6
  <2>4. \A r \in T : PlaceIn(T, r) < m <=> r \in P \cup {f}
    BY <1>4, <1>8, <1>9, <2>1, <2>2
  <2> QED BY <2>3, <2>4 DEF Upto
<1>11. Cardinality(Upto(T, m)) = m
  BY <1>4, <1>5, <1>6, <1>10, FS_AddElement
<1> QED BY <1>2, <1>11

(* A page that has a row behind it is full.                                  *)
LEMMA FullPage ==
    ASSUME NEW T, T \subseteq Row, IsFiniteSet(T), NEW m \in Nat, NEW n \in Nat,
           NEW r \in T, PlaceIn(T, r) >= m + n
    PROVE  Cardinality({s \in T : PlaceIn(T, s) >= m /\ PlaceIn(T, s) < m + n}) = n
<1> DEFINE Slice == {s \in T : PlaceIn(T, s) >= m /\ PlaceIn(T, s) < m + n}
<1>1. m + n <= Cardinality(T)
  <2>1. Ahead(T, r) \in SUBSET T
    BY DEF Ahead
  <2> QED BY <2>1, FS_Subset, FS_CardinalityType, PlaceTyped DEF PlaceIn
<1>2. /\ IsFiniteSet(Upto(T, m)) /\ Cardinality(Upto(T, m)) = m
      /\ IsFiniteSet(Upto(T, m + n)) /\ Cardinality(Upto(T, m + n)) = m + n
  BY <1>1, Ranks, FS_CardinalityType
<1>3. \A s \in T : PlaceIn(T, s) \in Nat
  BY PlaceTyped
<1>4. Upto(T, m + n) = Upto(T, m) \cup Slice /\ Upto(T, m) \cap Slice = {}
  BY <1>3 DEF Upto
<1>5. IsFiniteSet(Slice) /\ Cardinality(Slice) \in Nat
  <2>1. Slice \in SUBSET T
    OBVIOUS
  <2> QED BY <2>1, FS_Subset, FS_CardinalityType
<1> HIDE DEF Slice
<1>6. Cardinality(Upto(T, m) \cup Slice) = m + Cardinality(Slice) - Cardinality(Upto(T, m) \cap Slice)
  BY <1>2, <1>5, FS_Union
<1>7. m + n = m + Cardinality(Slice) - 0
  BY <1>2, <1>4, <1>6, FS_EmptySet
<1> QED BY <1>5, <1>7 DEF Slice

-----------------------------------------------------------------------------
(* The inductive invariant.                                                  *)

Skipped(r) == \E s \in removed : s = r \/ Before(s, r)

(* A row that is not collected yet, and that nothing pulled back, is still   *)
(* to come.                                                                  *)
ToCome(r) == ~finished /\ r \in Table /\ Place(r) >= offset

(* The rows that have been there since the first page.                       *)
Stayed == existing \ removed

StoreTyped ==
    /\ answer \in AllAnswers /\ clock \in Nat
    /\ items \subseteq Ids /\ IsFiniteSet(items) /\ unborn \subseteq Ids
    /\ place \in [Ids -> Spot]
    /\ matching \subseteq items

ClientTyped ==
    /\ limit \in Nat /\ offset \in Nat /\ finished \in BOOLEAN
    /\ Unlimited => offset = 0

PagesInv ==
    /\ StoreTyped
    /\ ClientTyped
    /\ \A r \in existing \ collected : Skipped(r) \/ ToCome(r)
    /\ offset = 0 => removed = {}
    /\ offset = 0 /\ ~finished => collected = {} /\ existing = {}
    /\ Stayed \subseteq Table
    /\ \A r \in Stayed, c \in collected : r.tie = c.tie => r = c
    /\ \A r \in collected : offset > 0 => PlaceIn(Stayed, r) < offset

(* An answer is a finite set of rows, one for each id or place of a query.   *)
TableSound ==
    /\ IsFiniteSet(Table) /\ Table \subseteq Row
    /\ \A r, s \in Table : r.tie = s.tie => r = s

LEMMA TableTyped == StoreTyped => TableSound
<1> SUFFICES ASSUME StoreTyped PROVE TableSound
  OBVIOUS
<1> DEFINE Shown == {j \in Slots : ItemAt(j) \in matching}
<1>1. IsFiniteSet(Shown) /\ Shown \subseteq Nat /\ \A k \in Shown : ItemAt(k) \in Ids
  <2>1. CASE source = "query"
    <3>1. Slots = 1..Len(Sent) /\ Len(Sent) \in Nat
      BY <2>1, PagingAssumption DEF Slots
    <3>2. Shown \in SUBSET (1..Len(Sent)) /\ IsFiniteSet(1..Len(Sent))
      BY <3>1, FS_Interval
    <3>3. \A k \in Shown : ItemAt(k) \in Ids
      BY DEF StoreTyped
    <3> QED BY <3>1, <3>2, <3>3, FS_Subset
  <2>2. CASE source # "query"
    <3>1. Shown \in SUBSET items
      BY <2>2 DEF StoreTyped, Slots, ItemAt
    <3> QED BY <2>2, <3>1, FS_Subset, PagingAssumption DEF StoreTyped, ItemAt
  <2> QED BY <2>1, <2>2
<1> HIDE DEF Shown
<1>2. Table = {RowAt(k) : k \in Shown}
  BY DEF Table, Shown
<1>3. IsFiniteSet(Table)
  <2> DEFINE f == [k \in Shown |-> RowAt(k)]
  <2>1. f \in Surjection(Shown, Table)
    BY <1>2 DEF Surjection
  <2> QED BY <1>1, <2>1, FS_Surjection
<1>4. ASSUME NEW k \in Shown PROVE RowAt(k) \in Row /\ RowAt(k).tie = k
  <2>1. place[ItemAt(k)] \in Spot /\ k \in Nat
    BY <1>1, <1>4 DEF StoreTyped
  <2> QED BY <2>1 DEF RowAt, Row, Spot
<1>5. Table \subseteq Row
  BY <1>2, <1>4
<1>6. ASSUME NEW r \in Table, NEW s \in Table, r.tie = s.tie PROVE r = s
  <2>1. PICK k \in Shown : r = RowAt(k)
    BY <1>2
  <2>2. PICK j \in Shown : s = RowAt(j)
    BY <1>2
  <2> QED BY <1>4, <1>6, <2>1, <2>2
<1> QED BY <1>3, <1>5, <1>6 DEF TableSound

LEMMA PlaceIs ==
    ASSUME NEW r
    PROVE  /\ Place(r) = PlaceIn(Table, r)
           /\ Place(r)' = PlaceIn(Table', r)
BY DEF Place, PlaceIn, Ahead

LEMMA SpotsTyped ==
    ASSUME NEW last \in Nat
    PROVE  Spots(last) \subseteq Spot /\ NoSpot \in Spot
<1> DEFINE K == IF sort \in Chosen THEN Values
                ELSE IF sort \in NewestFirst THEN (-last)..(-1)
                ELSE IF sort = "updated_asc" THEN 1..last ELSE {0}
           H == IF ThenByCreation THEN (-last)..(-1) ELSE {0}
<1>1. K \subseteq Int /\ H \subseteq Int
  BY PagingAssumption
<1>2. Spots(last) = [key : K, then : H]
  BY Zenon DEF Spots
<1> HIDE DEF K, H
<1>3. Spots(last) \subseteq Spot
  <2> SUFFICES ASSUME NEW spot \in [key : K, then : H] PROVE spot \in Spot
    BY <1>2, Zenon
  <2>1. spot = [key |-> spot.key, then |-> spot.then] /\ spot.key \in K /\ spot.then \in H
    OBVIOUS
  <2>2. spot.key \in Int /\ spot.then \in Int
    BY <1>1, <2>1, Zenon
  <2> QED BY <2>1, <2>2, Zenon DEF Spot
<1> QED BY <1>3 DEF Spot, NoSpot

LEMMA InitPages == Init => PagesInv
<1> SUFFICES ASSUME Init PROVE PagesInv
  OBVIOUS
<1>1. clock \in Nat /\ Spots(clock) \cup {NoSpot} \subseteq Spot
  <2>1. clock \in Nat
    BY PagingAssumption DEF Init
  <2> QED BY <2>1, SpotsTyped
<1>2. StoreTyped
  <2>1. place \in [Ids -> Spot]
    BY <1>1 DEF Init
  <2>2. items \subseteq Ids /\ IsFiniteSet(items) /\ matching \subseteq items
    BY DEF Init
  <2>3. unborn \subseteq Ids
    BY DEF Init
  <2>4. answer \in AllAnswers
    BY PagingAssumption DEF Init
  <2> QED BY <1>1, <2>1, <2>2, <2>3, <2>4 DEF StoreTyped
<1>3. ClientTyped
  BY PagingAssumption DEF Init, ClientTyped
<1> QED BY <1>2, <1>3 DEF Init, PagesInv, Stayed

(* Any write at all: what leaves leaves the rows ahead of it where they      *)
(* were, and what comes only raises places.                                  *)
LEMMA WritingStep ==
    ASSUME PagesInv, Writing, StoreTyped'
    PROVE  PagesInv'
<1> USE DEF PagesInv
<1>1. /\ UNCHANGED <<limit, offset, collected, existing, finished>>
      /\ removed' = removed \cup (Table \ Table') /\ offset > 0 /\ answer' = answer
  BY DEF Writing, client
<1>2. ClientTyped'
  <2>1. Unlimited' <=> Unlimited
    BY <1>1 DEF Unlimited, source
  <2> QED BY <1>1, <2>1 DEF ClientTyped
<1>3. /\ IsFiniteSet(Table) /\ IsFiniteSet(Table')
      /\ offset \in Nat
  <2>1. TableSound /\ (StoreTyped => TableSound)'
    BY TableTyped, PTL
  <2> QED BY <2>1 DEF TableSound, ClientTyped
<1>4. ASSUME NEW r \in existing \ collected PROVE (Skipped(r) \/ ToCome(r))'
  <2>1. CASE \E s \in removed' : s = r \/ Before(s, r)
    BY <2>1 DEF Skipped
  <2>2. CASE ~ \E s \in removed' : s = r \/ Before(s, r)
    <3>1. ToCome(r)
      BY <1>1, <1>4, <2>2 DEF Skipped
    <3>2. r \in Table' /\ Ahead(Table, r) \subseteq Table'
      BY <1>1, <2>2, <3>1 DEF ToCome, Ahead
    <3>3. PlaceIn(Table, r) <= PlaceIn(Table', r) /\ PlaceIn(Table, r) \in Nat /\ PlaceIn(Table', r) \in Nat
      BY <1>3, <3>2, PlaceGrows, PlaceTyped
    <3>4. Place(r)' >= offset
      BY <1>3, <3>1, <3>3, PlaceIs DEF ToCome
    <3> QED BY <1>1, <3>1, <3>2, <3>4 DEF ToCome
  <2> QED BY <2>1, <2>2
<1>5. Stayed' \subseteq Stayed /\ Stayed' \subseteq Table'
  BY <1>1 DEF Stayed
<1>6. ASSUME NEW r \in collected PROVE PlaceIn(Stayed', r) < offset
  <2>1. IsFiniteSet(Stayed) /\ IsFiniteSet(Stayed')
    BY <1>3, <1>5, FS_Subset
  <2>2. Ahead(Stayed', r) \subseteq Stayed
    BY <1>5 DEF Ahead
  <2>3. PlaceIn(Stayed', r) <= PlaceIn(Stayed, r) /\ PlaceIn(Stayed, r) < offset
    BY <1>1, <1>6, <2>1, <2>2, PlaceGrows
  <2>4. PlaceIn(Stayed', r) \in Nat /\ PlaceIn(Stayed, r) \in Nat
    BY <2>1, PlaceTyped
  <2> QED BY <1>3, <2>3, <2>4
<1>7. \A r : PlaceIn(Stayed, r)' = PlaceIn(Stayed', r)
  BY DEF PlaceIn, Ahead
<1>8. \A r \in Stayed', c \in collected : r.tie = c.tie => r = c
  BY <1>5
<1>9. offset' # 0
  BY <1>1, <1>3
<1> QED BY <1>1, <1>2, <1>4, <1>5, <1>6, <1>7, <1>8, <1>9

LEMMA PageStep ==
    ASSUME PagesInv, FetchPage
    PROVE  PagesInv'
<1> USE DEF PagesInv, FetchPage
<1>0. /\ Table' = Table /\ UNCHANGED <<answer, clock, items, place, matching, limit, removed>>
      /\ NextPage \subseteq Table
  BY DEF store, Table, RowAt, Slots, ItemAt, source, NextPage
<1>1. PageSize \in Nat /\ PageSize > 0 /\ offset \in Nat
  BY PagingAssumption DEF PageSize, ClientTyped
<1>2. /\ IsFiniteSet(Table) /\ Table \subseteq Row
      /\ \A r, s \in Table : r.tie = s.tie => r = s
  BY TableTyped DEF TableSound
<1>3. \A r \in Table : Place(r) \in Nat /\ Place(r)' = Place(r)
  BY <1>0, <1>2, PlaceIs, PlaceTyped
<1>4. StoreTyped'
  <2>1. unborn' = unborn
    BY DEF store
  <2> QED BY <1>0, <2>1 DEF StoreTyped
<1>5. ClientTyped'
  <2>1. Unlimited' <=> Unlimited
    BY <1>0 DEF Unlimited, source
  <2>2. offset' \in Nat /\ (Unlimited' => offset' = 0)
    BY <1>1, <2>1 DEF ClientTyped
  <2>3. finished' \in BOOLEAN
    BY Zenon
  <2>4. limit' \in Nat
    BY <1>0 DEF ClientTyped
  <2> QED BY <2>2, <2>3, <2>4 DEF ClientTyped
<1>6. offset' = 0 => removed' = {}
  <2>1. CASE Unlimited
    BY <1>0, <2>1 DEF ClientTyped
  <2>2. CASE ~Unlimited
    <3>1. offset' = offset + PageSize
      BY <2>2
    <3> QED BY <1>1, <3>1
  <2> QED BY <2>1, <2>2
<1>7. ASSUME NEW r \in existing' \ collected' PROVE (Skipped(r) \/ ToCome(r))'
  <2>1. CASE offset # 0 /\ Skipped(r)
    BY <1>0, <2>1 DEF Skipped
  <2>2. CASE r \in Table /\ Place(r) >= offset
    <3>1. ~Unlimited /\ Place(r) >= offset + PageSize
      BY <1>1, <1>3, <1>7, <2>2 DEF OnPage, NextPage
    <3>2. NextPage = {s \in Table : PlaceIn(Table, s) >= offset /\ PlaceIn(Table, s) < offset + PageSize}
      BY <3>1, PlaceIs DEF OnPage, NextPage
    <3>3. Cardinality(NextPage) = PageSize
      BY <1>1, <1>2, <2>2, <3>1, <3>2, FullPage, PlaceIs
    <3>4. finished' = FALSE
      <4>1. ~(Cardinality(NextPage) < PageSize)
        BY <1>1, <3>3
      <4> QED BY <3>1, <4>1, Zenon
    <3>5. Place(r)' >= offset'
      BY <1>1, <1>3, <2>2, <3>1
    <3> QED BY <1>0, <2>2, <3>4, <3>5 DEF ToCome
  <2>3. CASE offset = 0
    <3>1. r \in Table /\ Place(r) >= offset
      BY <1>3, <1>7, <2>3
    <3> QED BY <2>2, <3>1
  <2>4. CASE offset # 0 /\ ~Skipped(r)
    <3>1. r \in existing \ collected
      BY <1>7, <2>4
    <3> QED BY <2>2, <2>4, <3>1 DEF ToCome
  <2> QED BY <2>1, <2>3, <2>4
<1>8. offset' = 0 /\ ~finished' => FALSE
  <2>1. CASE Unlimited
    BY <2>1, Zenon
  <2>2. CASE ~Unlimited
    <3>1. offset' = offset + PageSize
      BY <2>2
    <3> QED BY <1>1, <3>1
  <2> QED BY <2>1, <2>2
<1>9. Stayed' \subseteq Table
  BY <1>0 DEF Stayed
<1>10. ASSUME NEW r \in Stayed', NEW c \in collected', r.tie = c.tie PROVE r = c
  <2>1. CASE c \in NextPage
    BY <1>0, <1>2, <1>9, <1>10, <2>1
  <2>2. CASE c \notin NextPage
    <3>1. c \in collected
      BY <1>10, <2>2
    <3>2. offset # 0
      BY <3>1
    <3>3. Stayed' = Stayed
      BY <1>0, <3>2 DEF Stayed
    <3> QED BY <1>10, <3>1, <3>3
  <2> QED BY <2>1, <2>2
<1>11. ASSUME NEW r \in collected', offset' > 0
      PROVE  PlaceIn(Stayed', r) < offset'
  <2>0. IsFiniteSet(Stayed') /\ PlaceIn(Stayed', r) \in Nat
    BY <1>2, <1>9, FS_Subset, PlaceTyped
  <2>1. ~Unlimited /\ offset' = offset + PageSize
    BY <1>1, <1>11 DEF ClientTyped
  <2>2. CASE r \in NextPage
    <3>1. Place(r) < offset + PageSize
      BY <2>1, <2>2 DEF OnPage, NextPage
    <3>2. Ahead(Stayed', r) \subseteq Table
      BY <1>9 DEF Ahead
    <3>3. PlaceIn(Stayed', r) <= PlaceIn(Table, r) /\ PlaceIn(Table, r) \in Nat
      BY <1>2, <2>0, <3>2, PlaceGrows, PlaceTyped
    <3>4. PlaceIn(Table, r) < offset + PageSize
      BY <3>1, PlaceIs
    <3> QED BY <1>1, <2>0, <2>1, <3>3, <3>4
  <2>3. CASE r \notin NextPage
    <3>1. r \in collected /\ offset > 0
      BY <1>1, <1>11, <2>3
    <3>2. Stayed' = Stayed /\ PlaceIn(Stayed, r) < offset
      BY <1>0, <3>1 DEF Stayed
    <3> QED BY <1>1, <2>0, <2>1, <3>2
  <2> QED BY <2>2, <2>3
<1>12. \A r : PlaceIn(Stayed, r)' = PlaceIn(Stayed', r)
  BY DEF PlaceIn, Ahead
<1>13. \A r \in Stayed', c \in collected' : r.tie = c.tie => r = c
  BY <1>10
<1> HIDE DEF FetchPage
<1> QED BY <1>0, <1>4, <1>5, <1>6, <1>7, <1>8, <1>9, <1>11, <1>12, <1>13

(* Every writer keeps the table of items well formed.                        *)
LEMMA WritersType ==
    ASSUME StoreTyped,
           \/ Snapshot
           \/ \E i \in unborn : Insert(i)
           \/ \E i \in items : Write(i) \/ Purge(i)
           \/ \E ranked \in SUBSET items : Rerank(ranked)
    PROVE  StoreTyped' /\ Writing
<1>1. ASSUME Snapshot PROVE StoreTyped'
  <2>1. /\ clock' \in Ids /\ clock' = clock + 1 /\ answer' = answer
        /\ items' = items \cup {clock'} /\ unborn' = unborn \ {clock'}
        /\ place' = [place EXCEPT ![clock'] = [key |-> -clock', then |-> 0]]
        /\ matching' \in {matching, matching \cup {clock'}}
    BY <1>1 DEF Snapshot, Writing, StoreTyped
  <2>2. clock' \in Nat /\ [key |-> -clock', then |-> 0] \in Spot
    BY <2>1 DEF StoreTyped, Spot
  <2>3. IsFiniteSet(items')
    BY <2>1, FS_AddElement DEF StoreTyped
  <2>4. place' \in [Ids -> Spot]
    BY <2>1, <2>2 DEF StoreTyped
  <2> QED BY <2>1, <2>2, <2>3, <2>4 DEF StoreTyped
<1>2. ASSUME NEW i \in unborn, Insert(i) PROVE StoreTyped'
  <2>1. /\ clock' \in Nat /\ answer' = answer
        /\ items' = items \cup {i} /\ unborn' = unborn \ {i} /\ i \in Ids
        /\ matching' \in {matching, matching \cup {i}}
    BY <1>2 DEF Insert, Tick, Writing, StoreTyped
  <2>2. PICK spot \in Spots(clock') : place' = [place EXCEPT ![i] = spot]
    BY <1>2 DEF Insert
  <2>3. IsFiniteSet(items')
    BY <2>1, FS_AddElement DEF StoreTyped
  <2>4. place' \in [Ids -> Spot]
    BY <2>1, <2>2, SpotsTyped DEF StoreTyped
  <2> QED BY <2>1, <2>3, <2>4 DEF StoreTyped
<1>3. ASSUME NEW i \in items, Write(i) PROVE StoreTyped'
  <2>1. /\ clock' \in Nat /\ answer' = answer /\ i \in Ids
        /\ UNCHANGED <<items, unborn>> /\ matching' \subseteq items'
    BY <1>3 DEF Write, Tick, Regated, Writing, StoreTyped
  <2>2. PICK key \in (IF sort \in Chosen THEN Values ELSE {Touched(i)}) :
          place' = [place EXCEPT ![i].key = key]
    BY <1>3 DEF Write
  <2>3. Touched(i) \in Int
    BY <2>1 DEF Touched, StoreTyped, Spot
  <2>4. key \in Int
    BY <2>2, <2>3, PagingAssumption
  <2>5. place' \in [Ids -> Spot]
    BY <2>1, <2>2, <2>4 DEF StoreTyped, Spot
  <2> QED BY <2>1, <2>5 DEF StoreTyped
<1>4. ASSUME NEW i \in items, Purge(i) PROVE StoreTyped'
  <2>1. /\ answer' = answer /\ UNCHANGED <<clock, unborn>> /\ i \in Ids
        /\ items' = items \ {i} /\ matching' \subseteq items'
        /\ place' = [place EXCEPT ![i] = NoSpot]
    BY <1>4 DEF Purge, Regated, Writing, StoreTyped
  <2>2. IsFiniteSet(items')
    BY <2>1, FS_RemoveElement DEF StoreTyped
  <2>3. place' \in [Ids -> Spot]
    BY <2>1 DEF StoreTyped, Spot, NoSpot
  <2> QED BY <2>1, <2>2, <2>3 DEF StoreTyped
<1>5. ASSUME NEW ranked \in SUBSET items, Rerank(ranked) PROVE StoreTyped'
  <2>1. /\ clock' \in Nat /\ answer' = answer /\ ranked \subseteq Ids
        /\ UNCHANGED <<items, unborn, matching>>
    BY <1>5 DEF Rerank, Tick, Writing, StoreTyped
  <2> DEFINE Key(ranks, i) == IF sort = "rank" THEN ranks[i] ELSE Touched(i)
  <2>2. PICK ranks \in [ranked -> Values] :
          place' = [i \in Ids |->
             IF i \notin ranked THEN place[i] ELSE [place[i] EXCEPT !.key = Key(ranks, i)]]
    BY <1>5 DEF Rerank
  <2>3. ASSUME NEW i \in ranked PROVE Key(ranks, i) \in Int
    <3>1. Touched(i) \in Int
      BY <2>1, <2>3 DEF Touched, StoreTyped, Spot
    <3>2. ranks[i] \in Int
      BY <2>2, <2>3, PagingAssumption
    <3> QED BY <3>1, <3>2
  <2> HIDE DEF Key
  <2>4. \A i \in Ids : (IF i \notin ranked THEN place[i] ELSE [place[i] EXCEPT !.key = Key(ranks, i)]) \in Spot
    BY <2>3 DEF StoreTyped, Spot
  <2>5. place' \in [Ids -> Spot]
    BY <2>2, <2>4
  <2> QED BY <2>1, <2>5 DEF StoreTyped
<1>6. Writing
  BY DEF Snapshot, Insert, Write, Purge, Rerank
<1> QED BY <1>1, <1>2, <1>3, <1>4, <1>5, <1>6

LEMMA PagesStep ==
    ASSUME PagesInv, [Next]_vars
    PROVE  PagesInv'
<1>1. CASE \/ Snapshot
           \/ \E i \in unborn : Insert(i)
           \/ \E i \in items : Write(i) \/ Purge(i)
           \/ \E ranked \in SUBSET items : Rerank(ranked)
  <2>1. StoreTyped
    BY DEF PagesInv
  <2>2. StoreTyped' /\ Writing
    BY <1>1, <2>1, WritersType
  <2> QED BY <2>2, WritingStep
<1>2. CASE FetchPage
  BY <1>2, PageStep
<1>3. CASE Over \/ UNCHANGED vars
  <2>1. UNCHANGED vars
    BY <1>3 DEF Over
  <2>2. Table' = Table /\ Unlimited' = Unlimited
    BY <2>1 DEF vars, store, client, Table, RowAt, Slots, ItemAt, source, Unlimited
  <2>3. \A r : Place(r)' = Place(r)
    BY <2>2 DEF Place
  <2>4. StoreTyped' /\ ClientTyped'
    BY <2>1, <2>2 DEF vars, store, client, PagesInv, StoreTyped, ClientTyped
  <2> QED BY <2>1, <2>2, <2>3, <2>4 DEF PagesInv, vars, client, Skipped, ToCome, Stayed, PlaceIn, Ahead
<1> QED BY <1>1, <1>2, <1>3 DEF Next

LEMMA PagesInvariant == Spec => []PagesInv
<1>1. PagesInv /\ [Next]_vars => PagesInv'
  BY PagesStep
<1> QED BY <1>1, InitPages, PTL DEF Spec

-----------------------------------------------------------------------------
(* The results.                                                              *)

(* Paging to the end misses only what left, moved, or was pulled back.       *)
THEOREM PagingSkipsNothing == Spec => []NothingSkipped
<1>1. PagesInv => NothingSkipped
  BY DEF PagesInv, NothingSkipped, Skipped, ToCome
<1> QED BY <1>1, PagesInvariant, PTL

(* An item comes twice only if it moved or came back itself, or something    *)
(* came to stand ahead of it since the first page: otherwise its row is the  *)
(* one that was shown, and the rows ahead of it, which stayed, keep it on    *)
(* the pages before.                                                         *)
THEOREM PagingRepeatsOnlyPushed == Spec => RepeatsWerePushed
<1>1. ASSUME PagesInv, [Next]_vars
      PROVE  [offset' # offset =>
                \A r \in NextPage, c \in collected :
                   r.tie = c.tie => \E s \in Table : CameSince(s) /\ (s = r \/ Before(s, r))]_vars
  <2> SUFFICES ASSUME FetchPage, offset' # offset, NEW r \in NextPage, NEW c \in collected,
                      r.tie = c.tie,
                      \A s \in Table : s = r \/ Before(s, r) => ~CameSince(s)
               PROVE  FALSE
    BY <1>1 DEF Next, Snapshot, Insert, Write, Purge, Rerank, Writing, Over, vars, client
  <2>1. Ahead(Table, r) \subseteq Stayed /\ r \in Stayed
    BY DEF Ahead, Stayed, CameSince, NextPage
  <2>2. r = c
    BY <1>1, <2>1 DEF PagesInv
  <2>3. IsFiniteSet(Table) /\ IsFiniteSet(Stayed) /\ offset \in Nat
    <3>1. IsFiniteSet(Table)
      BY <1>1, TableTyped DEF PagesInv, TableSound
    <3> QED BY <1>1, <3>1, FS_Subset DEF PagesInv, ClientTyped
  <2>4. PlaceIn(Table, r) <= PlaceIn(Stayed, r)
    BY <2>1, <2>3, PlaceGrows
  <2>5. Place(r) >= offset
    BY DEF NextPage, OnPage
  <2>6. offset > 0 /\ PlaceIn(Stayed, r) < offset
    <3>1. offset # 0
      BY <1>1 DEF PagesInv, FetchPage
    <3>2. offset > 0
      BY <2>3, <3>1
    <3> QED BY <1>1, <2>2, <3>2 DEF PagesInv
  <2> QED BY <2>3, <2>4, <2>5, <2>6, PlaceIs, PlaceTyped
<1> QED BY <1>1, PagesInvariant, PTL DEF Spec, RepeatsWerePushed

=============================================================================
