----------------------------- MODULE ApiProofs -----------------------------
(***************************************************************************)
(* Proofs about the HTTP interfaces: listings of the public API that are   *)
(* paged through while rows change, calls whose requests are lost,         *)
(* repeated and overlap, and the worker's routes that a sender pushes to   *)
(* until it is answered.  They hold for any number of rows, page sizes,    *)
(* calls, requests, workspaces and deliveries.                             *)
(***************************************************************************)
EXTENDS Paging, ApiCall, WorkerRoutes, FiniteSetTheorems, TLAPS

-----------------------------------------------------------------------------
(* The order of a listing. *)

(* The rows of a set that come before a row of it. *)
Ahead(rows, r) == { s \in rows : Before(s, r) }

LEMMA KeysAreNumbers ==
    ASSUME PagingTypeOK, NEW r \in Rows
    PROVE  r \in Nat /\ stored[r] \in Nat
<1>1. r \in Nat
  BY PagingAssumption
<1>2. stored[r] \in SortKeys \cup {Absent}
  BY DEF PagingTypeOK
<1>3. SortKeys \subseteq Nat
  BY PagingAssumption
<1>4. Absent \in Nat
  BY DEF Absent
<1> QED
  BY <1>1, <1>2, <1>3, <1>4

(* What the order is, on rows that are stored. *)
LEMMA BeforeIsAnOrder ==
    ASSUME PagingTypeOK, NEW r \in Rows, NEW s \in Rows
    PROVE  /\ ~Before(r, r)
           /\ Before(r, s) => ~Before(s, r)
           /\ r # s => Before(r, s) \/ Before(s, r)
           /\ \A t \in Rows : Before(r, s) /\ Before(s, t) => Before(r, t)
<1>1. \A t \in Rows : t \in Nat /\ stored[t] \in Nat
  BY KeysAreNumbers
<1> QED
  BY <1>1 DEF Before

(* Of the subsets of a finite set, any that there are some of, one has no    *)
(* proper subset among them.                                                 *)
LEMMA LeastSubset ==
    ASSUME NEW S, IsFiniteSet(S), NEW Sets, Sets \subseteq SUBSET S, Sets # {}
    PROVE  \E A \in Sets : \A B \in Sets : B \subseteq A => B = A
<1>1. IsWellFoundedOn(StrictSubsetOrdering(S), SUBSET S)
  BY FS_StrictSubsetOrderingWellFounded, FS_FiniteSubsetsOfFinite
<1>2. PICK A \in Sets : \A B \in Sets : ~(<< B, A >> \in StrictSubsetOrdering(S))
  BY <1>1, WFMin
<1>3. \A B \in Sets : B \subseteq A => B = A
  BY <1>2 DEF StrictSubsetOrdering
<1> QED
  BY <1>3

LEMMA FirstRow ==
    ASSUME PagingTypeOK, NEW rows \in SUBSET Rows, rows # {}
    PROVE  \E r \in rows : Ahead(rows, r) = {}
<1>1. IsFiniteSet(rows)
  BY PagingAssumption, FS_Subset
<1> DEFINE sets == { Ahead(rows, r) : r \in rows }
<1>2. sets \subseteq SUBSET rows /\ sets # {}
  BY DEF Ahead
<1>3. PICK A \in sets : \A B \in sets : B \subseteq A => B = A
  <2> HIDE DEF sets
  <2> QED
    BY <1>1, <1>2, LeastSubset
<1>4. PICK r \in rows : A = Ahead(rows, r)
  OBVIOUS
<1>5. ASSUME NEW s \in Ahead(rows, r) PROVE FALSE
  <2>1. s \in rows /\ Before(s, r)
    BY DEF Ahead
  <2>2. Ahead(rows, s) \subseteq Ahead(rows, r)
    BY <2>1, BeforeIsAnOrder DEF Ahead
  <2>3. s \in Ahead(rows, s)
    BY <1>3, <1>4, <2>1, <2>2
  <2> QED
    BY <2>1, <2>3, BeforeIsAnOrder DEF Ahead
<1> QED
  BY <1>5

LEMMA LastRow ==
    ASSUME PagingTypeOK, NEW rows \in SUBSET Rows, rows # {}
    PROVE  /\ Last(rows) \in rows
           /\ \A s \in rows \ {Last(rows)} : Before(s, Last(rows))
<1>1. IsFiniteSet(rows)
  BY PagingAssumption, FS_Subset
<1> DEFINE Behind(r) == { s \in rows : Before(r, s) }
           sets == { Behind(r) : r \in rows }
<1>2. sets \subseteq SUBSET rows /\ sets # {}
  OBVIOUS
<1>3. PICK A \in sets : \A B \in sets : B \subseteq A => B = A
  <2> HIDE DEF sets
  <2> QED
    BY <1>1, <1>2, LeastSubset
<1>4. PICK r \in rows : A = Behind(r)
  OBVIOUS
<1>5. ASSUME NEW s \in rows, s # r PROVE Before(s, r)
  <2> SUFFICES ASSUME ~Before(s, r) PROVE FALSE
    OBVIOUS
  <2>1. Before(r, s)
    BY <1>5, BeforeIsAnOrder
  <2>2. Behind(s) \subseteq Behind(r)
    BY <2>1, BeforeIsAnOrder
  <2>3. s \in Behind(s)
    BY <1>3, <1>4, <2>1, <2>2
  <2> QED
    BY <2>3, BeforeIsAnOrder
<1> QED
  BY <1>5 DEF Last

-----------------------------------------------------------------------------
(* The pages of a listing. *)

(* A row that was shown with this key is at the cursor, or before it. *)
NotAfter(shown, cursor) ==
    \/ shown[1] > cursor.key
    \/ shown[1] = cursor.key /\ shown[2] >= cursor.id

(* Between two pages everything shown is behind the cursor, and every steady *)
(* row is shown, or still ahead of it.                                       *)
CursorDivides ==
    /\ listing = "first" => listed = {} /\ position = FromTheTop
    /\ listing = "next" =>
         /\ position.key \in SortKeys /\ position.id \in Rows
         /\ \A shown \in listed : NotAfter(shown, position)
         /\ \A r \in steady : ComesAfter(r, position) \/ << stored[r], r >> \in listed
    /\ listing = "over" => \A r \in steady : << stored[r], r >> \in listed

PagingInv == PagingTypeOK /\ ~repeated /\ CursorDivides

LEMMA PagingInitially == PagingInit => PagingInv
<1> SUFFICES ASSUME PagingInit PROVE PagingInv
  OBVIOUS
<1>1. PagingTypeOK
  BY DEF PagingInit, PagingTypeOK, FromTheTop
<1>2. CursorDivides
  BY DEF PagingInit, CursorDivides
<1> QED
  BY <1>1, <1>2 DEF PagingInit, PagingInv

(* Nothing that a page may show has been shown before, and no steady row is  *)
(* forgotten.                                                                *)
LEMMA RemainingIsNew ==
    ASSUME PagingInv, Paginating
    PROVE  /\ Remaining \in SUBSET Rows /\ IsFiniteSet(Remaining)
           /\ \A r \in Remaining : stored[r] \in SortKeys /\ << stored[r], r >> \notin listed
           /\ \A r \in steady : r \in Remaining \/ << stored[r], r >> \in listed
           /\ listing = "next" => \A r \in Remaining : ComesAfter(r, position)
<1>1. Remaining \in SUBSET Rows /\ IsFiniteSet(Remaining)
  BY PagingAssumption, FS_Subset DEF Remaining
<1>2. \A r \in Rows : r \in Nat /\ stored[r] \in Nat
  BY KeysAreNumbers DEF PagingInv
<1>3. \A r \in Remaining : stored[r] \in SortKeys
  BY DEF Remaining, PagingInv, PagingTypeOK
<1>4. CASE listing = "first"
  <2>1. listed = {} /\ position = FromTheTop
    BY <1>4 DEF PagingInv, CursorDivides
  <2>2. \A r \in steady : r \in Remaining
    BY <2>1 DEF Remaining, PagingInv, PagingTypeOK
  <2> QED
    BY <1>1, <1>3, <1>4, <2>1, <2>2
<1>5. CASE listing = "next"
  <2>1. /\ position.key \in SortKeys /\ position.id \in Rows
        /\ \A shown \in listed : NotAfter(shown, position)
        /\ \A r \in steady : ComesAfter(r, position) \/ << stored[r], r >> \in listed
    BY <1>5 DEF PagingInv, CursorDivides
  <2>2. position.key \in Nat /\ position.id \in Nat /\ position # FromTheTop
    <3>1. SortKeys \subseteq Nat /\ Absent \notin SortKeys /\ Rows \subseteq Nat
      BY PagingAssumption
    <3>2. FromTheTop.key = Absent
      BY DEF FromTheTop
    <3> QED
      BY <2>1, <3>1, <3>2
  <2>3. \A r \in Remaining : ComesAfter(r, position)
    BY <2>2 DEF Remaining
  <2>4. \A r \in Remaining : << stored[r], r >> \notin listed
    BY <1>1, <1>2, <2>1, <2>2, <2>3 DEF ComesAfter, NotAfter
  <2>5. \A r \in steady : r \in Remaining \/ << stored[r], r >> \in listed
    BY <2>1 DEF Remaining, PagingInv, PagingTypeOK
  <2> QED
    BY <1>1, <1>3, <2>3, <2>4, <2>5
<1> QED
  BY <1>4, <1>5 DEF Paginating

(* A page without a next cursor shows all that is left.                      *)
LEMMA LastPageShowsAll ==
    ASSUME PagingInv, Paginating, Cardinality(Remaining) <= limit
    PROVE  Page.rows = Remaining /\ Page.next = NoNext
<1>1. limit \in Nat /\ Cardinality(Remaining) \in Nat
  BY RemainingIsNew, FS_CardinalityType, PagingAssumption DEF PagingInv, PagingTypeOK
<1>2. ASSUME NEW r \in Remaining
      PROVE  Cardinality({ s \in Remaining : Before(s, r) }) < limit
  <2> DEFINE ahead == { s \in Remaining : Before(s, r) }
  <2>1. r \notin ahead
    BY RemainingIsNew, BeforeIsAnOrder DEF PagingInv
  <2>2. ahead \in SUBSET Remaining /\ ahead # Remaining
    BY <2>1
  <2> HIDE DEF ahead
  <2>3. Cardinality(ahead) <= Cardinality(Remaining) /\ Cardinality(ahead) # Cardinality(Remaining)
        /\ Cardinality(ahead) \in Nat
    BY <2>2, RemainingIsNew, FS_Subset, FS_CardinalityType
  <2>4. Cardinality(ahead) < limit
    BY <1>1, <2>3
  <2> QED
    BY <2>4 DEF ahead
<1>3. Top(Remaining, limit) = Remaining
  BY <1>2 DEF Top
<1> QED
  BY <1>1, <1>3 DEF Page

(* A page with one shows some rows, up to the one it is the cursor of.       *)
LEMMA FullPageEndsAtCursor ==
    ASSUME PagingInv, Paginating, Cardinality(Remaining) > limit
    PROVE  \E last \in Remaining :
             /\ Page.next = CursorOf(last) /\ Page.next # NoNext
             /\ Page.rows = { r \in Remaining : r = last \/ Before(r, last) }
<1> DEFINE shown == Top(Remaining, limit)
           last == Last(shown)
<1>1. limit \in Nat \ {0} /\ Cardinality(Remaining) \in Nat
  BY RemainingIsNew, FS_CardinalityType, PagingAssumption DEF PagingInv, PagingTypeOK
<1>2. Page.rows = shown /\ Page.next = CursorOf(last)
  BY <1>1 DEF Page
<1>3. Remaining # {}
  BY <1>1, FS_EmptySet
<1>4. PICK first \in Remaining : Ahead(Remaining, first) = {}
  BY <1>3, RemainingIsNew, FirstRow DEF PagingInv
<1>5. shown # {} /\ shown \in SUBSET Rows /\ shown \subseteq Remaining
  <2>1. Cardinality({ s \in Remaining : Before(s, first) }) = 0
    BY <1>4, FS_EmptySet DEF Ahead
  <2>2. Cardinality({ s \in Remaining : Before(s, first) }) < limit
    BY <1>1, <2>1
  <2>3. first \in shown
    BY <2>2 DEF Top
  <2>4. shown \subseteq Remaining
    BY DEF Top
  <2> QED
    BY <2>3, <2>4, RemainingIsNew
<1> HIDE DEF shown
<1>6. last \in shown /\ \A s \in shown \ {last} : Before(s, last)
  BY <1>5, LastRow DEF PagingInv
<1>7. ASSUME NEW r \in Remaining, Before(r, last) PROVE r \in shown
  <2> DEFINE aheadR == { s \in Remaining : Before(s, r) }
             aheadL == { s \in Remaining : Before(s, last) }
  <2>1. aheadR \in SUBSET aheadL /\ aheadL \in SUBSET Remaining
    BY <1>5, <1>6, <1>7, RemainingIsNew, BeforeIsAnOrder DEF PagingInv
  <2>2. Cardinality(aheadL) < limit
    BY <1>6 DEF shown, Top
  <2> HIDE DEF aheadR, aheadL
  <2>3. IsFiniteSet(aheadL)
    BY <2>1, RemainingIsNew, FS_Subset
  <2>4. /\ Cardinality(aheadR) <= Cardinality(aheadL)
        /\ Cardinality(aheadR) \in Nat /\ Cardinality(aheadL) \in Nat
    BY <2>1, <2>3, FS_Subset, FS_CardinalityType
  <2>5. Cardinality(aheadR) < limit
    BY <1>1, <2>2, <2>4
  <2> QED
    BY <2>5 DEF shown, Top, aheadR
<1>8. shown = { r \in Remaining : r = last \/ Before(r, last) }
  BY <1>5, <1>6, <1>7
<1>9. CursorOf(last) # NoNext
  <2>1. stored[last] \in SortKeys
    BY <1>5, <1>6, RemainingIsNew
  <2> QED
    BY <2>1, PagingAssumption DEF CursorOf, NoNext, FromTheTop
<1> QED
  BY <1>2, <1>5, <1>6, <1>8, <1>9

LEMMA FetchPageKeeps ==
    ASSUME PagingInv, FetchPage
    PROVE  PagingInv'
<1>1. /\ Paginating /\ UNCHANGED << resource, stored, limit, steady >>
      /\ listed' = listed \cup { << stored[r], r >> : r \in Page.rows }
      /\ repeated' = (repeated \/ \E r \in Page.rows : << stored[r], r >> \in listed)
      /\ IF Page.next = NoNext \/ Page.rows = {}
         THEN listing' = "over" /\ position' = position
         ELSE listing' = "next" /\ position' = Page.next
  BY DEF FetchPage
<1>2. /\ Remaining \in SUBSET Rows /\ IsFiniteSet(Remaining)
      /\ \A r \in Remaining : stored[r] \in SortKeys /\ << stored[r], r >> \notin listed
      /\ \A r \in steady : r \in Remaining \/ << stored[r], r >> \in listed
      /\ listing = "next" => \A r \in Remaining : ComesAfter(r, position)
  BY <1>1, RemainingIsNew
<1>3. \A r \in Rows : r \in Nat /\ stored[r] \in Nat
  BY KeysAreNumbers DEF PagingInv
<1>4. PagingTypeOK /\ ~repeated /\ CursorDivides
  BY DEF PagingInv
<1>5. limit \in Nat /\ Cardinality(Remaining) \in Nat
  BY <1>2, <1>4, FS_CardinalityType, PagingAssumption DEF PagingTypeOK
<1>6. ASSUME Page.rows \subseteq Remaining
      PROVE  repeated' = FALSE /\ listed' \subseteq SortKeys \X Rows
  <2>1. \A r \in Page.rows : stored[r] \in SortKeys /\ r \in Rows /\ << stored[r], r >> \notin listed
    BY <1>2, <1>6
  <2>2. repeated' = FALSE
    <3>1. repeated = FALSE
      BY <1>4 DEF PagingTypeOK
    <3>2. ~ \E r \in Page.rows : << stored[r], r >> \in listed
      BY <2>1
    <3>3. repeated' = (repeated \/ \E r \in Page.rows : << stored[r], r >> \in listed)
      BY <1>1
    <3> QED
      BY <3>1, <3>2, <3>3
  <2>3. listed' \subseteq SortKeys \X Rows
    <3>1. listed \subseteq SortKeys \X Rows
      BY <1>4 DEF PagingTypeOK
    <3>2. \A r \in Page.rows : << stored[r], r >> \in SortKeys \X Rows
      BY <2>1
    <3>3. listed' = listed \cup { << stored[r], r >> : r \in Page.rows }
      BY <1>1
    <3> QED
      BY <3>1, <3>2, <3>3
  <2> QED
    BY <2>2, <2>3
<1>7. CASE Cardinality(Remaining) <= limit
  <2>1. Page.rows = Remaining /\ Page.next = NoNext
    BY <1>1, <1>7, LastPageShowsAll
  <2>2. listing' = "over" /\ position' = position
    BY <1>1, <2>1
  <2>3. PagingTypeOK'
    BY <1>1, <1>4, <1>6, <2>1, <2>2 DEF PagingTypeOK
  <2>4. \A r \in steady : << stored[r], r >> \in listed'
    BY <1>1, <1>2, <2>1
  <2>5. CursorDivides'
    BY <1>1, <2>2, <2>4 DEF CursorDivides
  <2> QED
    BY <1>6, <2>1, <2>3, <2>5 DEF PagingInv
<1>8. CASE Cardinality(Remaining) > limit
  <2>1. PICK last \in Remaining :
             /\ Page.next = CursorOf(last) /\ Page.next # NoNext
             /\ Page.rows = { r \in Remaining : r = last \/ Before(r, last) }
    BY <1>1, <1>8, FullPageEndsAtCursor
  <2>2. /\ listing' = "next" /\ position' = CursorOf(last)
        /\ position'.key = stored[last] /\ position'.id = last
    BY <1>1, <2>1 DEF CursorOf
  <2>3. stored[last] \in SortKeys /\ last \in Rows /\ last \in Nat /\ stored[last] \in Nat
    BY <1>2, <1>3
  <2>4. PagingTypeOK'
    <3>1. position' \in [ key : SortKeys \cup {Absent}, id : Rows \cup {Absent} ]
      BY <2>2, <2>3 DEF CursorOf
    <3> QED
      BY <1>1, <1>4, <1>6, <2>1, <2>2, <3>1 DEF PagingTypeOK
  <2>5. ASSUME NEW shown \in listed PROVE NotAfter(shown, position')
    <3>1. listing = "next" /\ NotAfter(shown, position) /\ shown \in SortKeys \X Rows
          /\ position.key \in SortKeys /\ position.id \in Rows
      BY <1>1, <1>4 DEF CursorDivides, PagingTypeOK, Paginating
    <3>2. ComesAfter(last, position)
      BY <1>2, <3>1
    <3>3. SortKeys \subseteq Nat /\ Rows \subseteq Nat
      BY PagingAssumption
    <3>4. /\ shown[1] \in Nat /\ shown[2] \in Nat
          /\ position.key \in Nat /\ position.id \in Nat
      BY <3>1, <3>3
    <3> QED
      BY <2>2, <2>3, <3>1, <3>2, <3>4 DEF NotAfter, ComesAfter
  <2>6. ASSUME NEW r \in Page.rows PROVE NotAfter(<< stored[r], r >>, position')
    <3>1. r \in Rows /\ (r = last \/ Before(r, last))
      BY <1>2, <2>1
    <3>2. r \in Nat /\ stored[r] \in Nat
      BY <1>3, <3>1
    <3> QED
      BY <2>2, <2>3, <3>1, <3>2 DEF NotAfter, Before
  <2>7. ASSUME NEW r \in steady PROVE ComesAfter(r, position') \/ << stored[r], r >> \in listed'
    <3>1. CASE << stored[r], r >> \in listed
      BY <1>1, <3>1
    <3>2. CASE r \in Page.rows
      BY <1>1, <3>2
    <3>3. CASE r \in Remaining \ Page.rows
      <4>1. r \in Rows /\ r # last /\ ~Before(r, last)
        BY <1>2, <2>1, <3>3
      <4>2. Before(last, r)
        BY <1>4, <2>3, <4>1, BeforeIsAnOrder
      <4>3. stored[r] < stored[last] \/ (stored[r] = stored[last] /\ r < last)
        BY <1>3, <2>3, <4>1, <4>2 DEF Before
      <4> QED
        BY <2>2, <4>3 DEF ComesAfter
    <3> QED
      BY <1>2, <3>1, <3>2, <3>3
  <2>8. CursorDivides'
    <3>1. (\A shown \in listed : NotAfter(shown, position))'
      <4>1. listed' = listed \cup { << stored[r], r >> : r \in Page.rows }
        BY <1>1
      <4> QED
        BY <2>5, <2>6, <4>1 DEF NotAfter
    <3>2. (\A r \in steady : ComesAfter(r, position) \/ << stored[r], r >> \in listed)'
      BY <1>1, <2>7 DEF ComesAfter
    <3> QED
      BY <2>2, <2>3, <3>1, <3>2 DEF CursorDivides
  <2> QED
    BY <1>6, <2>1, <2>4, <2>8 DEF PagingInv
<1> QED
  BY <1>5, <1>7, <1>8

(* Whatever else happens to the rows leaves the steady ones as they were.    *)
LEMMA RowStepKeeps ==
    ASSUME PagingInv,
           \/ \E status \in { 0, 400, 404, 500 } : FetchFails(status)
           \/ \E r \in Rows : DeleteRow(r) \/ \E k \in SortKeys : AddRow(r, k) \/ MoveThread(r, k)
    PROVE  PagingInv'
<1>1. PagingTypeOK /\ ~repeated /\ CursorDivides
  BY DEF PagingInv
<1>2. CASE \E status \in { 0, 400, 404, 500 } : FetchFails(status)
  <2>1. /\ listing' \in { "problem", "error" }
        /\ UNCHANGED << resource, stored, limit, position, listed, repeated, steady >>
    BY <1>2 DEF FetchFails
  <2>2. PagingTypeOK'
    BY <1>1, <2>1 DEF PagingTypeOK
  <2>3. CursorDivides'
    BY <2>1 DEF CursorDivides
  <2> QED
    BY <1>1, <2>1, <2>2, <2>3 DEF PagingInv
<1>3. ASSUME NEW r \in Rows,
             DeleteRow(r) \/ \E k \in SortKeys : AddRow(r, k) \/ MoveThread(r, k)
      PROVE  PagingInv'
  <2>1. PICK k \in SortKeys \cup {Absent} : stored' = [ stored EXCEPT ![r] = k ]
    BY <1>3 DEF DeleteRow, AddRow, MoveThread
  <2>2. /\ UNCHANGED << resource, limit, position, listing, listed, repeated >>
        /\ steady' \subseteq steady
        /\ steady' = steady \ {r} \/ (steady' = steady /\ r \notin steady)
    BY <1>1, <1>3 DEF DeleteRow, AddRow, MoveThread, cursors, PagingTypeOK
  <2>3. r \notin steady' /\ \A t \in steady' : stored'[t] = stored[t] /\ t \in steady
    BY <1>1, <2>1, <2>2 DEF PagingTypeOK
  <2>4. PagingTypeOK'
    BY <1>1, <2>1, <2>2, <2>3 DEF PagingTypeOK
  <2>5. CursorDivides'
    BY <1>1, <2>2, <2>3 DEF CursorDivides, NotAfter, ComesAfter
  <2> QED
    BY <1>1, <2>2, <2>4, <2>5 DEF PagingInv
<1> QED
  BY <1>2, <1>3

(* The invariant of a listing: its cursor divides what was shown from what   *)
(* is to be shown.                                                           *)
THEOREM PagingInvariance == PagingSpec => []PagingInv
<1>1. PagingInv /\ [PagingNext]_pagingVars => PagingInv'
  <2> SUFFICES ASSUME PagingInv, [PagingNext]_pagingVars PROVE PagingInv'
    OBVIOUS
  <2>1. CASE UNCHANGED pagingVars
    BY <2>1 DEF pagingVars, cursors, PagingInv, PagingTypeOK, CursorDivides, NotAfter, ComesAfter
  <2> QED
    BY <2>1, FetchPageKeeps, RowStepKeeps DEF PagingNext
<1> QED
  BY <1>1, PagingInitially, PTL DEF PagingSpec

(* Rows, cursors and what the client has got stay well-typed. *)
THEOREM PagingTypeCorrectness == PagingSpec => []PagingTypeOK
<1>1. PagingInv => PagingTypeOK
  BY DEF PagingInv
<1> QED
  BY <1>1, PagingInvariance, PTL

(* No row is listed twice under one key, and a listing that is over has      *)
(* shown all that stayed, for any page size and any number of rows.          *)
THEOREM StableRowsListedOnceAlways == PagingSpec => []StableRowsListedOnce
<1>1. PagingInv => StableRowsListedOnce
  BY DEF PagingInv, CursorDivides, StableRowsListedOnce
<1> QED
  BY <1>1, PagingInvariance, PTL

-----------------------------------------------------------------------------
(* Calls and their requests. *)

(* What is wrong with a call that can make nothing. *)
Hopeless(c) ==
    \/ ask[c].fault \in { "input", "body", "no key" }
    \/ ask[c].kind = "replay" /\ ask[c].fault = "range"
    \/ ask[c].kind \in { "subscription", "replay" } /\ RefersToOthers(c)
    \/ ask[c].kind \in Reading

(* Every row of a call is one it asked for, made by a request that is over.  *)
RowsAreAskedFor ==
    \A m \in made : m.call # Operator =>
        /\ m.kind = ask[m.call].kind /\ m.workspace = ask[m.call].workspace
        /\ m.name \in ask[m.call].names
        /\ m.request \in Requests /\ serving[m.call][m.request] = "over"
        /\ ~Hopeless(m.call)

(* What the constraints ensure, whoever inserts. *)
NamesAreUnique ==
    \A m, n \in made \ ended :
        m.kind # "session" /\ m.kind = n.kind /\ m.workspace = n.workspace /\ m.name = n.name => m = n

MadeByRequest(c, n) == { m \in made : m.call = c /\ m.request = n }

RequestsAreAtomic ==
    \A c \in Calls, n \in Requests :
        { m.name : m \in MadeByRequest(c, n) } \in { {}, ask[c].names }

(* The API works on what was sent, and admits what is not refused before.    *)
RequestsAreSent ==
    \A c \in Calls, n \in Requests :
        /\ serving[c][n] # "none" => n <= sent[c] /\ ask[c].fault # "input"
        /\ serving[c][n] = "admitted" => ask[c].fault \notin { "body", "no key" }

(* One request before each wait, and one after the last. *)
RetriesAreCounted ==
    \A c \in Calls :
        /\ phase[c] = "ready" => sent[c] <= elapsed[c]
        /\ phase[c] \in { "waiting", "failed" } => sent[c] <= elapsed[c] + 1
        /\ phase[c] = "failed" => reply[c] # Nothing

(* What a status says of the request sent last, and of the call. *)
Truthful(c, status) ==
    LET mine == MadeByRequest(c, sent[c]) IN
      /\ status \in Statuses => sent[c] \in Requests /\ serving[c][sent[c]] = "over"
      /\ status = "201" =>
           /\ ask[c].kind \in Creating
           /\ { << m.name, m.workspace >> : m \in mine } = ask[c].names \X {ask[c].workspace}
      /\ status = "200" => ask[c].kind \in Reading /\ ask[c].owner = ask[c].workspace
      /\ status \in { "400", "404", "invalid" } => Hopeless(c)
      /\ status \in { "401", "409", "500" } => mine = {}
      /\ status = "409" =>
           \E m \in made : /\ m.kind = ask[c].kind /\ m.workspace = ask[c].workspace
                           /\ m.name \in ask[c].names

RepliesAreTrue ==
    \A c \in Calls :
        /\ Truthful(c, reply[c])
        /\ \/ answer[c] = NoAnswer
           \/ /\ phase[c] = "done" /\ answer[c] = Told(c, answer[c].status)
              /\ Truthful(c, answer[c].status)

RowsInv == RowsAreAskedFor /\ NamesAreUnique /\ RequestsAreAtomic

ApiInv == ApiTypeOK /\ RowsInv /\ RequestsAreSent /\ RetriesAreCounted /\ RepliesAreTrue

-----------------------------------------------------------------------------
(* What the conjuncts of the invariant do, whatever the step. *)

LEMMA AsksAreTyped ==
    ASSUME ApiTypeOK, NEW c \in Calls
    PROVE  /\ ask[c].kind \in Creating \cup Reading
           /\ ask[c].workspace \in Workspaces
           /\ ask[c].names \subseteq Names
           /\ ask[c].kind \in Creating => ask[c].kind \notin Reading
<1>1. ask[c] \in Asks
  BY DEF ApiTypeOK
<1> QED
  BY <1>1, AsksAssumption DEF Creating, Reading

(* Which answers the SDK takes for a result. *)
LEMMA ResultsOfFunctions ==
    ASSUME NEW kind \in Creating \cup Reading
    PROVE  /\ kind \in Creating => FunctionOf(kind).result = "201"
           /\ kind \in Reading => FunctionOf(kind).result = "200"
<1>1. CASE kind \in Creating
  <2>1. kind \notin Reading
    BY <1>1 DEF Creating, Reading
  <2>2. FunctionOf(kind).result = "201"
    BY <1>1 DEF Creating, FunctionOf, Function, MailboxesCreateConnectSession,
                WebhookEndpointsCreate, WebhookEndpointsCreateSubscription, ReplaysCreate
  <2> QED
    BY <2>1, <2>2
<1>2. CASE kind \in Reading
  <2>1. kind \notin Creating
    BY <1>2 DEF Creating, Reading
  <2>2. FunctionOf(kind).result = "200"
    BY <1>2 DEF Reading, FunctionOf, Function, MailboxesGetById, MailboxesGetObservability,
                MessagesGetById, ThreadsGetById, ReplaysGetById
  <2> QED
    BY <2>1, <2>2
<1> QED
  BY <1>1, <1>2

(* A request that is not over has made no rows. *)
LEMMA RowsAreMadeAtTheEnd ==
    ASSUME ApiInv, NEW c \in Calls, NEW n \in Requests, serving[c][n] # "over"
    PROVE  MadeByRequest(c, n) = {}
<1>1. SUFFICES ASSUME NEW m \in made, m.call = c, m.request = n
               PROVE  FALSE
  BY DEF MadeByRequest
<1>2. m.call # Operator
  BY <1>1, CallsAssumption
<1> QED
  BY <1>1, <1>2 DEF ApiInv, RowsInv, RowsAreAskedFor

(* What is true of the request sent last remains true, while no further      *)
(* request is sent: its rows are made in the step that ends it.              *)
LEMMA TruthIsKept ==
    ASSUME NEW d \in Calls, NEW status, Truthful(d, status),
           ask' = ask, sent'[d] = sent[d], made \subseteq made',
           serving[d][sent[d]] = "over" =>
              /\ serving'[d][sent[d]] = "over"
              /\ MadeByRequest(d, sent[d])' = MadeByRequest(d, sent[d])
    PROVE  Truthful(d, status)'
<1>1. CASE status \in Statuses
  BY <1>1 DEF Truthful, Hopeless, RefersToOthers
<1>2. CASE status \notin Statuses
  BY <1>2 DEF Truthful, Hopeless, RefersToOthers, Statuses
<1> QED
  BY <1>1, <1>2

(* Steps that make no rows keep what is known of them: a request that is     *)
(* over remains so.                                                          *)
LEMMA RowsOutlast ==
    ASSUME ApiTypeOK, RowsInv, UNCHANGED << ask, made, ended >>,
           \A d \in Calls, i \in Requests : serving[d][i] = "over" => serving'[d][i] = "over"
    PROVE  RowsInv'
<1>1. RowsAreAskedFor'
  <2>1. SUFFICES ASSUME NEW m \in made, m.call # Operator
                 PROVE  /\ m.kind = ask[m.call].kind /\ m.workspace = ask[m.call].workspace
                        /\ m.name \in ask[m.call].names
                        /\ m.request \in Requests /\ serving'[m.call][m.request] = "over"
                        /\ ~Hopeless(m.call)'
    BY DEF RowsAreAskedFor
  <2>2. m.call \in Calls
    BY <2>1 DEF ApiTypeOK
  <2>3. ~Hopeless(m.call)'
    BY <2>1 DEF RowsInv, RowsAreAskedFor, Hopeless, RefersToOthers
  <2> QED
    BY <2>1, <2>2, <2>3 DEF RowsInv, RowsAreAskedFor
<1> QED
  BY <1>1 DEF RowsInv, NamesAreUnique, RequestsAreAtomic, MadeByRequest

(* The SDK's steps serve no requests. *)
LEMMA RowsStay ==
    ASSUME ApiTypeOK, RowsInv, UNCHANGED << ask, serving, made, ended >>
    PROVE  RowsInv'
BY RowsOutlast

LEMMA TruthStays ==
    ASSUME NEW d \in Calls, NEW status, Truthful(d, status),
           UNCHANGED << ask, sent, made, serving >>
    PROVE  Truthful(d, status)'
BY TruthIsKept DEF MadeByRequest

(* A call that ends with a status which is true of it. *)
LEMMA CallEnds ==
    ASSUME ApiInv, NEW c \in Calls,
           NEW status \in Statuses \cup Failures \cup { "aborted", "invalid" },
           Truthful(c, status), Ends(c, status), UNCHANGED << ask, sent, api >>
    PROVE  ApiInv'
<1> USE DEF ApiInv
<1>1. UNCHANGED << ask, sent, serving, made, ended, revoked >>
  BY DEF api
<1>2. Told(c, status) \in [ status : Statuses \cup Failures \cup { "aborted", "invalid" },
                            as : { "result", "problem", "error" } ]
  BY DEF Told
<1>3. ApiTypeOK'
  <2>1. answer' \in [ Calls -> {NoAnswer} \cup
           [ status : Statuses \cup Failures \cup { "aborted", "invalid" },
             as : { "result", "problem", "error" } ] ]
    BY <1>2 DEF ApiTypeOK, Ends
  <2>2. /\ phase' \in [ Calls -> { "ready", "waiting", "failed", "done" } ]
        /\ reply' \in [ Calls -> Statuses \cup Failures \cup {Nothing} ]
        /\ expired' \in [ Calls -> BOOLEAN ]
    BY DEF ApiTypeOK, Ends
  <2>3. elapsed' \in [ Calls -> 0 .. MaxElapsed + 1 ]
    BY MaxElapsedAssumption DEF ApiTypeOK, Ends
  <2> QED
    BY <1>1, <2>1, <2>2, <2>3 DEF ApiTypeOK
<1>4. RowsInv'
  BY <1>1, RowsStay
<1>5. RequestsAreSent'
  BY <1>1 DEF RequestsAreSent
<1>6. RetriesAreCounted'
  BY <1>1 DEF RetriesAreCounted, Ends, ApiTypeOK
<1>7. RepliesAreTrue'
  <2>1. SUFFICES ASSUME NEW d \in Calls
                 PROVE  /\ Truthful(d, reply[d])'
                        /\ \/ answer'[d] = NoAnswer
                           \/ /\ phase'[d] = "done" /\ answer'[d] = Told(d, answer[d].status)'
                              /\ Truthful(d, answer[d].status)'
    BY DEF RepliesAreTrue
  <2>2. \A any : Told(d, any)' = Told(d, any)
    BY <1>1 DEF Told
  <2>3. CASE d = c
    <3>1. reply'[c] = Nothing /\ phase'[c] = "done" /\ answer'[c] = Told(c, status)
      BY DEF Ends, ApiTypeOK
    <3>2. Truthful(c, Nothing)'
      BY DEF Truthful, Nothing, Statuses
    <3>3. answer'[c].status = status
      BY <3>1 DEF Told
    <3>4. Truthful(c, status)'
      BY <1>1, TruthStays
    <3> QED
      BY <2>2, <2>3, <3>1, <3>2, <3>3, <3>4
  <2>4. CASE d # c
    <3>1. reply'[d] = reply[d] /\ phase'[d] = phase[d] /\ answer'[d] = answer[d]
      BY <2>4 DEF Ends, ApiTypeOK
    <3>2. Truthful(d, reply[d])
      BY DEF RepliesAreTrue
    <3>3. \A any : Truthful(d, any) => Truthful(d, any)'
      BY <1>1, TruthStays
    <3> QED
      BY <2>2, <3>1, <3>2, <3>3 DEF RepliesAreTrue
  <2> QED
    BY <2>3, <2>4
<1> QED
  BY <1>3, <1>4, <1>5, <1>6, <1>7

-----------------------------------------------------------------------------
(* The steps of the SDK. *)

LEMMA InputIsRefused ==
    ASSUME ApiInv, NEW c \in Calls, RefuseInput(c)
    PROVE  ApiInv'
<1>1. Truthful(c, "invalid")
  BY DEF RefuseInput, Truthful, Hopeless, Statuses
<1> QED
  BY <1>1, CallEnds DEF RefuseInput

LEMMA CallIsAborted ==
    ASSUME ApiInv, NEW c \in Calls, Abort(c)
    PROVE  ApiInv'
<1>1. Truthful(c, "aborted")
  BY DEF Truthful, Statuses
<1> QED
  BY <1>1, CallEnds DEF Abort

(* Steps after which the caller has its answer still to come. *)
LEMMA CallGoesOn ==
    ASSUME ApiInv, NEW c \in Calls, ApiTypeOK', RetriesAreCounted',
           phase[c] # "done",
           \A d \in Calls : d # c => phase'[d] = phase[d] /\ reply'[d] = reply[d],
           reply'[c] \in { reply[c], "unreachable" },
           UNCHANGED << ask, sent, answer, api >>
    PROVE  ApiInv'
<1> USE DEF ApiInv
<1>1. UNCHANGED << ask, sent, serving, made, ended, revoked, answer >>
  BY DEF api
<1>2. RowsInv'
  BY <1>1, RowsStay
<1>3. RequestsAreSent'
  BY <1>1 DEF RequestsAreSent
<1>4. RepliesAreTrue'
  <2>1. SUFFICES ASSUME NEW d \in Calls
                 PROVE  /\ Truthful(d, reply[d])'
                        /\ \/ answer'[d] = NoAnswer
                           \/ /\ phase'[d] = "done" /\ answer'[d] = Told(d, answer[d].status)'
                              /\ Truthful(d, answer[d].status)'
    BY DEF RepliesAreTrue
  <2>2. \A any : Told(d, any)' = Told(d, any)
    BY <1>1 DEF Told
  <2>3. \A any : Truthful(d, any) => Truthful(d, any)'
    BY <1>1, TruthStays
  <2>4. Truthful(d, "unreachable")
    BY DEF Truthful, Statuses
  <2>5. Truthful(d, reply[d])'
    BY <2>3, <2>4 DEF RepliesAreTrue
  <2> QED
    BY <1>1, <2>2, <2>3, <2>5 DEF RepliesAreTrue
<1> QED
  BY <1>2, <1>3, <1>4

LEMMA ConnectionIsLost ==
    ASSUME ApiInv, NEW c \in Calls, ConnectionBreaks(c)
    PROVE  ApiInv'
<1>1. ApiTypeOK'
  BY DEF ApiInv, ApiTypeOK, ConnectionBreaks, api, Failures
<1>2. RetriesAreCounted'
  BY DEF ApiInv, ApiTypeOK, RetriesAreCounted, ConnectionBreaks, Nothing
<1>3. reply'[c] = "unreachable"
  BY DEF ApiInv, ApiTypeOK, ConnectionBreaks
<1>4. \A d \in Calls : d # c => phase'[d] = phase[d] /\ reply'[d] = reply[d]
  BY DEF ApiInv, ApiTypeOK, ConnectionBreaks
<1> QED
  BY <1>1, <1>2, <1>3, <1>4, CallGoesOn DEF ConnectionBreaks

LEMMA TimeoutIsOver ==
    ASSUME ApiInv, NEW c \in Calls, TimeoutFires(c)
    PROVE  ApiInv'
<1>1. ApiTypeOK'
  <2>1. expired' \in [ Calls -> BOOLEAN ]
    BY DEF ApiInv, ApiTypeOK, TimeoutFires
  <2> QED
    BY <2>1 DEF ApiInv, ApiTypeOK, TimeoutFires, api, Failures
<1>2. RetriesAreCounted'
  BY DEF ApiInv, ApiTypeOK, RetriesAreCounted, TimeoutFires, Nothing
<1>3. reply'[c] \in { reply[c], "unreachable" }
  BY DEF ApiInv, ApiTypeOK, TimeoutFires
<1>4. \A d \in Calls : d # c => phase'[d] = phase[d] /\ reply'[d] = reply[d]
  BY DEF ApiInv, ApiTypeOK, TimeoutFires
<1> QED
  BY <1>1, <1>2, <1>3, <1>4, CallGoesOn DEF TimeoutFires

LEMMA CallWaits ==
    ASSUME ApiInv, NEW c \in Calls, Wait(c)
    PROVE  ApiInv'
<1>1. elapsed[c] \in Nat /\ elapsed[c] + 1 \in 0 .. MaxElapsed + 1
  BY MaxElapsedAssumption DEF ApiInv, ApiTypeOK, Wait
<1>2. ApiTypeOK'
  BY <1>1 DEF ApiInv, ApiTypeOK, Wait, api
<1>3. RetriesAreCounted'
  BY <1>1 DEF ApiInv, ApiTypeOK, RetriesAreCounted, Wait
<1>4. \A d \in Calls : d # c => phase'[d] = phase[d] /\ reply'[d] = reply[d]
  BY DEF ApiInv, ApiTypeOK, Wait
<1> QED
  BY <1>2, <1>3, <1>4, CallGoesOn DEF Wait

LEMMA AnswerIsReceived ==
    ASSUME ApiInv, NEW c \in Calls, Receive(c)
    PROVE  ApiInv'
<1>1. CASE Retryable(reply[c])
  <2>1. ApiTypeOK'
    BY <1>1 DEF ApiInv, ApiTypeOK, Receive, api
  <2>2. RetriesAreCounted'
    BY <1>1 DEF ApiInv, ApiTypeOK, RetriesAreCounted, Receive, Nothing
  <2>3. \A d \in Calls : d # c => phase'[d] = phase[d] /\ reply'[d] = reply[d]
    BY <1>1 DEF ApiInv, ApiTypeOK, Receive
  <2> QED
    BY <1>1, <2>1, <2>2, <2>3, CallGoesOn DEF Receive
<1>2. CASE ~Retryable(reply[c])
  <2>1. reply[c] \in Statuses \cup Failures
    BY DEF ApiInv, ApiTypeOK, Receive
  <2>2. Truthful(c, reply[c])
    BY DEF ApiInv, RepliesAreTrue
  <2> QED
    BY <1>2, <2>1, <2>2, CallEnds DEF Receive
<1> QED
  BY <1>1, <1>2

LEMMA CallIsGivenUp ==
    ASSUME ApiInv, NEW c \in Calls, GiveUp(c)
    PROVE  ApiInv'
<1>1. reply[c] \in Statuses \cup Failures
  BY DEF ApiInv, ApiTypeOK, RetriesAreCounted, GiveUp
<1>2. Truthful(c, reply[c])
  BY DEF ApiInv, RepliesAreTrue
<1> QED
  BY <1>1, <1>2, CallEnds DEF GiveUp

(* A request is sent that the API has not seen: its row is a new one, and    *)
(* the answer is not there yet.                                              *)
LEMMA RequestIsSent ==
    ASSUME ApiInv, NEW c \in Calls, Send(c), ~expired[c]
    PROVE  ApiInv'
<1> USE DEF ApiInv
<1> DEFINE n == sent[c] + 1
<1>1. /\ phase' = [ phase EXCEPT ![c] = "waiting" ]
      /\ reply' = [ reply EXCEPT ![c] = Nothing ]
      /\ sent' = [ sent EXCEPT ![c] = n ]
      /\ serving' = [ serving EXCEPT ![c] = [ serving[c] EXCEPT ![n] = "arrived" ] ]
      /\ UNCHANGED << ask, elapsed, expired, answer, made, ended, revoked >>
      /\ phase[c] = "ready" /\ ask[c].fault # "input"
  BY DEF Send
<1>2. sent[c] \in Nat /\ elapsed[c] \in Nat /\ sent[c] <= elapsed[c] /\ elapsed[c] <= MaxElapsed + 1
  BY <1>1, MaxElapsedAssumption DEF ApiTypeOK, RetriesAreCounted, Requests
<1>3. n \in Requests
  BY <1>2, MaxElapsedAssumption DEF Requests
<1>4. serving[c][n] = "none"
  <2>1. ~(n <= sent[c])
    BY <1>2
  <2> QED
    BY <1>3, <2>1 DEF RequestsAreSent
<1> HIDE DEF n
<1>5. ApiTypeOK'
  <2>1. [ serving[c] EXCEPT ![n] = "arrived" ] \in
           [ Requests -> { "none", "arrived", "admitted", "over" } ]
    BY <1>3 DEF ApiTypeOK
  <2>2. serving' \in [ Calls -> [ Requests -> { "none", "arrived", "admitted", "over" } ] ]
    BY <1>1, <2>1 DEF ApiTypeOK
  <2>3. sent' \in [ Calls -> {0} \cup Requests ]
    BY <1>1, <1>3 DEF ApiTypeOK
  <2> QED
    BY <1>1, <2>2, <2>3 DEF ApiTypeOK
<1>6. \A d \in Calls, i \in Requests :
         serving'[d][i] = IF d = c /\ i = n THEN "arrived" ELSE serving[d][i]
  BY <1>1, <1>3 DEF ApiTypeOK
<1>7. \A d \in Calls : sent'[d] = IF d = c THEN n ELSE sent[d]
  BY <1>1 DEF ApiTypeOK
<1>8. RowsInv'
  <2>1. \A d \in Calls, i \in Requests : serving[d][i] = "over" => serving'[d][i] = "over"
    BY <1>4, <1>6
  <2> QED
    BY <1>1, <2>1, RowsOutlast
<1>9. RequestsAreSent'
  <2>1. SUFFICES ASSUME NEW d \in Calls, NEW i \in Requests
                 PROVE  /\ serving'[d][i] # "none" => i <= sent'[d] /\ ask[d].fault # "input"
                        /\ serving'[d][i] = "admitted" => ask[d].fault \notin { "body", "no key" }
    BY <1>1 DEF RequestsAreSent
  <2>2. i \in Nat /\ n = sent[c] + 1
    BY MaxElapsedAssumption DEF Requests, n
  <2>3. /\ serving[d][i] # "none" => i <= sent[d] /\ ask[d].fault # "input"
        /\ serving[d][i] = "admitted" => ask[d].fault \notin { "body", "no key" }
    BY DEF RequestsAreSent
  <2>4. CASE d = c
    <3>1. i <= sent[c] => i <= n
      BY <1>2, <2>2
    <3>2. sent'[d] = n
      BY <1>7, <2>4
    <3>3. CASE i = n
      <4>1. serving'[d][i] = "arrived"
        BY <1>6, <2>4, <3>3
      <4>2. i <= n
        BY <2>2, <3>3
      <4>3. ask[d].fault # "input"
        BY <1>1, <2>4
      <4> QED
        BY <3>2, <4>1, <4>2, <4>3
    <3>4. CASE i # n
      <4>1. serving'[d][i] = serving[d][i]
        BY <1>6, <3>4
      <4> QED
        BY <2>3, <2>4, <3>1, <3>2, <4>1
    <3> QED
      BY <3>3, <3>4
  <2>5. CASE d # c
    BY <1>6, <1>7, <2>3, <2>5
  <2> QED
    BY <2>4, <2>5
<1>10. RetriesAreCounted'
  <2>1. n <= elapsed[c] + 1
    BY <1>2 DEF n
  <2> QED
    BY <1>1, <1>7, <2>1 DEF RetriesAreCounted, ApiTypeOK
<1>11. RepliesAreTrue'
  <2>1. SUFFICES ASSUME NEW d \in Calls
                 PROVE  /\ Truthful(d, reply[d])'
                        /\ \/ answer'[d] = NoAnswer
                           \/ /\ phase'[d] = "done" /\ answer'[d] = Told(d, answer[d].status)'
                              /\ Truthful(d, answer[d].status)'
    BY DEF RepliesAreTrue
  <2>2. CASE d = c
    <3>1. reply'[c] = Nothing /\ answer'[c] = NoAnswer
      BY <1>1 DEF ApiTypeOK, RepliesAreTrue
    <3>2. Truthful(c, Nothing)'
      BY DEF Truthful, Nothing, Statuses
    <3> QED
      BY <2>2, <3>1, <3>2
  <2>3. CASE d # c
    <3>1. reply'[d] = reply[d] /\ phase'[d] = phase[d] /\ answer'[d] = answer[d]
      BY <1>1, <2>3 DEF ApiTypeOK
    <3>2. sent'[d] = sent[d] /\ serving'[d] = serving[d]
      BY <1>1, <2>3 DEF ApiTypeOK
    <3>3. \A any : Truthful(d, any) => Truthful(d, any)'
      BY <1>1, <3>2, TruthIsKept DEF MadeByRequest
    <3>4. \A any : Told(d, any)' = Told(d, any)
      BY <1>1 DEF Told
    <3> QED
      BY <3>1, <3>3, <3>4 DEF RepliesAreTrue
  <2> QED
    BY <2>2, <2>3
<1> QED
  BY <1>5, <1>8, <1>9, <1>10, <1>11

LEMMA CallIsSent ==
    ASSUME ApiInv, NEW c \in Calls, Send(c)
    PROVE  ApiInv'
<1>1. CASE expired[c]
  <2>1. ApiTypeOK'
    BY <1>1 DEF ApiInv, ApiTypeOK, Send, Failures
  <2>2. RetriesAreCounted'
    <3>1. sent[c] \in Nat /\ elapsed[c] \in Nat
      BY MaxElapsedAssumption DEF ApiInv, ApiTypeOK, Requests
    <3> QED
      BY <1>1, <3>1 DEF ApiInv, ApiTypeOK, RetriesAreCounted, Send, Nothing
  <2>3. reply'[c] = "unreachable"
    BY <1>1 DEF ApiInv, ApiTypeOK, Send
  <2>4. \A d \in Calls : d # c => phase'[d] = phase[d] /\ reply'[d] = reply[d]
    BY <1>1 DEF ApiInv, ApiTypeOK, Send
  <2> QED
    BY <1>1, <2>1, <2>2, <2>3, <2>4, CallGoesOn DEF Send, api
<1>2. CASE ~expired[c]
  BY <1>2, RequestIsSent
<1> QED
  BY <1>1, <1>2

-----------------------------------------------------------------------------
(* The steps of the API. *)

(* What an answer changes, in the client and in the API.                     *)
LEMMA WhatAnswersDo ==
    ASSUME ApiTypeOK, NEW c \in Calls, NEW n \in Requests, NEW status, Answers(c, n, status)
    PROVE  /\ \A d \in Calls, i \in Requests :
                serving'[d][i] = IF d = c /\ i = n THEN "over" ELSE serving[d][i]
           /\ serving' \in [ Calls -> [ Requests -> { "none", "arrived", "admitted", "over" } ] ]
           /\ \A d \in Calls :
                reply'[d] = IF d = c /\ phase[c] = "waiting" /\ sent[c] = n
                            THEN status ELSE reply[d]
           /\ status \in Statuses =>
                reply' \in [ Calls -> Statuses \cup Failures \cup {Nothing} ]
<1> DEFINE served == [ serving[c] EXCEPT ![n] = "over" ]
<1>1. serving' = [ serving EXCEPT ![c] = served ]
  BY DEF Answers
<1>2. served \in [ Requests -> { "none", "arrived", "admitted", "over" } ]
  BY DEF ApiTypeOK
<1>3. \A i \in Requests : served[i] = IF i = n THEN "over" ELSE serving[c][i]
  BY DEF ApiTypeOK
<1> HIDE DEF served
<1>4. serving' \in [ Calls -> [ Requests -> { "none", "arrived", "admitted", "over" } ] ]
  BY <1>1, <1>2 DEF ApiTypeOK
<1>5. \A d \in Calls, i \in Requests :
         serving'[d][i] = IF d = c /\ i = n THEN "over" ELSE serving[d][i]
  BY <1>1, <1>3 DEF ApiTypeOK
<1>6. \A d \in Calls :
         reply'[d] = IF d = c /\ phase[c] = "waiting" /\ sent[c] = n THEN status ELSE reply[d]
  BY DEF ApiTypeOK, Answers
<1>7. status \in Statuses => reply' \in [ Calls -> Statuses \cup Failures \cup {Nothing} ]
  BY DEF ApiTypeOK, Answers
<1> QED
  BY <1>4, <1>5, <1>6, <1>7

(* A request that ends keeps the invariant when the rows it makes do, and    *)
(* when its status is true of it.                                            *)
LEMMA RequestIsAnswered ==
    ASSUME ApiInv, NEW c \in Calls, NEW n \in Requests, NEW status \in Statuses,
           serving[c][n] \in { "arrived", "admitted" },
           Answers(c, n, status),
           UNCHANGED << ask, phase, sent, elapsed, expired, answer, ended, revoked >>,
           made \subseteq made',
           made' \subseteq [ kind : Creating, workspace : Workspaces, name : Names,
                             call : Calls \cup {Operator}, request : {0} \cup Requests ],
           \A m \in made' \ made : m.call = c /\ m.request = n,
           RowsInv',
           sent[c] = n => Truthful(c, status)'
    PROVE  ApiInv'
<1> USE DEF ApiInv
<1>1. /\ \A d \in Calls, i \in Requests :
           serving'[d][i] = IF d = c /\ i = n THEN "over" ELSE serving[d][i]
      /\ serving' \in [ Calls -> [ Requests -> { "none", "arrived", "admitted", "over" } ] ]
      /\ \A d \in Calls :
           reply'[d] = IF d = c /\ phase[c] = "waiting" /\ sent[c] = n
                       THEN status ELSE reply[d]
      /\ reply' \in [ Calls -> Statuses \cup Failures \cup {Nothing} ]
  BY WhatAnswersDo
<1>2. ApiTypeOK'
  BY <1>1 DEF ApiTypeOK
<1>3. RequestsAreSent'
  <2>1. SUFFICES ASSUME NEW d \in Calls, NEW i \in Requests
                 PROVE  /\ serving'[d][i] # "none" => i <= sent[d] /\ ask[d].fault # "input"
                        /\ serving'[d][i] = "admitted" => ask[d].fault \notin { "body", "no key" }
    BY DEF RequestsAreSent
  <2>2. CASE d = c /\ i = n
    BY <1>1, <2>2 DEF RequestsAreSent
  <2>3. CASE ~(d = c /\ i = n)
    BY <1>1, <2>3 DEF RequestsAreSent
  <2> QED
    BY <2>2, <2>3
<1>4. RetriesAreCounted'
  BY <1>1 DEF RetriesAreCounted, Statuses, Nothing
<1>5. RepliesAreTrue'
  <2>1. SUFFICES ASSUME NEW d \in Calls
                 PROVE  /\ Truthful(d, reply[d])'
                        /\ \/ answer'[d] = NoAnswer
                           \/ /\ phase'[d] = "done" /\ answer'[d] = Told(d, answer[d].status)'
                              /\ Truthful(d, answer[d].status)'
    BY DEF RepliesAreTrue
  <2>2. \A any : Told(d, any)' = Told(d, any)
    BY DEF Told
  <2>3. ASSUME NEW any, Truthful(d, any)
        PROVE  Truthful(d, any)'
    <3>1. CASE any \in Statuses
      <4>1. sent[d] \in Requests /\ serving[d][sent[d]] = "over"
        BY <2>3, <3>1 DEF Truthful
      <4>2. ~(d = c /\ sent[d] = n)
        BY <4>1
      <4>3. serving'[d][sent[d]] = "over"
        BY <1>1, <4>1
      <4>4. MadeByRequest(d, sent[d])' = MadeByRequest(d, sent[d])
        BY <4>2 DEF MadeByRequest
      <4> QED
        BY <2>3, <4>3, <4>4, TruthIsKept
    <3>2. CASE any \notin Statuses
      BY <2>3, <3>2 DEF Truthful, Hopeless, RefersToOthers, Statuses
    <3> QED
      BY <3>1, <3>2
  <2>4. Truthful(d, reply[d])'
    BY <1>1, <2>3 DEF RepliesAreTrue
  <2> QED
    BY <2>2, <2>3, <2>4 DEF RepliesAreTrue
<1> QED
  BY <1>2, <1>3, <1>4, <1>5

(* A request that ends without making rows, with a status that says so.      *)
LEMMA RequestMakesNothing ==
    ASSUME ApiInv, NEW c \in Calls, NEW n \in Requests, NEW status \in Statuses,
           serving[c][n] \in { "arrived", "admitted" },
           Answers(c, n, status),
           UNCHANGED << ask, phase, sent, elapsed, expired, answer, made, ended, revoked >>,
           status # "201",
           status = "200" => ask[c].kind \in Reading /\ ask[c].owner = ask[c].workspace,
           status \in { "400", "404" } => Hopeless(c),
           status = "409" =>
             \E m \in made : /\ m.kind = ask[c].kind /\ m.workspace = ask[c].workspace
                             /\ m.name \in ask[c].names
    PROVE  ApiInv'
<1>1. \A d \in Calls, i \in Requests :
         serving'[d][i] = IF d = c /\ i = n THEN "over" ELSE serving[d][i]
  BY WhatAnswersDo DEF ApiInv
<1>2. RowsInv'
  BY <1>1, RowsOutlast DEF ApiInv
<1>3. MadeByRequest(c, n)' = {}
  BY RowsAreMadeAtTheEnd DEF MadeByRequest
<1>4. sent[c] = n => Truthful(c, status)'
  BY <1>1, <1>3 DEF Truthful, Hopeless, RefersToOthers, Statuses
<1> QED
  BY <1>2, <1>4, RequestIsAnswered DEF ApiInv, ApiTypeOK

LEMMA RequestFails ==
    ASSUME ApiInv, NEW c \in Calls, NEW n \in Requests, ApiFails(c, n)
    PROVE  ApiInv'
BY RequestMakesNothing DEF ApiFails, Statuses

LEMMA RequestIsAdmitted ==
    ASSUME ApiInv, NEW c \in Calls, NEW n \in Requests, Admit(c, n)
    PROVE  ApiInv'
<1>1. CASE ~BodyIsValid(c) \/ ask[c].fault = "no key"
  <2>1. Hopeless(c)
    BY <1>1 DEF Hopeless, BodyIsValid
  <2> QED
    BY <1>1, <2>1, RequestMakesNothing DEF Admit, Statuses
<1>2. CASE BodyIsValid(c) /\ ask[c].fault # "no key" /\ ~KeyIsKnown(c)
  BY <1>2, RequestMakesNothing DEF Admit, Statuses
<1>3. CASE BodyIsValid(c) /\ ask[c].fault # "no key" /\ KeyIsKnown(c)
  <2> USE DEF ApiInv
  <2> DEFINE served == [ serving[c] EXCEPT ![n] = "admitted" ]
  <2>1. /\ serving' = [ serving EXCEPT ![c] = served ]
        /\ UNCHANGED << ask, phase, sent, elapsed, expired, reply, answer, made, ended, revoked >>
        /\ serving[c][n] = "arrived" /\ ask[c].fault \notin { "body", "no key" }
    BY <1>3 DEF Admit, BodyIsValid
  <2>2. served \in [ Requests -> { "none", "arrived", "admitted", "over" } ]
    BY DEF ApiTypeOK
  <2>3. \A i \in Requests : served[i] = IF i = n THEN "admitted" ELSE serving[c][i]
    BY DEF ApiTypeOK
  <2> HIDE DEF served
  <2>4. ApiTypeOK'
    BY <2>1, <2>2 DEF ApiTypeOK
  <2>5. \A d \in Calls, i \in Requests :
           serving'[d][i] = IF d = c /\ i = n THEN "admitted" ELSE serving[d][i]
    BY <2>1, <2>3 DEF ApiTypeOK
  <2>6. RowsInv'
    <3>1. \A d \in Calls, i \in Requests : serving[d][i] = "over" => serving'[d][i] = "over"
      BY <2>1, <2>5, ZenonT(60)
    <3> QED
      BY <2>1, <3>1, RowsOutlast
  <2>7. RequestsAreSent'
    <3>1. SUFFICES ASSUME NEW d \in Calls, NEW i \in Requests
                   PROVE  /\ serving'[d][i] # "none" => i <= sent[d] /\ ask[d].fault # "input"
                          /\ serving'[d][i] = "admitted" => ask[d].fault \notin { "body", "no key" }
      BY <2>1 DEF RequestsAreSent
    <3>2. CASE d = c /\ i = n
      BY <2>1, <3>2 DEF RequestsAreSent
    <3>3. CASE ~(d = c /\ i = n)
      BY <2>5, <3>3 DEF RequestsAreSent
    <3> QED
      BY <3>2, <3>3
  <2>8. RetriesAreCounted'
    BY <2>1 DEF RetriesAreCounted
  <2>9. RepliesAreTrue'
    <3>1. SUFFICES ASSUME NEW d \in Calls, NEW any, Truthful(d, any)
                   PROVE  Truthful(d, any)'
      <4>1. \A d \in Calls : \A any : Told(d, any)' = Told(d, any)
        BY <2>1 DEF Told
      <4> QED
        BY <2>1, <4>1 DEF RepliesAreTrue
    <3>2. CASE any \in Statuses
      <4>1. sent[d] \in Requests /\ serving[d][sent[d]] = "over"
        BY <3>1, <3>2 DEF Truthful
      <4>2. serving'[d][sent[d]] = "over"
        BY <2>1, <2>5, <4>1
      <4> QED
        BY <2>1, <3>1, <4>2, TruthIsKept DEF MadeByRequest
    <3>3. CASE any \notin Statuses
      BY <2>1, <3>1, <3>3 DEF Truthful, Hopeless, RefersToOthers, Statuses
    <3> QED
      BY <3>2, <3>3
  <2> QED
    BY <2>4, <2>6, <2>7, <2>8, <2>9
<1> QED
  BY <1>1, <1>2, <1>3

-----------------------------------------------------------------------------
(* The handlers. *)

(* The rows that a request makes are new, are all that it asked for, and are *)
(* held against nobody.                                                      *)
LEMMA RequestMakesItsRows ==
    ASSUME ApiInv, NEW c \in Calls, NEW n \in Requests, serving[c][n] = "admitted",
           ask[c].kind \in Creating, ~Hopeless(c), Existing(c) = {},
           made' = made \cup NewRows(c, n, ask[c].names),
           Answers(c, n, "201"),
           UNCHANGED << ask, phase, sent, elapsed, expired, answer, ended, revoked >>
    PROVE  ApiInv'
<1> USE DEF ApiInv
<1> DEFINE new == NewRows(c, n, ask[c].names)
<1>1. \A m \in new : /\ m.kind = ask[c].kind /\ m.workspace = ask[c].workspace
                     /\ m.name \in ask[c].names /\ m.call = c /\ m.request = n
                     /\ m.call # Operator
  BY CallsAssumption DEF NewRows
<1>2. \A l, m \in new : l.name = m.name => l = m
  BY DEF NewRows
<1>3. ASSUME NEW x \in ask[c].names
      PROVE  \E m \in new : m.name = x
  <2> DEFINE row == [ kind |-> ask[c].kind, workspace |-> ask[c].workspace, name |-> x,
                      call |-> c, request |-> n ]
  <2>1. row \in new
    BY DEF NewRows
  <2>2. row.name = x
    OBVIOUS
  <2> QED
    BY <2>1, <2>2
<1>4. new \subseteq [ kind : Creating, workspace : Workspaces, name : Names,
                      call : Calls \cup {Operator}, request : {0} \cup Requests ]
  BY AsksAreTyped DEF NewRows
<1>5. MadeByRequest(c, n) = {}
  BY RowsAreMadeAtTheEnd
<1> HIDE DEF new
<1>6. made' = made \cup new
  BY DEF new
<1>7. new \cap made = {}
  BY <1>1, <1>5 DEF MadeByRequest
<1>8. \A d \in Calls, i \in Requests :
         serving'[d][i] = IF d = c /\ i = n THEN "over" ELSE serving[d][i]
  BY WhatAnswersDo
<1>9. ~Hopeless(c)' /\ (\A d : Hopeless(d)' = Hopeless(d))
  BY DEF Hopeless, RefersToOthers
<1>10. MadeByRequest(c, n)' = new
  BY <1>1, <1>5, <1>6 DEF MadeByRequest
<1>11. RowsAreAskedFor'
  <2>1. SUFFICES ASSUME NEW m \in made', m.call # Operator
                 PROVE  /\ m.kind = ask[m.call].kind /\ m.workspace = ask[m.call].workspace
                        /\ m.name \in ask[m.call].names
                        /\ m.request \in Requests /\ serving'[m.call][m.request] = "over"
                        /\ ~Hopeless(m.call)
    BY <1>9 DEF RowsAreAskedFor
  <2>2. CASE m \in new
    BY <1>1, <1>8, <2>2
  <2>3. CASE m \in made
    BY <1>8, <2>1, <2>3 DEF RowsInv, RowsAreAskedFor, ApiTypeOK
  <2> QED
    BY <1>6, <2>2, <2>3
<1>12. NamesAreUnique'
  <2>1. ASSUME NEW l \in made' \ ended', NEW m \in made' \ ended',
               m.kind # "session", l.kind = m.kind, l.workspace = m.workspace, l.name = m.name
        PROVE  l = m
    <3>1. CASE l \in new /\ m \in new
      BY <1>2, <2>1, <3>1
    <3>2. CASE l \in made /\ m \in made
      BY <2>1, <3>2 DEF RowsInv, NamesAreUnique
    <3>3. ASSUME NEW old \in made \ ended, NEW young \in new, young.kind # "session",
                 old.kind = young.kind, old.workspace = young.workspace, old.name = young.name
          PROVE  FALSE
      <4>1. old \in Existing(c)
        BY <1>1, <3>3 DEF Existing
      <4> QED
        BY <4>1
    <3>4. CASE l \in made /\ m \in new
      BY <2>1, <3>3, <3>4
    <3>5. CASE l \in new /\ m \in made
      BY <2>1, <3>3, <3>5
    <3> QED
      BY <1>6, <3>1, <3>2, <3>4, <3>5
  <2> QED
    BY <2>1 DEF NamesAreUnique
<1>13. RequestsAreAtomic'
  <2>1. ASSUME NEW d \in Calls, NEW i \in Requests
        PROVE  { m.name : m \in MadeByRequest(d, i)' } \in { {}, ask[d].names }
    <3>1. CASE d = c /\ i = n
      <4>1. { m.name : m \in new } = ask[c].names
        BY <1>1, <1>3
      <4> QED
        BY <1>10, <3>1, <4>1
    <3>2. CASE ~(d = c /\ i = n)
      <4>1. MadeByRequest(d, i)' = MadeByRequest(d, i)
        BY <1>1, <1>6, <3>2 DEF MadeByRequest
      <4> QED
        BY <4>1 DEF RowsInv, RequestsAreAtomic
    <3> QED
      BY <3>1, <3>2
  <2> QED
    BY <2>1 DEF RequestsAreAtomic
<1>14. sent[c] = n => Truthful(c, "201")'
  <2>1. SUFFICES ASSUME sent[c] = n
                 PROVE  Truthful(c, "201")'
    OBVIOUS
  <2>2. { << m.name, m.workspace >> : m \in new } = ask[c].names \X {ask[c].workspace}
    BY <1>1, <1>3
  <2>3. serving'[c][n] = "over"
    BY <1>8
  <2> QED
    BY <1>10, <2>1, <2>2, <2>3 DEF Truthful
<1>15. "201" \in Statuses
  BY DEF Statuses
<1>16. \A m \in made' \ made : m.call = c /\ m.request = n
  BY <1>1, <1>6
<1>17. made' \subseteq [ kind : Creating, workspace : Workspaces, name : Names,
                         call : Calls \cup {Operator}, request : {0} \cup Requests ]
  BY <1>4, <1>6 DEF ApiTypeOK
<1> QED
  BY <1>6, <1>11, <1>12, <1>13, <1>14, <1>15, <1>16, <1>17, RequestIsAnswered DEF RowsInv

LEMMA RequestCreates ==
    ASSUME ApiInv, NEW c \in Calls, NEW n \in Requests, serving[c][n] = "admitted",
           ask[c].kind \in Creating, ~Hopeless(c), Creates(c, n),
           UNCHANGED << ask, phase, sent, elapsed, expired, answer, ended, revoked >>
    PROVE  ApiInv'
<1>1. CASE Existing(c) = {}
  BY <1>1, RequestMakesItsRows DEF Creates, Insert
<1>2. CASE Existing(c) # {}
  <2>1. made' = made /\ Answers(c, n, "409")
    BY <1>2 DEF Creates, Insert
  <2>2. \E m \in made : /\ m.kind = ask[c].kind /\ m.workspace = ask[c].workspace
                        /\ m.name \in ask[c].names
    BY <1>2 DEF Existing
  <2> QED
    BY <2>1, <2>2, RequestMakesNothing DEF Statuses
<1> QED
  BY <1>1, <1>2

LEMMA RequestIsHandled ==
    ASSUME ApiInv, NEW c \in Calls, NEW n \in Requests, Handle(c, n)
    PROVE  ApiInv'
<1>1. /\ serving[c][n] = "admitted"
      /\ UNCHANGED << ask, phase, sent, elapsed, expired, answer, ended, revoked >>
  BY DEF Handle
<1>2. ask[c].fault \notin { "input", "body", "no key" }
  BY <1>1 DEF ApiInv, RequestsAreSent
<1>3. CASE CreateConnectSession(c, n)
  <2>1. ask[c].kind = "session" /\ Creates(c, n)
    BY <1>3 DEF CreateConnectSession
  <2>2. ask[c].kind \in Creating /\ ~Hopeless(c)
    BY <1>2, <2>1 DEF Creating, Reading, Hopeless
  <2> QED
    BY <1>1, <2>1, <2>2, RequestCreates
<1>4. CASE CreateWebhookEndpoint(c, n)
  <2>1. ask[c].kind = "endpoint" /\ Creates(c, n)
    BY <1>4 DEF CreateWebhookEndpoint
  <2>2. ask[c].kind \in Creating /\ ~Hopeless(c)
    BY <1>2, <2>1 DEF Creating, Reading, Hopeless
  <2> QED
    BY <1>1, <2>1, <2>2, RequestCreates
<1>5. CASE CreateSubscription(c, n)
  <2>1. CASE RefersToOthers(c)
    <3>1. Hopeless(c)
      BY <1>5, <2>1 DEF CreateSubscription, Hopeless
    <3>2. Answers(c, n, "404") /\ UNCHANGED made
      BY <1>5, <2>1 DEF CreateSubscription, AnswersOnly
    <3> QED
      BY <1>1, <3>1, <3>2, RequestMakesNothing DEF Statuses
  <2>2. CASE ~RefersToOthers(c)
    <3>1. ask[c].kind = "subscription" /\ Creates(c, n)
      BY <1>5, <2>2 DEF CreateSubscription
    <3>2. ask[c].kind \in Creating /\ ~Hopeless(c)
      BY <1>2, <2>2, <3>1 DEF Creating, Reading, Hopeless
    <3> QED
      BY <1>1, <3>1, <3>2, RequestCreates
  <2> QED
    BY <2>1, <2>2
<1>6. CASE CreateReplay(c, n)
  <2>1. ask[c].kind = "replay"
    BY <1>6 DEF CreateReplay
  <2>2. CASE ask[c].fault = "range"
    <3>1. Hopeless(c)
      BY <2>1, <2>2 DEF Hopeless
    <3>2. Answers(c, n, "400") /\ UNCHANGED made
      BY <1>6, <2>2 DEF CreateReplay, AnswersOnly
    <3> QED
      BY <1>1, <3>1, <3>2, RequestMakesNothing DEF Statuses
  <2>3. CASE ask[c].fault # "range" /\ RefersToOthers(c)
    <3>1. Hopeless(c)
      BY <2>1, <2>3 DEF Hopeless
    <3>2. Answers(c, n, "404") /\ UNCHANGED made
      BY <1>6, <2>3 DEF CreateReplay, AnswersOnly
    <3> QED
      BY <1>1, <3>1, <3>2, RequestMakesNothing DEF Statuses
  <2>4. CASE ask[c].fault # "range" /\ ~RefersToOthers(c)
    <3>1. Creates(c, n)
      BY <1>6, <2>4 DEF CreateReplay
    <3>2. ask[c].kind \in Creating /\ ~Hopeless(c)
      BY <1>2, <2>1, <2>4 DEF Creating, Reading, Hopeless
    <3> QED
      BY <1>1, <3>1, <3>2, RequestCreates
  <2> QED
    BY <2>2, <2>3, <2>4
<1>7. CASE Get(c, n)
  <2>1. ask[c].kind \in Reading /\ Hopeless(c)
    BY <1>7 DEF Get, Hopeless
  <2>2. CASE RefersToOthers(c)
    <3>1. Answers(c, n, "404") /\ UNCHANGED made
      BY <1>7, <2>2 DEF Get, AnswersOnly
    <3> QED
      BY <1>1, <2>1, <3>1, RequestMakesNothing DEF Statuses
  <2>3. CASE ~RefersToOthers(c)
    <3>1. Answers(c, n, "200") /\ UNCHANGED made
      BY <1>7, <2>3 DEF Get, AnswersOnly
    <3>2. ask[c].owner = ask[c].workspace
      BY <2>3 DEF RefersToOthers
    <3> QED
      BY <1>1, <2>1, <3>1, <3>2, RequestMakesNothing DEF Statuses
  <2> QED
    BY <2>2, <2>3
<1> QED
  BY <1>3, <1>4, <1>5, <1>6, <1>7 DEF Handle

-----------------------------------------------------------------------------
(* The steps of others: a control job, and an operator's commands. *)

(* The client and the requests stay as they are, and rows are only added.    *)
LEMMA ReplayGetsCompleted ==
    ASSUME ApiInv, NEW r \in made, ReplayIsCompleted(r)
    PROVE  ApiInv'
<1> USE DEF ApiInv
<1>1. /\ UNCHANGED << ask, phase, sent, elapsed, expired, reply, answer, serving, made, revoked >>
      /\ ended' = ended \cup {r} /\ r \in made
  BY DEF ReplayIsCompleted, client
<1>2. ApiTypeOK'
  BY <1>1 DEF ApiTypeOK
<1>3. RowsInv'
  <2>1. NamesAreUnique'
    BY <1>1 DEF RowsInv, NamesAreUnique
  <2>2. RowsAreAskedFor'
    BY <1>1 DEF RowsInv, RowsAreAskedFor, Hopeless, RefersToOthers
  <2>3. RequestsAreAtomic'
    BY <1>1 DEF RowsInv, RequestsAreAtomic, MadeByRequest
  <2> QED
    BY <2>1, <2>2, <2>3 DEF RowsInv
<1>4. RequestsAreSent' /\ RetriesAreCounted'
  BY <1>1 DEF RequestsAreSent, RetriesAreCounted
<1>5. RepliesAreTrue'
  BY <1>1, TruthStays DEF RepliesAreTrue, Told
<1> QED
  BY <1>2, <1>3, <1>4, <1>5

LEMMA OperatorMakesAnEndpoint ==
    ASSUME ApiInv, NEW c \in Calls, NEW x \in Names, PrepareLocalReplay(c, x)
    PROVE  ApiInv'
<1> USE DEF ApiInv
<1> DEFINE row == [ kind |-> "endpoint", workspace |-> ask[c].workspace, name |-> x,
                    call |-> Operator, request |-> 0 ]
<1>1. /\ UNCHANGED << ask, phase, sent, elapsed, expired, reply, answer, serving, ended, revoked >>
      /\ made' = made \cup {row} /\ x \in ask[c].names /\ ask[c].kind = "endpoint"
      /\ Existing(c) = {} /\ (\A m \in made : m.call # Operator)
  BY DEF PrepareLocalReplay, client
<1>2. row \in [ kind : Creating, workspace : Workspaces, name : Names,
                call : Calls \cup {Operator}, request : {0} \cup Requests ]
  BY AsksAreTyped DEF Creating
<1>3. /\ row.call = Operator /\ row.kind = ask[c].kind /\ row.workspace = ask[c].workspace
      /\ row.name = x
  BY <1>1
<1> HIDE DEF row
<1>4. ApiTypeOK'
  BY <1>1, <1>2 DEF ApiTypeOK
<1>5. \A d \in Calls : \A i : MadeByRequest(d, i)' = MadeByRequest(d, i)
  BY <1>1, <1>3, CallsAssumption DEF MadeByRequest
<1>6. RowsInv'
  <2>1. RowsAreAskedFor'
    BY <1>1, <1>3 DEF RowsInv, RowsAreAskedFor, Hopeless, RefersToOthers
  <2>2. NamesAreUnique'
    <3>1. \A m \in made \ ended : m.kind = row.kind /\ m.workspace = row.workspace => m.name # row.name
      BY <1>1, <1>3 DEF Existing
    <3> QED
      BY <1>1, <3>1 DEF RowsInv, NamesAreUnique
  <2>3. RequestsAreAtomic'
    BY <1>1, <1>5 DEF RowsInv, RequestsAreAtomic
  <2> QED
    BY <2>1, <2>2, <2>3 DEF RowsInv
<1>7. RequestsAreSent' /\ RetriesAreCounted'
  BY <1>1 DEF RequestsAreSent, RetriesAreCounted
<1>8. RepliesAreTrue'
  <2>1. \A d \in Calls : \A any : Truthful(d, any) => Truthful(d, any)'
    BY <1>1, <1>5, TruthIsKept
  <2> QED
    BY <1>1, <2>1 DEF RepliesAreTrue, Told
<1> QED
  BY <1>4, <1>6, <1>7, <1>8

LEMMA KeyIsRevoked ==
    ASSUME ApiInv, NEW w \in Workspaces, RevokeKeyOf(w)
    PROVE  ApiInv'
<1> USE DEF ApiInv
<1>1. /\ UNCHANGED << ask, phase, sent, elapsed, expired, reply, answer, serving, made, ended >>
      /\ revoked' = {w}
  BY DEF RevokeKeyOf, client
<1>2. ApiTypeOK'
  BY <1>1 DEF ApiTypeOK
<1>3. RowsInv'
  BY <1>1, RowsStay
<1>4. RequestsAreSent' /\ RetriesAreCounted'
  BY <1>1 DEF RequestsAreSent, RetriesAreCounted
<1>5. RepliesAreTrue'
  BY <1>1, TruthStays DEF RepliesAreTrue, Told
<1> QED
  BY <1>2, <1>3, <1>4, <1>5

-----------------------------------------------------------------------------

LEMMA ApiInitially == ApiInit => ApiInv
<1> SUFFICES ASSUME ApiInit
             PROVE  ApiInv
  OBVIOUS
<1>1. ApiTypeOK
  BY MaxElapsedAssumption DEF ApiInit, ApiTypeOK
<1>2. RowsInv
  BY DEF ApiInit, RowsInv, RowsAreAskedFor, NamesAreUnique, RequestsAreAtomic, MadeByRequest
<1>3. RequestsAreSent /\ RetriesAreCounted
  BY DEF ApiInit, RequestsAreSent, RetriesAreCounted
<1>4. RepliesAreTrue
  BY DEF ApiInit, RepliesAreTrue, Truthful, Nothing, Statuses
<1> QED
  BY <1>1, <1>2, <1>3, <1>4 DEF ApiInv

LEMMA ApiStep ==
    ASSUME ApiInv, [ApiNext]_apiVars
    PROVE  ApiInv'
<1>1. ASSUME NEW c \in Calls,
             \/ RefuseInput(c) \/ Send(c) \/ ConnectionBreaks(c) \/ TimeoutFires(c)
             \/ Abort(c) \/ Receive(c) \/ Wait(c) \/ GiveUp(c)
      PROVE  ApiInv'
  BY <1>1, InputIsRefused, CallIsSent, ConnectionIsLost, TimeoutIsOver, CallIsAborted,
     AnswerIsReceived, CallWaits, CallIsGivenUp
<1>2. ASSUME NEW c \in Calls, NEW x \in Names, PrepareLocalReplay(c, x)
      PROVE  ApiInv'
  BY <1>2, OperatorMakesAnEndpoint
<1>3. ASSUME NEW c \in Calls, NEW n \in Requests, Admit(c, n) \/ Handle(c, n) \/ ApiFails(c, n)
      PROVE  ApiInv'
  BY <1>3, RequestIsAdmitted, RequestIsHandled, RequestFails
<1>4. ASSUME NEW m \in made, ReplayIsCompleted(m)
      PROVE  ApiInv'
  BY <1>4, ReplayGetsCompleted
<1>5. ASSUME NEW w \in Workspaces, RevokeKeyOf(w)
      PROVE  ApiInv'
  BY <1>5, KeyIsRevoked
<1>6. ASSUME UNCHANGED apiVars
      PROVE  ApiInv'
  <2>1. UNCHANGED << ask, phase, sent, elapsed, expired, reply, answer, serving, made, ended, revoked >>
    BY <1>6 DEF apiVars, client, api
  <2>2. RowsInv'
    BY <2>1, RowsStay DEF ApiInv
  <2>3. RepliesAreTrue'
    BY <2>1, TruthStays DEF ApiInv, RepliesAreTrue, Told
  <2> QED
    BY <2>1, <2>2, <2>3 DEF ApiInv, ApiTypeOK, RequestsAreSent, RetriesAreCounted
<1> QED
  BY <1>1, <1>2, <1>3, <1>4, <1>5, <1>6 DEF ApiNext

(* However requests are lost, repeated and handled side by side, what the    *)
(* SDK holds of a call is true of the request it sent last, and the rows of  *)
(* every request are all of those it asked for, or none.                     *)
THEOREM ApiInvariance == ApiSpec => []ApiInv
<1> QED
  BY ApiInitially, ApiStep, PTL DEF ApiSpec

(* Every variable of the SDK and of the API keeps its type: a call never     *)
(* sends more requests than its retry loop allows.                           *)
THEOREM ApiTypeCorrectness == ApiSpec => []ApiTypeOK
<1>1. ApiInv => ApiTypeOK
  BY DEF ApiInv
<1> QED
  BY <1>1, ApiInvariance, PTL

(* For any number of calls and repeated requests, with no idempotency key:   *)
(* a call creates an endpoint once, all of its subscriptions once or none,   *)
(* and a replay again only when the one before is completed.                 *)
THEOREM CallCreatesOnceAlways == ApiSpec => []CallCreatesOnce
<1>1. ApiInv => CallCreatesOnce
  <2>1. SUFFICES ASSUME ApiInv, NEW c \in Calls
                 PROVE  /\ \A m, n \in MadeBy(c) \ ended :
                             m.kind # "session" /\ m.name = n.name => m = n
                        /\ { m.name : m \in MadeBy(c) } \in { {}, ask[c].names }
    BY DEF CallCreatesOnce
  <2>2. \A m \in MadeBy(c) : /\ m \in made /\ m.call = c /\ m.kind = ask[c].kind
                             /\ m.workspace = ask[c].workspace
                             /\ m.name \in ask[c].names /\ m.request \in Requests
    BY <2>1, CallsAssumption DEF MadeBy, ApiInv, RowsInv, RowsAreAskedFor
  <2>3. \A m, n \in MadeBy(c) \ ended : m.kind # "session" /\ m.name = n.name => m = n
    BY <2>1, <2>2 DEF ApiInv, RowsInv, NamesAreUnique
  <2>4. ASSUME NEW m \in MadeBy(c)
        PROVE  { l.name : l \in MadeBy(c) } = ask[c].names
    <3>1. m \in MadeByRequest(c, m.request) /\ MadeByRequest(c, m.request) \subseteq MadeBy(c)
      BY <2>2 DEF MadeBy, MadeByRequest
    <3>2. { l.name : l \in MadeByRequest(c, m.request) } \in { {}, ask[c].names }
      BY <2>1, <2>2 DEF ApiInv, RowsInv, RequestsAreAtomic
    <3>3. { l.name : l \in MadeByRequest(c, m.request) } = ask[c].names
      BY <3>1, <3>2
    <3> QED
      BY <2>2, <3>1, <3>3
  <2>5. MadeBy(c) = {} => { l.name : l \in MadeBy(c) } = {}
    OBVIOUS
  <2> QED
    BY <2>3, <2>4, <2>5
<1> QED
  BY <1>1, ApiInvariance, PTL

(* What the caller is told agrees with what its requests have done: a result *)
(* is what the last of them made, or read in its own workspace, a refusal    *)
(* made nothing, and a conflict is with another call or with an earlier      *)
(* request of its own.                                                       *)
THEOREM AnswerTellsWhatHappenedAlways == ApiSpec => []AnswerTellsWhatHappened
<1>1. ApiInv => AnswerTellsWhatHappened
  <2>1. SUFFICES ASSUME ApiInv, NEW c \in Calls, NEW mine, NEW status,
                        mine = { m \in MadeBy(c) : m.request = sent[c] },
                        status = answer[c].status
                 PROVE  /\ answer[c].as = "result" =>
                             IF ask[c].kind \in Creating
                             THEN { << m.name, m.workspace >> : m \in mine }
                                    = ask[c].names \X {ask[c].workspace}
                             ELSE ask[c].owner = ask[c].workspace
                        /\ status \in { "400", "404", "invalid" } => MadeBy(c) = {}
                        /\ status \in { "401", "409", "500" } => mine = {}
                        /\ status = "409" =>
                             \E m \in made \ mine : /\ m.kind = ask[c].kind
                                                    /\ m.workspace = ask[c].workspace
                                                    /\ m.name \in ask[c].names
    BY DEF AnswerTellsWhatHappened
  <2>2. mine = MadeByRequest(c, sent[c])
    BY <2>1 DEF MadeBy, MadeByRequest
  <2>3. CASE answer[c] = NoAnswer
    BY <2>1, <2>3 DEF NoAnswer, Nothing
  <2>4. CASE answer[c] = Told(c, status) /\ Truthful(c, status)
    <3>1. answer[c].as = "result" => status = FunctionOf(ask[c].kind).result
      BY <2>4 DEF Told
    <3>2. ask[c].kind \in Creating \cup Reading /\ (ask[c].kind \in Creating => ask[c].kind \notin Reading)
      BY <2>1, AsksAreTyped DEF ApiInv
    <3>3. /\ ask[c].kind \in Creating => FunctionOf(ask[c].kind).result = "201"
          /\ ask[c].kind \in Reading => FunctionOf(ask[c].kind).result = "200"
      BY <3>2, ResultsOfFunctions
    <3>4. Hopeless(c) => MadeBy(c) = {}
      BY <2>1, CallsAssumption DEF MadeBy, ApiInv, RowsInv, RowsAreAskedFor
    <3>5. answer[c].as = "result" =>
            IF ask[c].kind \in Creating
            THEN { << m.name, m.workspace >> : m \in mine } = ask[c].names \X {ask[c].workspace}
            ELSE ask[c].owner = ask[c].workspace
      BY <2>2, <2>4, <3>1, <3>2, <3>3 DEF Truthful
    <3>6. /\ status \in { "400", "404", "invalid" } => Hopeless(c)
          /\ status \in { "401", "409", "500" } => mine = {}
          /\ status = "409" =>
               \E m \in made : /\ m.kind = ask[c].kind /\ m.workspace = ask[c].workspace
                               /\ m.name \in ask[c].names
      BY <2>2, <2>4 DEF Truthful
    <3> QED
      BY <3>4, <3>5, <3>6
  <2> QED
    BY <2>1, <2>3, <2>4 DEF ApiInv, RepliesAreTrue
<1> QED
  BY <1>1, ApiInvariance, PTL

-----------------------------------------------------------------------------
(* The worker's routes. *)

(* A message may be acknowledged on a route: its processor has handled it    *)
(* there, or it is one of those that are dropped on purpose.                 *)
MayAcknowledge(to) ==
    \/ to \in handled
    \/ to = "dead letter" /\ ~Decodes(to)
    \/ AcceptedUnseen(to)

(* What a request has passed when it stands where it does.                   *)
StageIsEarned ==
    \A p \in Pushes :
        /\ posting[p].at \in { "authorized", "decoded" } =>
             mode = "local" \/ posting[p].token = "trusted"
        /\ posting[p].at = "answered" /\ Acknowledges(posting[p].status) =>
             MayAcknowledge(posting[p].to)

RouteInv ==
    /\ RouteTypeOK /\ untrusted = FALSE /\ StageIsEarned
    /\ fate = "acknowledged" => MayAcknowledge(route)

(* What a request is, for RouteTypeOK. *)
Stages == { "unsent", "sent", "authorized", "decoded", "answered", "over" }
StatusCodes == { 0, 200, 202, 400, 401, 403, 404, 500, 502 }
RequestRecord == [ at : Stages, to : RouteNames, token : IdTokens, status : StatusCodes ]

LEMMA RequestsAreTyped ==
    ASSUME RouteTypeOK
    PROVE  /\ posting \in [ Pushes -> RequestRecord ]
           /\ handled \subseteq RouteNames /\ route \in RouteNames
BY DEF RouteTypeOK, RequestRecord, Stages, StatusCodes

(* One request goes on, while the message, the sender's view and what was    *)
(* handled before stay: what it has earned is what is left to show.          *)
LEMMA RequestGoesOn ==
    ASSUME RouteInv, NEW p \in Pushes,
           posting' \in [ Pushes -> RequestRecord ],
           \A q \in Pushes : q # p => posting'[q] = posting[q],
           UNCHANGED << mode, route, body, fate, tried >>,
           handled \subseteq handled', handled' \subseteq RouteNames, untrusted' = FALSE,
           posting'[p].at \in { "authorized", "decoded" } =>
              mode = "local" \/ posting'[p].token = "trusted",
           posting'[p].at = "answered" /\ Acknowledges(posting'[p].status) =>
              MayAcknowledge(posting[p].to)'
    PROVE  RouteInv'
<1>1. RouteTypeOK'
  BY ZenonT(60) DEF RouteInv, RouteTypeOK, RequestRecord, Stages, StatusCodes
<1>2. \A to : MayAcknowledge(to) => MayAcknowledge(to)'
  BY DEF MayAcknowledge, Decodes, AcceptedUnseen
<1>3. StageIsEarned'
  <2>1. SUFFICES ASSUME NEW q \in Pushes
                 PROVE  /\ posting'[q].at \in { "authorized", "decoded" } =>
                             mode' = "local" \/ posting'[q].token = "trusted"
                        /\ posting'[q].at = "answered" /\ Acknowledges(posting'[q].status) =>
                             MayAcknowledge(posting[q].to)'
    BY DEF StageIsEarned, Acknowledges
  <2>2. CASE q = p
    BY <2>2
  <2>3. CASE q # p
    BY <1>2, <2>3 DEF RouteInv, StageIsEarned
  <2> QED
    BY <2>2, <2>3
<1>4. fate' = "acknowledged" => MayAcknowledge(route)'
  BY <1>2 DEF RouteInv, MayAcknowledge
<1> QED
  BY <1>1, <1>3, <1>4 DEF RouteInv

LEMMA CodesOfStatuses ==
    /\ 200 \in StatusCodes /\ 202 \in StatusCodes /\ 400 \in StatusCodes /\ 401 \in StatusCodes
    /\ 403 \in StatusCodes /\ 404 \in StatusCodes /\ 500 \in StatusCodes /\ 502 \in StatusCodes
BY DEF StatusCodes

(* A request is answered with a status that its stage has earned.            *)
LEMMA RequestGetsAnswer ==
    ASSUME RouteInv, NEW p \in Pushes,
           NEW status \in StatusCodes, Answer(p, status),
           UNCHANGED << mode, route, body, fate, tried >>,
           handled \subseteq handled', handled' \subseteq RouteNames, untrusted' = FALSE,
           Acknowledges(status) => MayAcknowledge(posting[p].to)
                                     \/ posting[p].to \in handled'
    PROVE  RouteInv'
<1>1. posting \in [ Pushes -> RequestRecord ]
  BY RequestsAreTyped DEF RouteInv
<1> DEFINE next == [ posting[p] EXCEPT !.at = "answered", !.status = status ]
<1>2. posting' = [ posting EXCEPT ![p] = next ]
  BY DEF Answer
<1>3. "answered" \in Stages
  BY DEF Stages
<1>4. /\ next \in RequestRecord /\ next.at = "answered" /\ next.status = status
      /\ next.to = posting[p].to
  BY <1>1, <1>3 DEF RequestRecord
<1> HIDE DEF next
<1>5. posting' \in [ Pushes -> RequestRecord ]
  BY <1>1, <1>2, <1>4
<1>6. posting'[p] = next /\ (\A q \in Pushes : q # p => posting'[q] = posting[q])
  BY <1>1, <1>2
<1>7. Acknowledges(status) => MayAcknowledge(posting[p].to)'
  BY <1>4, <1>6 DEF MayAcknowledge, Decodes, AcceptedUnseen
<1> QED
  BY <1>4, <1>5, <1>6, <1>7, RequestGoesOn

LEMMA RequestIsPushed ==
    ASSUME RouteInv, NEW p \in Pushes, NEW token \in IdTokens, Push(p, token)
    PROVE  RouteInv'
<1>1. posting \in [ Pushes -> RequestRecord ] /\ route \in RouteNames /\ handled \subseteq RouteNames
  BY RequestsAreTyped DEF RouteInv
<1> DEFINE next == [ posting[p] EXCEPT !.at = "sent", !.to = route, !.token = token ]
<1>2. posting' = [ posting EXCEPT ![p] = next ]
  BY DEF Push
<1>3. next \in RequestRecord /\ next.at = "sent"
  <2>1. "sent" \in Stages
    BY DEF Stages
  <2> QED
    BY <1>1, <2>1 DEF RequestRecord
<1> HIDE DEF next
<1>4. posting' \in [ Pushes -> RequestRecord ]
  BY <1>1, <1>2, <1>3
<1>5. posting'[p] = next /\ (\A q \in Pushes : q # p => posting'[q] = posting[q])
  BY <1>1, <1>2
<1>6. UNCHANGED << mode, route, body, fate, tried, handled, untrusted >> /\ untrusted' = FALSE
  BY DEF Push, RouteInv
<1> QED
  BY <1>1, <1>3, <1>4, <1>5, <1>6, RequestGoesOn

LEMMA RequestIsAuthorized ==
    ASSUME RouteInv, NEW p \in Pushes, Authorize(p)
    PROVE  RouteInv'
<1>1. posting \in [ Pushes -> RequestRecord ] /\ handled \subseteq RouteNames
  BY RequestsAreTyped DEF RouteInv
<1>2. /\ UNCHANGED << mode, route, body, fate, tried, handled, untrusted >>
      /\ untrusted' = FALSE
  BY DEF Authorize, RouteInv
<1>3. CASE AuthorizationStatus(posting[p].token) = 0
  <2> DEFINE next == [ posting[p] EXCEPT !.at = "authorized" ]
  <2>1. posting' = [ posting EXCEPT ![p] = next ]
    BY <1>3 DEF Authorize
  <2>2. next \in RequestRecord /\ next.at = "authorized" /\ next.token = posting[p].token
    BY <1>1 DEF RequestRecord, Stages
  <2> HIDE DEF next
  <2>4. posting' \in [ Pushes -> RequestRecord ]
    BY <1>1, <2>1, <2>2
  <2>5. posting'[p] = next /\ (\A q \in Pushes : q # p => posting'[q] = posting[q])
    BY <1>1, <2>1
  <2>3. mode = "local" \/ posting[p].token = "trusted"
    BY <1>3 DEF AuthorizationStatus
  <2> QED
    BY <1>1, <1>2, <2>2, <2>3, <2>4, <2>5, RequestGoesOn
<1>4. CASE AuthorizationStatus(posting[p].token) # 0
  <2>1. AuthorizationStatus(posting[p].token) \in { 401, 403 }
    BY <1>4 DEF AuthorizationStatus
  <2>2. ~Acknowledges(AuthorizationStatus(posting[p].token))
    BY <2>1 DEF Acknowledges
  <2>3. Answer(p, AuthorizationStatus(posting[p].token))
    BY <1>4 DEF Authorize
  <2>4. AuthorizationStatus(posting[p].token) \in StatusCodes
    BY <2>1, CodesOfStatuses
  <2> QED
    BY <1>1, <1>2, <2>2, <2>3, <2>4, RequestGetsAnswer
<1> QED
  BY <1>3, <1>4

LEMMA RequestIsDecoded ==
    ASSUME RouteInv, NEW p \in Pushes, Decode(p)
    PROVE  RouteInv'
<1>1. posting \in [ Pushes -> RequestRecord ] /\ handled \subseteq RouteNames
  BY RequestsAreTyped DEF RouteInv
<1>2. /\ UNCHANGED << mode, route, body, fate, tried, handled, untrusted >>
      /\ untrusted' = FALSE /\ posting[p].at = "authorized"
  BY DEF Decode, RouteInv
<1>3. CASE AcceptedUnseen(posting[p].to)
  <2>1. Answer(p, 202) /\ MayAcknowledge(posting[p].to)
    BY <1>3 DEF Decode, MayAcknowledge
  <2> QED
    BY <1>1, <1>2, <2>1, RequestGetsAnswer, CodesOfStatuses
<1>4. CASE ~AcceptedUnseen(posting[p].to) /\ body = "no JSON"
  <2>1. Answer(p, 500)
    BY <1>4 DEF Decode
  <2>2. ~Acknowledges(500)
    BY DEF Acknowledges
  <2> QED
    BY <1>1, <1>2, <2>1, <2>2, RequestGetsAnswer, CodesOfStatuses, ZenonT(60)
<1>5. CASE ~AcceptedUnseen(posting[p].to) /\ body # "no JSON" /\ Decodes(posting[p].to)
  <2> DEFINE next == [ posting[p] EXCEPT !.at = "decoded" ]
  <2>1. posting' = [ posting EXCEPT ![p] = next ]
    BY <1>5 DEF Decode
  <2>2. next \in RequestRecord /\ next.at = "decoded" /\ next.token = posting[p].token
    BY <1>1 DEF RequestRecord, Stages
  <2> HIDE DEF next
  <2>4. posting' \in [ Pushes -> RequestRecord ]
    BY <1>1, <2>1, <2>2
  <2>5. posting'[p] = next /\ (\A q \in Pushes : q # p => posting'[q] = posting[q])
    BY <1>1, <2>1
  <2>3. mode = "local" \/ posting[p].token = "trusted"
    BY <1>2 DEF RouteInv, StageIsEarned
  <2> QED
    BY <1>1, <1>2, <2>2, <2>3, <2>4, <2>5, RequestGoesOn
<1>6. CASE ~AcceptedUnseen(posting[p].to) /\ body # "no JSON" /\ ~Decodes(posting[p].to)
  <2>1. Answer(p, InvalidStatus(posting[p].to))
    BY <1>6 DEF Decode
  <2>2. InvalidStatus(posting[p].to) \in { 200, 400 }
    BY DEF InvalidStatus
  <2>3. Acknowledges(InvalidStatus(posting[p].to)) => MayAcknowledge(posting[p].to)
    <3>1. CASE posting[p].to = "dead letter"
      BY <1>6, <3>1 DEF MayAcknowledge
    <3>2. CASE posting[p].to # "dead letter"
      <4>1. InvalidStatus(posting[p].to) = 400
        BY <3>2 DEF InvalidStatus
      <4> QED
        BY <4>1 DEF Acknowledges
    <3> QED
      BY <3>1, <3>2
  <2>4. InvalidStatus(posting[p].to) \in StatusCodes
    BY <2>2, CodesOfStatuses
  <2> QED
    BY <1>1, <1>2, <2>1, <2>3, <2>4, RequestGetsAnswer
<1> QED
  BY <1>3, <1>4, <1>5, <1>6

(* A processor runs only for a request that was authorized.                  *)
LEMMA ProcessorIsTrusted ==
    ASSUME RouteInv, NEW p \in Pushes, RunsProcessor(p)
    PROVE  untrusted' = FALSE
<1>1. mode = "local" \/ posting[p].token = "trusted"
  BY DEF RunsProcessor, RouteInv, StageIsEarned
<1> QED
  BY <1>1 DEF RunsProcessor, RouteInv

LEMMA MessageIsHandled ==
    ASSUME RouteInv, NEW p \in Pushes, ProcessorSucceeds(p)
    PROVE  RouteInv'
<1>1. posting[p].to \in RouteNames /\ handled \subseteq RouteNames
  BY RequestsAreTyped DEF RouteInv, RequestRecord
<1>2. SuccessStatus(posting[p].to) \in { 200, 202 }
  BY DEF SuccessStatus
<1>3. untrusted' = FALSE
  BY ProcessorIsTrusted DEF ProcessorSucceeds
<1>4. handled' = handled \cup {posting[p].to} /\ Answer(p, SuccessStatus(posting[p].to))
  BY DEF ProcessorSucceeds
<1>5. UNCHANGED << mode, route, body, fate, tried >>
  BY DEF ProcessorSucceeds, RunsProcessor
<1>6. SuccessStatus(posting[p].to) \in StatusCodes
  BY <1>2, CodesOfStatuses
<1> QED
  BY <1>1, <1>3, <1>4, <1>5, <1>6, RequestGetsAnswer

LEMMA MessageIsNotHandled ==
    ASSUME RouteInv, NEW p \in Pushes, NEW status \in { 404, 500, 502 }, ProcessorFails(p, status)
    PROVE  RouteInv'
<1>1. handled' = handled /\ handled \subseteq RouteNames
  BY ZenonT(60) DEF RouteInv, RouteTypeOK, ProcessorFails
<1>2. ProblemStatus(posting[p].to, status) \in { 404, 500, 502 }
  <2>1. ProblemStatus(posting[p].to, status) \in { 500, status }
    BY DEF ProblemStatus
  <2> QED
    BY <2>1
<1>3. ~Acknowledges(ProblemStatus(posting[p].to, status))
  BY <1>2 DEF Acknowledges
<1>4. untrusted' = FALSE
  BY ProcessorIsTrusted DEF ProcessorFails
<1>5. Answer(p, ProblemStatus(posting[p].to, status)) /\ UNCHANGED << mode, route, body, fate, tried >>
  BY DEF ProcessorFails, RunsProcessor
<1>6. ProblemStatus(posting[p].to, status) \in StatusCodes
  BY <1>2, CodesOfStatuses
<1> QED
  BY <1>1, <1>3, <1>4, <1>5, <1>6, RequestGetsAnswer

LEMMA RequestIsLost ==
    ASSUME RouteInv, NEW p \in Pushes, RequestDies(p)
    PROVE  RouteInv'
<1>1. /\ Answer(p, 500) /\ ~Acknowledges(500)
      /\ UNCHANGED << mode, route, body, fate, tried, handled, untrusted >>
  BY DEF RequestDies, Acknowledges
<1>2. handled \subseteq RouteNames /\ untrusted = FALSE
  BY RequestsAreTyped DEF RouteInv
<1> QED
  BY <1>1, <1>2, RequestGetsAnswer, CodesOfStatuses, ZenonT(60)

(* The request is over, whatever the sender makes of the answer. *)
LEMMA RequestIsOver ==
    ASSUME RouteInv, NEW p \in Pushes, posting' = [ posting EXCEPT ![p] = NoRequest("over") ],
           UNCHANGED << mode, body, handled, untrusted >>,
           route' \in RouteNames, tried' \in 0..MaxPushes,
           fate' \in { "unacknowledged", "acknowledged", "given up" },
           fate' = "acknowledged" => MayAcknowledge(route)'
    PROVE  RouteInv'
<1> USE DEF RouteInv
<1>1. posting \in [ Pushes -> RequestRecord ]
  BY RequestsAreTyped
<1>2. NoRequest("over") \in RequestRecord /\ NoRequest("over").at = "over"
  BY ZenonT(60) DEF NoRequest, RequestRecord, Stages, StatusCodes, RouteNames, IdTokens
<1>3. /\ posting' \in [ Pushes -> RequestRecord ]
      /\ \A q \in Pushes : posting'[q] = IF q = p THEN NoRequest("over") ELSE posting[q]
  BY <1>1, <1>2
<1>4. RouteTypeOK'
  BY <1>3, ZenonT(60) DEF RouteTypeOK, RequestRecord, Stages, StatusCodes
<1>5. StageIsEarned'
  BY <1>2, <1>3 DEF StageIsEarned, MayAcknowledge, Decodes, AcceptedUnseen
<1> QED
  BY <1>4, <1>5

LEMMA SenderLearns ==
    ASSUME RouteInv, NEW p \in Pushes, SenderSees(p) \/ AnswerIsLost(p)
    PROVE  RouteInv'
<1> USE DEF RouteInv
<1>1. /\ posting' = [ posting EXCEPT ![p] = NoRequest("over") ] /\ posting[p].at = "answered"
      /\ UNCHANGED << mode, body, handled, untrusted >>
  BY DEF SenderSees, AnswerIsLost
<1>2. route' \in RouteNames
  BY ZenonT(60) DEF SenderSees, AnswerIsLost, RouteTypeOK, RouteNames
<1>3. tried' \in 0..MaxPushes
  <2>1. tried' \in { 0, tried } \/ (tried' = tried + 1 /\ tried + 1 < MaxPushes)
    BY DEF SenderSees, AnswerIsLost
  <2>2. tried \in 0..MaxPushes
    BY DEF RouteTypeOK
  <2> QED
    BY <2>1, <2>2, PushesAssumption
<1>4. fate' \in { "unacknowledged", "acknowledged", "given up" }
  BY ZenonT(60) DEF SenderSees, AnswerIsLost, RouteTypeOK
<1>5. fate' = "acknowledged" => MayAcknowledge(route)'
  <2>1. \A to : MayAcknowledge(to) => MayAcknowledge(to)'
    BY <1>1 DEF MayAcknowledge, Decodes, AcceptedUnseen
  <2>2. CASE fate' = fate /\ route' = route
    BY <2>1, <2>2 DEF MayAcknowledge
  <2>3. CASE /\ posting[p].to = route /\ Acknowledges(posting[p].status)
             /\ route' = route /\ fate' = "acknowledged"
    <3>1. MayAcknowledge(route)
      BY <1>1, <2>3 DEF StageIsEarned
    <3> QED
      BY <2>1, <2>3, <3>1 DEF MayAcknowledge
  <2>4. CASE fate = "unacknowledged" /\ fate' # "acknowledged"
    BY <2>4
  <2> QED
    BY <2>2, <2>3, <2>4 DEF SenderSees, AnswerIsLost
<1> QED
  BY <1>1, <1>2, <1>3, <1>4, <1>5, RequestIsOver

LEMMA RoutesInitially == RouteInit => RouteInv
<1> SUFFICES ASSUME RouteInit
             PROVE  RouteInv
  OBVIOUS
<1>1. NoRequest("unsent") \in RequestRecord /\ NoRequest("unsent").at = "unsent"
  BY DEF NoRequest, RequestRecord, Stages, StatusCodes, RouteNames, IdTokens
<1>2. posting \in [ Pushes -> RequestRecord ]
  BY <1>1 DEF RouteInit
<1>3. RouteTypeOK
  <2>1. posting \in [ Pushes -> [ at : { "unsent", "sent", "authorized", "decoded", "answered", "over" },
                                 to : RouteNames, token : IdTokens,
                                 status : { 0, 200, 202, 400, 401, 403, 404, 500, 502 } ] ]
    BY <1>2 DEF RequestRecord, Stages, StatusCodes
  <2>2. tried \in 0..MaxPushes
    BY PushesAssumption DEF RouteInit
  <2> QED
    BY <2>1, <2>2 DEF RouteInit, RouteTypeOK
<1>4. StageIsEarned
  BY <1>1 DEF RouteInit, StageIsEarned
<1> QED
  BY <1>3, <1>4 DEF RouteInit, RouteInv

LEMMA RouteStep ==
    ASSUME RouteInv, [RouteNext]_routeVars
    PROVE  RouteInv'
<1>1. ASSUME NEW p \in Pushes, NEW token \in IdTokens, Push(p, token)
      PROVE  RouteInv'
  BY <1>1, RequestIsPushed
<1>2. ASSUME NEW p \in Pushes, NEW status \in { 404, 500, 502 }, ProcessorFails(p, status)
      PROVE  RouteInv'
  BY <1>2, MessageIsNotHandled
<1>3. ASSUME NEW p \in Pushes,
             \/ Authorize(p) \/ Decode(p) \/ ProcessorSucceeds(p) \/ RequestDies(p)
             \/ SenderSees(p) \/ AnswerIsLost(p)
      PROVE  RouteInv'
  BY <1>3, RequestIsAuthorized, RequestIsDecoded, MessageIsHandled, RequestIsLost, SenderLearns
<1>4. CASE UNCHANGED routeVars
  <2>1. UNCHANGED << mode, route, body, fate, tried, posting, handled, untrusted >>
    BY <1>4 DEF routeVars
  <2>2. RouteTypeOK'
    BY <2>1, ZenonT(60) DEF RouteInv, RouteTypeOK
  <2>3. \A to : MayAcknowledge(to)' = MayAcknowledge(to)
    BY <2>1 DEF MayAcknowledge, Decodes, AcceptedUnseen
  <2>4. StageIsEarned'
    BY <2>1, <2>3 DEF RouteInv, StageIsEarned
  <2>5. fate' = "acknowledged" => MayAcknowledge(route)'
    BY <2>1, <2>3 DEF RouteInv
  <2> QED
    BY <2>1, <2>2, <2>4, <2>5 DEF RouteInv
<1> QED
  BY <1>1, <1>2, <1>3, <1>4 DEF RouteNext

(* Wherever a request stands, it has passed what comes before: the token of  *)
(* a request that a processor sees is trusted, and an acknowledgement that   *)
(* is under way is earned on the route it was sent to.                       *)
THEOREM RouteInvariance == RouteSpec => []RouteInv
<1> QED
  BY RoutesInitially, RouteStep, PTL DEF RouteSpec

(* Every variable of the routes keeps its type: the worker answers with one  *)
(* of the statuses that its senders know.                                    *)
THEOREM RouteTypeCorrectness == RouteSpec => []RouteTypeOK
<1>1. RouteInv => RouteTypeOK
  BY DEF RouteInv
<1> QED
  BY <1>1, RouteInvariance, PTL

(* A message that its sender forgets was handled by the processor of its     *)
(* route, at the request of a trusted sender, however requests overlap and   *)
(* answers get lost; but for those that are dropped on purpose.              *)
THEOREM AcknowledgedWasHandledAlways == RouteSpec => []AcknowledgedWasHandled
<1>1. RouteInv => AcknowledgedWasHandled
  BY DEF RouteInv, AcknowledgedWasHandled, MayAcknowledge
<1> QED
  BY <1>1, RouteInvariance, PTL

=============================================================================
