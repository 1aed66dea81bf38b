------------------------------- MODULE Paging -------------------------------
(***************************************************************************)
(* A client that pages through ONE mailbox's messages, threads or sync     *)
(* runs while syncs change them.  A page is one statement; between pages   *)
(* the API keeps nothing: the cursor holds the sort key and the id of the  *)
(* last row listed, and the SDK's iterator asks with it for the next page. *)
(***************************************************************************)
EXTENDS Naturals, FiniteSets

CONSTANTS
    Rows,     \* ids, which break ties of the sort key
    SortKeys, \* receivedAt, lastMessageAt, startedAt
    Limits    \* page sizes a client may ask for

Absent == 0
FromTheTop == [ key |-> Absent, id |-> Absent ]
NoNext == FromTheTop

ASSUME PagingAssumption ==
    /\ Rows \subseteq Nat \ {0} /\ IsFiniteSet(Rows)
    /\ SortKeys \subseteq Nat \ {Absent} /\ IsFiniteSet(SortKeys)
    /\ Limits \subseteq Nat \ {0}

VARIABLES
    resource, \* what is listed
    stored,   \* the sort key of every row there is
    limit,    \* the page size of this listing
    position, \* the cursor of the next page
    listing,  \* whether there is a next page
    listed,   \* the rows the client has got, each with the key it had
    repeated, \* history: a row came again with the same key
    steady    \* history: rows that have been there, unchanged, since the first page

cursors == << limit, position, listing, listed, repeated >>
pagingVars == << resource, stored, cursors, steady >>

PagingTypeOK ==
    /\ resource \in { "messages", "threads", "sync_runs" }
    /\ stored \in [ Rows -> SortKeys \cup {Absent} ]
    /\ limit \in Limits
    /\ position \in [ key : SortKeys \cup {Absent}, id : Rows \cup {Absent} ]
    /\ listing \in { "first", "next", "over", "problem", "error" }
    /\ listed \subseteq SortKeys \X Rows
    /\ repeated \in BOOLEAN
    /\ steady \subseteq { r \in Rows : stored[r] # Absent }

PagingInit ==
    /\ resource \in { "messages", "threads", "sync_runs" }
    /\ stored \in [ Rows -> SortKeys \cup {Absent} ]
    /\ limit \in Limits
    /\ position = FromTheTop /\ listing = "first"
    /\ listed = {} /\ repeated = FALSE
    /\ steady = { r \in Rows : stored[r] # Absent }

-----------------------------------------------------------------------------

(* Mutant: the cursor compares the sort key alone. *)
OlderThan(r, cursor) == stored[r] < cursor.key

(* The WHERE clause of a page after a cursor. *)
ComesAfter(r, cursor) ==
    \/ stored[r] < cursor.key
    \/ stored[r] = cursor.key /\ r < cursor.id

(* ORDER BY key DESC, id DESC. *)
Before(r, s) == stored[r] > stored[s] \/ (stored[r] = stored[s] /\ r > s)

(* Without a cursor, every row. *)
Remaining ==
    { r \in Rows : stored[r] # Absent /\ (position = FromTheTop \/ ComesAfter(r, position)) }

(* The first n of a set of rows. *)
Top(rows, n) == { r \in rows : Cardinality({ s \in rows : Before(s, r) }) < n }

Last(rows) == CHOOSE r \in rows : \A s \in rows \ {r} : Before(s, r)

(* What encodePaginationCursor keeps of a row, and decoding gives back. *)
CursorOf(r) == [ key |-> stored[r], id |-> r ]

(* LIMIT limit + 1 tells whether another page follows; its row is not shown. *)
Page ==
    LET shown == Top(Remaining, limit) IN
      [ rows |-> shown,
        next |-> IF Cardinality(Remaining) > limit THEN CursorOf(Last(shown)) ELSE NoNext ]

Paginating == listing \in { "first", "next" }

(* The SDK's iterator stops at a page without a next cursor or without rows. *)
FetchPage ==
    /\ Paginating
    /\ listed' = listed \cup { << stored[r], r >> : r \in Page.rows }
    /\ repeated' = (repeated \/ \E r \in Page.rows : << stored[r], r >> \in listed)
    /\ IF Page.next = NoNext \/ Page.rows = {}
       THEN listing' = "over" /\ UNCHANGED position
       ELSE listing' = "next" /\ position' = Page.next
    /\ UNCHANGED << resource, stored, limit, steady >>

(* The SDK's function for a resource: the answers it reads as a page and   *)
(* those it reads as a problem.                                            *)
MessagesList == [ pages |-> {200}, problems |-> {400} ]
ThreadsList == [ pages |-> {200}, problems |-> {400} ]
MailboxesListSyncRuns == [ pages |-> {200}, problems |-> {400} ]

ListFunction ==
    CASE resource = "messages"  -> MessagesList
      [] resource = "threads"   -> ThreadsList
      [] resource = "sync_runs" -> MailboxesListSyncRuns

(* It stops, too, at a page that could not be fetched, 0 standing for no     *)
(* answer: a problem that the function declares is told as one, the problem  *)
(* of a mailbox that is not found is an error like any other.                *)
FetchFails(status) ==
    /\ Paginating /\ status \notin ListFunction.pages
    /\ listing' = IF status \in ListFunction.problems THEN "problem" ELSE "error"
    /\ UNCHANGED << resource, stored, limit, position, listed, repeated, steady >>

-----------------------------------------------------------------------------
(* What syncs do to the rows meanwhile. *)

(* A message or thread may be of any age, a sync run starts now. *)
AddRow(r, k) ==
    /\ Paginating /\ stored[r] = Absent
    /\ resource = "sync_runs" => \A s \in Rows : stored[s] <= k
    /\ stored' = [ stored EXCEPT ![r] = k ]
    /\ UNCHANGED << resource, cursors, steady >>

(* A thread moves with its latest message. *)
MoveThread(r, k) ==
    /\ Paginating /\ resource = "threads"
    /\ stored[r] \notin {Absent, k}
    /\ stored' = [ stored EXCEPT ![r] = k ]
    /\ steady' = steady \ {r}
    /\ UNCHANGED << resource, cursors >>

(* Sync runs are never deleted. *)
DeleteRow(r) ==
    /\ Paginating /\ resource # "sync_runs"
    /\ stored[r] # Absent
    /\ stored' = [ stored EXCEPT ![r] = Absent ]
    /\ steady' = steady \ {r}
    /\ UNCHANGED << resource, cursors >>

PagingNext ==
    \/ FetchPage
    \/ \E status \in { 0, 400, 404, 500 } : FetchFails(status)
    \/ \E r \in Rows : DeleteRow(r) \/ \E k \in SortKeys : AddRow(r, k) \/ MoveThread(r, k)

PagingSpec == PagingInit /\ [][PagingNext]_pagingVars

-----------------------------------------------------------------------------

(* Whatever is added, moved or deleted between the pages, the row under the  *)
(* cursor included: no row comes twice with the same key, and a listing that *)
(* is over and did not fail has shown every row that stayed where it was.    *)
StableRowsListedOnce ==
    /\ ~repeated
    /\ listing = "over" => \A r \in steady : << stored[r], r >> \in listed

=============================================================================
