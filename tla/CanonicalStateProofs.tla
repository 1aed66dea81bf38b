------------------------- MODULE CanonicalStateProofs -------------------------
(***************************************************************************)
(* Proofs about the canonical state, for any number of messages, threads,  *)
(* changes in Gmail and resets of the cursor: types, that no change is     *)
(* missed, that threads follow messages, and that events tell the state.   *)
(***************************************************************************)
EXTENDS CanonicalState, WellFoundedInduction, TLAPS

-----------------------------------------------------------------------------
(* The newest of a set of messages. *)

LEMMA LeastExists ==
    ASSUME NEW S \in SUBSET Nat, S # {}
    PROVE  \E a \in S : \A b \in S : a <= b
<1> DEFINE R == { ss \in Nat \X Nat : ss[1] < ss[2] }
<1>1. OpToRel(<, Nat) = R
  BY Zenon DEF OpToRel
<1>2. PICK a \in S : \A b \in S : << b, a >> \notin R
  BY <1>1, NatLessThanWellFounded, WFMin, ZenonT(60)
<1>3. ASSUME NEW b \in S, b < a PROVE FALSE
  <2>1. << b, a >> \in Nat \X Nat /\ << b, a >>[1] < << b, a >>[2]
    BY <1>3
  <2>2. << b, a >> \in R
    BY <2>1
  <2> QED
    BY <1>2, <2>2
<1> QED
  BY <1>3

LEMMA LatestExists ==
    ASSUME NEW M \in SUBSET Messages, M # {}
    PROVE  Latest(M) \in M
<1> DEFINE Ages == { LastMessage - m : m \in M }
<1>0. \A m \in M : m \in Nat /\ m <= LastMessage /\ LastMessage - m \in Nat
  BY MessagesAssumption DEF Messages
<1>1. Ages \in SUBSET Nat /\ Ages # {}
  BY <1>0
<1>2. PICK a \in Ages : \A b \in Ages : a <= b
  BY <1>1, LeastExists
<1>3. PICK m \in M : a = LastMessage - m
  BY <1>2
<1>4. ASSUME NEW n \in M PROVE n <= m
  <2>1. LastMessage - n \in Ages
    BY <1>4
  <2>2. LastMessage - m <= LastMessage - n
    BY <1>2, <1>3, <2>1
  <2> QED
    BY <1>0, <1>3, <1>4, <2>2, MessagesAssumption
<1>5. \E k \in M : \A n \in M : n <= k
  BY <1>3, <1>4
<1> QED
  BY <1>5 DEF Latest

LEMMA LatestTyped ==
    ASSUME NEW M \in SUBSET Messages
    PROVE  /\ Latest(M) \in Messages \cup {0}
           /\ Latest(M) = 0 <=> M = {}
<1>1. 0 \notin Messages
  BY MessagesAssumption DEF Messages
<1>2. CASE M = {}
  BY <1>2 DEF Latest
<1>3. CASE M # {}
  BY <1>1, <1>3, LatestExists
<1> QED
  BY <1>2, <1>3

LEMMA InThreadTyped ==
    ASSUME NEW t, NEW content
    PROVE  InThread(t, content) \in SUBSET Messages
  BY DEF InThread

-----------------------------------------------------------------------------
(* Types. *)

LEMMA InitTyped == Init => TypeOK
<1> SUFFICES ASSUME Init PROVE TypeOK
  OBVIOUS
<1>1. history \in Seq([ message : Messages, kind : Kinds ]) /\ Len(history) = 0
  BY DEF Init
<1> QED
  BY <1>1, BoundsAssumption DEF Init, TypeOK, None

LEMMA RowsTyped ==
    ASSUME TypeOK, NEW m \in Messages
    PROVE  SnapshotContent(m) \in Nat /\ RowAfter(m) \in Nat
  BY DEF TypeOK, SnapshotContent, RowAfter

LEMMA SummaryTyped ==
    ASSUME TypeOK, NEW t \in Threads
    PROVE  SummaryAfter(t) \in Messages \cup {0}
  BY LatestTyped, InThreadTyped DEF TypeOK, SummaryAfter

LEMMA StepTyped == TypeOK /\ [Next]_vars => TypeOK'
<1> SUFFICES ASSUME TypeOK, [Next]_vars PROVE TypeOK'
  OBVIOUS
<1> USE DEF provider, store, locals
<1>0. Len(history) \in Nat
  BY DEF TypeOK
<1>1. ASSUME NEW m \in Messages, GmailChanges(m) PROVE TypeOK'
  <2>1. PICK kind \in Kinds : history' = Append(history, [ message |-> m, kind |-> kind ])
    BY <1>1 DEF GmailChanges, Record, Kinds
  <2>2. /\ history' \in Seq([ message : Messages, kind : Kinds ])
        /\ Len(history') = Len(history) + 1
    BY <2>1 DEF TypeOK
  <2>3. gmail' \in [ Messages -> Nat ]
    <3>1. gmail \in [ Messages -> Nat ] /\ Len(history) + 1 \in Nat
      BY <1>0 DEF TypeOK
    <3> QED
      BY <1>1, <3>1 DEF GmailChanges
  <2>4. UNCHANGED << cursor, stored, summary, told, toldThread, resets, pc, from, upTo,
                     baseline, listed, unread, fetched >>
    BY <1>1 DEF GmailChanges
  <2>5. /\ cursor \in 0..Len(history') \cup {NULL}
        /\ upTo \in 0..Len(history') /\ from \in 0..upTo
    BY <1>0, <2>2, SMTT(30) DEF TypeOK
  <2>6. trash' \subseteq Messages
    BY <1>1 DEF GmailChanges, Filed, TypeOK
  <2> QED
    BY <2>2, <2>3, <2>4, <2>5, <2>6 DEF TypeOK
<1>2. ASSUME Forget PROVE /\ pc' = "idle" /\ from' = 0 /\ upTo' = 0
                          /\ listed' = {} /\ unread' = {}
                          /\ baseline' \in [ Messages -> Nat ]
                          /\ fetched' \in [ Messages -> Nat ]
  BY <1>2 DEF Forget, None
<1>3. CASE StartIncremental
  BY <1>0, <1>3, NullAssumption DEF StartIncremental, TypeOK
<1>4. CASE StartFull
  BY <1>0, <1>4 DEF StartFull, TypeOK
<1>5. ASSUME NEW m \in Messages, ReadBaseline(m) PROVE TypeOK'
  BY <1>5 DEF ReadBaseline, TypeOK
<1>6. CASE BaselineRead
  BY <1>6 DEF BaselineRead, TypeOK
<1>7. ASSUME NEW h \in 1..MaxHistory, ReadPage(h) PROVE TypeOK'
  <2>1. upTo \in Nat /\ from \in 0..upTo /\ h \in Nat /\ upTo < h /\ h < Len(history)
    BY <1>0, <1>7 DEF ReadPage, TypeOK
  <2>2. upTo' = h /\ h \in 0..Len(history) /\ from \in 0..h
    BY <1>0, <1>7, <2>1 DEF ReadPage
  <2> QED
    BY <1>7, <2>2 DEF ReadPage, TypeOK
<1>8. CASE ReadLastPage
  BY <1>0, <1>8 DEF ReadLastPage, Changed, TypeOK
<1>9. ASSUME NEW m \in Messages, FetchMessage(m) PROVE TypeOK'
  BY <1>9 DEF FetchMessage, TypeOK
<1>10. CASE Commit
  <2>1. stored' \in [ Messages -> Nat ] /\ told' \in [ Messages -> Nat ]
    BY <1>10, RowsTyped DEF Commit, Rows, TypeOK
  <2>2. /\ summary' \in [ Threads -> Messages \cup {0} ]
        /\ toldThread' \in [ Threads -> Messages \cup {0} ]
    BY <1>10, SummaryTyped DEF Commit, TypeOK
  <2>3. cursor' \in 0..Len(history)
    BY <1>10 DEF Commit, NextCursor, TypeOK
  <2> QED
    BY <1>0, <1>2, <1>10, <2>1, <2>2, <2>3 DEF Commit, TypeOK
<1>11. CASE Abort
  BY <1>0, <1>2, <1>11 DEF Abort, TypeOK
<1>12. CASE CursorInvalid
  BY <1>0, <1>2, <1>12, BoundsAssumption DEF CursorInvalid, TypeOK
<1>13. CASE UNCHANGED vars
  BY <1>13 DEF vars, TypeOK
<1>14. ASSUME NEW m \in Messages, ListMessage(m) PROVE TypeOK'
  BY <1>14 DEF ListMessage, TypeOK
<1>15. CASE MessagesListed
  BY <1>15 DEF MessagesListed, TypeOK
<1> QED
  BY <1>1, <1>3, <1>4, <1>5, <1>6, <1>7, <1>8, <1>9, <1>10, <1>11, <1>12, <1>13, <1>14,
     <1>15 DEF Next

(* Every variable keeps its type: in particular, a stored cursor is one that *)
(* Gmail has issued.                                                         *)
THEOREM TypeCorrectness == Spec => []TypeOK
<1> QED
  BY InitTyped, StepTyped, PTL DEF Spec

-----------------------------------------------------------------------------
(* Threads and events: what one commit leaves follows from what the one      *)
(* before has left, whatever has been read.                                  *)

TableInv == TypeOK /\ ThreadsFollowMessages /\ EventsTellState

LEMMA InitTableInv == Init => TableInv
<1> SUFFICES ASSUME Init PROVE TableInv
  OBVIOUS
<1>1. \A t \in Threads : InThread(t, stored) = {}
  BY DEF Init, InThread, None
<1> QED
  BY <1>1, InitTyped DEF Init, None, TableInv, ThreadsFollowMessages, EventsTellState, Latest

(* A thread that a snapshot does not affect keeps its messages. *)
LEMMA UnaffectedThreads ==
    ASSUME NEW t \in Threads, t \notin AffectedThreads, TypeOK
    PROVE  InThread(t, Rows) = InThread(t, stored)
<1>1. ASSUME NEW m \in Messages, ThreadOf[m] = t PROVE RowAfter(m) = stored[m]
  BY <1>1 DEF AffectedThreads, ThreadsOfSnapshot, RowAfter, Deleted
<1> QED
  BY <1>1 DEF InThread, Rows

(* A thread whose last message has gone loses its row, if messages were      *)
(* deleted; if none were, it had none before.                                *)
LEMMA SummaryFollows ==
    ASSUME TableInv, NEW t \in Threads
    PROVE  SummaryAfter(t) = Latest(InThread(t, Rows))
<1> DEFINE newest == Latest(InThread(t, Rows))
<1>1. newest = 0 <=> InThread(t, Rows) = {}
  BY LatestTyped, InThreadTyped
<1>2. CASE newest # 0 /\ t \in AffectedThreads
  BY <1>2 DEF SummaryAfter
<1>3. CASE newest # 0 /\ t \notin AffectedThreads
  BY <1>3, UnaffectedThreads DEF SummaryAfter, TableInv, ThreadsFollowMessages
<1>4. CASE newest = 0 /\ Deleted(upTo) # {}
  BY <1>4 DEF SummaryAfter
<1>5. CASE newest = 0 /\ Deleted(upTo) = {}
  <2>1. \A m \in Messages : ThreadOf[m] = t => RowAfter(m) = 0
    BY <1>1, <1>5 DEF InThread, Rows
  <2>2. \A m \in Messages : ThreadOf[m] = t => stored[m] = 0
    BY <1>5, <2>1 DEF RowAfter
  <2>3. InThread(t, stored) = {}
    BY <2>2 DEF InThread
  <2> QED
    BY <1>5, <2>3 DEF SummaryAfter, TableInv, ThreadsFollowMessages, Latest
<1> QED
  BY <1>2, <1>3, <1>4, <1>5

(* The tables change with a commit only. *)
LEMMA TableSteps ==
    ASSUME [Next]_vars, ~Commit
    PROVE  UNCHANGED << stored, summary, told, toldThread >>
  BY DEF Next, vars, store, locals, GmailChanges, StartIncremental, StartFull, ListMessage,
         MessagesListed, ReadBaseline, BaselineRead, ReadPage, ReadLastPage, FetchMessage, Abort, CursorInvalid

LEMMA StepTableInv == TableInv /\ [Next]_vars => TableInv'
<1> SUFFICES ASSUME TableInv, [Next]_vars PROVE TableInv'
  OBVIOUS
<1>1. TypeOK /\ TypeOK'
  BY StepTyped DEF TableInv
<1>2. CASE Commit
  <2>1. ThreadsFollowMessages'
    BY <1>2, SummaryFollows DEF Commit, ThreadsFollowMessages, InThread
  <2>2. \A m \in Messages : stored'[m] # 0 => told'[m] = stored'[m]
    BY <1>2 DEF Commit, Rows, RowAfter, TellMessage, SnapshotContent, TableInv,
                EventsTellState
  <2>3. ASSUME NEW t \in Threads, summary'[t] # 0 PROVE toldThread'[t] = summary'[t]
    <3> DEFINE newest == Latest(InThread(t, Rows))
    <3>1. summary'[t] = SummaryAfter(t) /\ SummaryAfter(t) = newest
      BY <1>2, SummaryFollows DEF Commit
    <3>2. toldThread'[t] = IF TellThread(t) THEN SummaryAfter(t) ELSE toldThread[t]
      BY <1>2 DEF Commit
    <3>3. CASE TellThread(t)
      BY <3>1, <3>2, <3>3
    <3>4. CASE ~TellThread(t)
      <4>1. summary[t] = newest
        BY <2>3, <3>1, <3>4, UnaffectedThreads, <1>1
        DEF TellThread, ExistingSummary, TableInv, ThreadsFollowMessages
      <4> QED
        BY <2>3, <3>1, <3>2, <3>4, <4>1 DEF TableInv, EventsTellState
    <3> QED
      BY <3>3, <3>4
  <2> QED
    BY <1>1, <2>1, <2>2, <2>3 DEF TableInv, EventsTellState
<1>3. CASE ~Commit
  BY <1>1, <1>3, TableSteps DEF TableInv, ThreadsFollowMessages, EventsTellState, InThread
<1> QED
  BY <1>2, <1>3

LEMMA TableInvariance == Spec => []TableInv
<1> QED
  BY InitTableInv, StepTableInv, PTL DEF Spec

(* A thread has a row exactly when it has messages, and the row summarises   *)
(* the newest of them, whatever was added, changed and deleted together.     *)
THEOREM ThreadsFollowMessagesAlways == Spec => []ThreadsFollowMessages
<1>1. TableInv => ThreadsFollowMessages
  BY DEF TableInv
<1> QED
  BY <1>1, TableInvariance, PTL

(* The last event about a message or a thread carries what its row holds.    *)
THEOREM EventsTellStateAlways == Spec => []EventsTellState
<1>1. TableInv => EventsTellState
  BY DEF TableInv
<1> QED
  BY <1>1, TableInvariance, PTL

(* No event carries what its own commit does not leave in the rows.          *)
THEOREM EventsCarryCommittedStateAlways == Spec => EventsCarryCommittedState
<1> DEFINE Carried ==
       /\ \A m \in Messages : told'[m] # told[m] => stored'[m] = told'[m]
       /\ \A t \in Threads : toldThread'[t] # toldThread[t] => summary'[t] = toldThread'[t]
<1>1. TypeOK /\ [Next]_vars => [Carried]_vars
  <2> SUFFICES ASSUME TypeOK, [Next]_vars PROVE Carried
    OBVIOUS
  <2>1. CASE Commit
    <3>1. \A m \in Messages : told'[m] # told[m] => stored'[m] = told'[m]
      BY <2>1 DEF Commit, TellMessage, Rows, RowAfter, SnapshotContent, TypeOK
    <3>2. \A t \in Threads : toldThread'[t] # toldThread[t] => summary'[t] = toldThread'[t]
      BY <2>1 DEF Commit, TypeOK
    <3> QED
      BY <3>1, <3>2
  <2>2. CASE ~Commit
    BY <2>2, TableSteps
  <2> QED
    BY <2>1, <2>2
<1> QED
  BY <1>1, TypeCorrectness, PTL DEF Spec, EventsCarryCommittedState

-----------------------------------------------------------------------------
(* That no change is missed. *)

(* The history after a has a record of m. *)
Touched(m, a) == \E i \in (a + 1)..Len(history) : history[i].message = m

(* Gmail's side: what is deleted is gone for good, and has a last record.    *)
HistoryInv ==
    /\ \A i \in 1..Len(history) :
          history[i].kind = "deleted" => gmail[history[i].message] = 0
    /\ \A i, j \in 1..Len(history) :
          i < j /\ history[i].message = history[j].message => history[i].kind # "deleted"
    /\ \A m \in Messages :
          gmail[m] = 0 /\ Known(m) =>
              \E i \in 1..Len(history) : history[i].message = m /\ history[i].kind = "deleted"

(* A mailbox that has never had a cursor has no rows. *)
NeverSynced == cursor = NULL /\ resets = 0 => \A m \in Messages : stored[m] = 0

(* What a first sync has listed and read is current, or the history it will  *)
(* read next says that it is not, or the listing has left it out; an         *)
(* incremental sync starts from the cursor, with nothing.                    *)
Listed(m) ==
    baseline[m] = gmail[m] \/ Touched(m, from) \/ (m \in trash /\ baseline[m] = 0)

BaselineInv ==
    /\ pc \in { "idle", "listing" } => baseline = None
    /\ pc = "listing" =>
          cursor = NULL /\ \A m \in Messages : m \in unread \/ m \in listed \/ Listed(m)
    /\ pc = "reading" => cursor = NULL /\ \A m \in Messages \ unread : Listed(m)
    /\ pc \in { "paging", "fetching" } =>
          IF cursor = NULL
          THEN \A m \in Messages : Listed(m)
          ELSE from = cursor /\ baseline = None

(* A fetched body is current, or history after the next cursor says that it  *)
(* is not.                                                                   *)
Fetched(m) == (fetched[m] = gmail[m] /\ gmail[m] # 0) \/ Touched(m, upTo)

FetchedInv ==
    /\ pc # "fetching" => fetched = None
    /\ pc = "fetching" =>
          /\ unread \subseteq Changed(upTo)
          /\ \A m \in Messages \ unread :
                IF m \in Changed(upTo) THEN Fetched(m) ELSE fetched[m] = 0

ReadInv ==
    TypeOK /\ HistoryInv /\ NeverSynced /\ BaselineInv /\ FetchedInv /\ NothingMissed

LEMMA InitReadInv == Init => ReadInv
<1> SUFFICES ASSUME Init PROVE ReadInv
  OBVIOUS
<1>1. Len(history) = 0
  BY DEF Init
<1>2. HistoryInv
  BY <1>1 DEF HistoryInv, Known
<1> QED
  BY <1>2, InitTyped
  DEF Init, None, ReadInv, NeverSynced, BaselineInv, FetchedInv, NothingMissed

LEMMA Lengths ==
    ASSUME TypeOK
    PROVE  /\ Len(history) \in Nat /\ upTo \in Nat /\ from \in Nat
           /\ upTo <= Len(history) /\ from <= upTo
           /\ cursor # NULL => cursor \in Nat /\ cursor <= Len(history)
           /\ \A i \in 1..Len(history) : history[i].message \in Messages
<1> DEFINE R == [ message : Messages, kind : Kinds ]
<1>1. history \in Seq(R)
  BY DEF TypeOK
<1> HIDE DEF R
<1>2. \A i \in 1..Len(history) : history[i] \in R
  BY <1>1
<1>3. \A i \in 1..Len(history) : history[i].message \in Messages
  BY <1>2 DEF R
<1> QED
  BY <1>3 DEF TypeOK

(* A new record is the last one, and the others stay as they are. *)
LEMMA HistoryGrows ==
    ASSUME TypeOK, NEW k \in Messages, NEW kind \in Kinds, Record(k, kind)
    PROVE  /\ Len(history') = Len(history) + 1
           /\ \A i \in 1..Len(history) : history'[i] = history[i]
           /\ history'[Len(history) + 1] = [ message |-> k, kind |-> kind ]
  BY DEF Record, TypeOK

(* Looking again: what the history says stays said, and a message that       *)
(* changes is looked at by whoever has read no further than the last record. *)
LEMMA TouchedGrows ==
    ASSUME TypeOK, NEW k \in Messages, NEW kind \in Kinds, Record(k, kind),
           NEW m \in Messages, NEW a \in Nat, a <= Len(history),
           m = k \/ Touched(m, a)
    PROVE  \E i \in (a + 1)..Len(history') : history'[i].message = m
<1>0. /\ Len(history') = Len(history) + 1
      /\ \A i \in 1..Len(history) : history'[i] = history[i]
      /\ history'[Len(history) + 1] = [ message |-> k, kind |-> kind ]
  BY HistoryGrows
<1>1. Len(history) \in Nat
  BY Lengths
<1>2. CASE m = k
  <2>1. Len(history) + 1 \in (a + 1)..Len(history')
    BY <1>0, <1>1
  <2> QED
    BY <1>0, <1>2, <2>1
<1>3. CASE Touched(m, a)
  <2>1. PICK i \in (a + 1)..Len(history) : history[i].message = m
    BY <1>3 DEF Touched
  <2>2. i \in 1..Len(history) /\ i \in (a + 1)..Len(history')
    BY <1>0, <1>1, <2>1
  <2> QED
    BY <1>0, <2>1, <2>2
<1> QED
  BY <1>2, <1>3

(* What a sync has read is not what arrives. *)
LEMMA ChangedStays ==
    ASSUME TypeOK, NEW k \in Messages, NEW kind \in Kinds, Record(k, kind),
           UNCHANGED << from, upTo >>
    PROVE  Changed(upTo)' = Changed(upTo)
<1>1. \A i \in (from + 1)..upTo : i \in 1..Len(history)
  BY Lengths
<1>2. \A i \in (from + 1)..upTo : history'[i] = history[i]
  BY <1>1, HistoryGrows
<1>3. Deleted(upTo)' = Deleted(upTo)
  BY <1>2 DEF Deleted
<1>4. \A m \in Messages : InHistory(m, upTo)' <=> InHistory(m, upTo)
  BY <1>2 DEF InHistory
<1> QED
  BY <1>3, <1>4 DEF Changed

LEMMA HistoryStep ==
    ASSUME TypeOK, HistoryInv, NEW k \in Messages, GmailChanges(k)
    PROVE  HistoryInv'
<1> DEFINE n == Len(history) + 1
<1>0. Len(history) \in Nat /\ n # 0 /\ gmail \in [ Messages -> Nat ]
  <2>1. Len(history) \in Nat
    BY Lengths
  <2>2. gmail \in [ Messages -> Nat ]
    BY DEF TypeOK
  <2> QED
    BY <2>1, <2>2
<1>1. PICK kind \in Kinds :
        /\ Record(k, kind)
        /\ kind = "added" => ~Known(k)
        /\ kind # "added" => gmail[k] # 0
        /\ gmail' = [ gmail EXCEPT ![k] = IF kind = "deleted" THEN 0 ELSE n ]
  BY DEF GmailChanges, Kinds
<1>2. /\ Len(history') = n
      /\ \A i \in 1..Len(history) : history'[i] = history[i]
      /\ history'[n] = [ message |-> k, kind |-> kind ]
  BY <1>1, HistoryGrows
<1>3. \A i \in 1..Len(history') : i \in 1..Len(history) \/ i = n
  BY <1>0, <1>2
<1>4. \A i \in 1..Len(history) : history[i].message \in Messages
  BY Lengths
<1>5. ASSUME NEW i \in 1..Len(history), history[i].message = k
      PROVE  history[i].kind # "deleted"
  BY <1>1, <1>5 DEF HistoryInv, Known
<1>6. ASSUME NEW i \in 1..Len(history'), history'[i].kind = "deleted"
      PROVE  gmail'[history'[i].message] = 0
  <2>1. CASE i = n
    BY <1>0, <1>1, <1>2, <1>6, <2>1
  <2>2. CASE i \in 1..Len(history)
    BY <1>0, <1>1, <1>2, <1>4, <1>5, <1>6, <2>2 DEF HistoryInv
  <2> QED
    BY <1>3, <2>1, <2>2
<1>7. ASSUME NEW i \in 1..Len(history'), NEW j \in 1..Len(history'), i < j,
             history'[i].message = history'[j].message
      PROVE  history'[i].kind # "deleted"
  <2>1. i \in 1..Len(history)
    BY <1>0, <1>2, <1>3, <1>7
  <2>2. CASE j = n
    BY <1>2, <1>5, <1>7, <2>1, <2>2
  <2>3. CASE j \in 1..Len(history)
    BY <1>2, <1>7, <2>1, <2>3 DEF HistoryInv
  <2> QED
    BY <1>3, <2>2, <2>3
<1>8. ASSUME NEW m \in Messages, gmail'[m] = 0,
             NEW i \in 1..Len(history'), history'[i].message = m
      PROVE  \E j \in 1..Len(history') :
                 history'[j].message = m /\ history'[j].kind = "deleted"
  <2>1. CASE m = k
    <3>1. kind = "deleted"
      BY <1>0, <1>1, <1>8, <2>1
    <3>2. n \in 1..Len(history')
      BY <1>0, <1>2
    <3> QED
      BY <1>2, <2>1, <3>1, <3>2
  <2>2. CASE m # k
    <3>1. gmail[m] = 0 /\ i \in 1..Len(history) /\ history[i].message = m
      BY <1>0, <1>1, <1>2, <1>3, <1>8, <2>2
    <3>2. PICK j \in 1..Len(history) : history[j].message = m /\ history[j].kind = "deleted"
      BY <3>1 DEF HistoryInv, Known
    <3>3. j \in 1..Len(history')
      BY <1>0, <1>2
    <3> QED
      BY <1>2, <3>2, <3>3
  <2> QED
    BY <2>1, <2>2
<1> QED
  BY <1>6, <1>7, <1>8 DEF HistoryInv, Known

(* Whatever changes in Gmail, the sync that is reading and the one that will *)
(* follow still look at it.                                                  *)
LEMMA GmailStep ==
    ASSUME ReadInv, NEW k \in Messages, GmailChanges(k)
    PROVE  HistoryInv' /\ NeverSynced' /\ BaselineInv' /\ FetchedInv' /\ NothingMissed'
<1>0. TypeOK
  BY DEF ReadInv
<1>1. PICK kind \in Kinds : Record(k, kind)
  BY DEF GmailChanges, Kinds
<1>2. \A m \in Messages : m # k => gmail'[m] = gmail[m] /\ (m \in trash' <=> m \in trash)
  BY <1>0 DEF GmailChanges, Filed, TypeOK
<1>3. UNCHANGED << cursor, stored, summary, told, toldThread, resets, pc, from, upTo,
                   baseline, listed, unread, fetched >>
  BY DEF GmailChanges, store, locals
<1>4. \A m \in Messages, a \in Nat :
         a <= Len(history) /\ (m = k \/ Touched(m, a)) =>
             \E i \in (a + 1)..Len(history') : history'[i].message = m
  BY <1>0, <1>1, TouchedGrows
<1>5. HistoryInv'
  BY <1>0, HistoryStep DEF ReadInv
<1>6. NeverSynced'
  BY <1>3 DEF ReadInv, NeverSynced
<1>7. \A m \in Messages : Listed(m) => Listed(m)'
  <2>1. from \in Nat /\ from <= Len(history)
    BY <1>0, Lengths
  <2> QED
    BY <1>2, <1>3, <1>4, <2>1 DEF Listed, Touched
<1>8. \A m \in Messages : Fetched(m) => Fetched(m)'
  <2>1. upTo \in Nat /\ upTo <= Len(history)
    BY <1>0, Lengths
  <2> QED
    BY <1>2, <1>3, <1>4, <2>1 DEF Fetched, Touched
<1>9. BaselineInv'
  <2>1. BaselineInv
    BY DEF ReadInv
  <2> QED
    BY <1>3, <1>7, <2>1 DEF BaselineInv, None
<1>10. FetchedInv'
  <2>1. FetchedInv /\ Changed(upTo)' = Changed(upTo)
    BY <1>0, <1>1, <1>3, ChangedStays DEF ReadInv
  <2> QED
    BY <1>3, <1>8, <2>1 DEF FetchedInv, None
<1>11. NothingMissed'
  <2> SUFFICES ASSUME cursor' # NULL, NEW m \in Messages
               PROVE  Covered(m)' \/ LeftOut(m)'
    BY DEF NothingMissed
  <2>1. cursor \in Nat /\ cursor <= Len(history)
    BY <1>0, <1>3, Lengths
  <2>2. m = k \/ Covered(m) \/ LeftOut(m)
    BY <1>3 DEF ReadInv, NothingMissed
  <2>3. CASE m = k \/ Touched(m, cursor)
    BY <1>3, <1>4, <2>1, <2>3 DEF Covered
  <2>4. CASE m # k /\ stored[m] = gmail[m]
    BY <1>2, <1>3, <2>4 DEF Covered
  <2>5. CASE m # k /\ LeftOut(m)
    BY <1>2, <1>3, <2>5 DEF LeftOut
  <2> QED
    BY <2>2, <2>3, <2>4, <2>5 DEF Covered, Touched
<1> QED
  BY <1>5, <1>6, <1>9, <1>10, <1>11

(* The body of a changed message is fetched after the last page was read; if *)
(* it has gone since, its deletion comes after that page.                    *)
LEMMA FetchStep ==
    ASSUME ReadInv, NEW k \in Messages, FetchMessage(k)
    PROVE  FetchedInv'
<1>0. TypeOK /\ HistoryInv /\ FetchedInv /\ k \in Changed(upTo)
  BY DEF ReadInv, FetchedInv, FetchMessage
<1>1. gmail[k] = 0 => Touched(k, upTo)
  <2> SUFFICES ASSUME gmail[k] = 0 PROVE Touched(k, upTo)
    OBVIOUS
  <2>1. PICK i \in (from + 1)..upTo : history[i].message = k
    BY <1>0 DEF Changed, InHistory
  <2>2. i \in 1..Len(history)
    BY <1>0, Lengths
  <2>3. PICK d \in 1..Len(history) : history[d].message = k /\ history[d].kind = "deleted"
    BY <1>0, <2>1, <2>2 DEF HistoryInv, Known
  <2>4. d \notin (from + 1)..upTo
    BY <1>0, <2>3 DEF Changed, Deleted
  <2>5. ~(d < i)
    BY <1>0, <2>1, <2>2, <2>3 DEF HistoryInv
  <2>6. d \in (upTo + 1)..Len(history)
    BY <1>0, <2>2, <2>4, <2>5, Lengths
  <2> QED
    BY <2>3, <2>6 DEF Touched
<1>2. /\ UNCHANGED << gmail, history, pc, from, upTo >> /\ pc = "fetching"
      /\ fetched' = [ fetched EXCEPT ![k] = gmail[k] ]
      /\ unread' = unread \ {k}
  BY DEF FetchMessage, provider
<1>3. Changed(upTo)' = Changed(upTo)
  BY <1>2 DEF Changed, Deleted, InHistory
<1>4. Fetched(k)'
  BY <1>0, <1>1, <1>2 DEF Fetched, Touched, TypeOK
<1>5. \A m \in Messages \ {k} : fetched'[m] = fetched[m] /\ (Fetched(m)' <=> Fetched(m))
  BY <1>0, <1>2 DEF Fetched, Touched, TypeOK
<1> QED
  BY <1>0, <1>2, <1>3, <1>4, <1>5 DEF FetchedInv

(* What a commit leaves is what Gmail has, or history after the cursor that  *)
(* it leaves says that it is not, or the message is one that is left out.    *)
LEMMA RowCurrent ==
    ASSUME ReadInv, pc = "fetching", unread = {}, NEW m \in Messages
    PROVE  \/ RowAfter(m) = gmail[m] \/ Touched(m, upTo)
           \/ m \in trash /\ RowAfter(m) = 0
           \/ (m \in trash \/ gmail[m] = 0) /\ resets > 0
<1>0. TypeOK /\ HistoryInv /\ NeverSynced /\ BaselineInv /\ FetchedInv /\ NothingMissed
  BY DEF ReadInv
<1>1. CASE m \in Deleted(upTo)
  <2>1. PICK i \in (from + 1)..upTo : history[i].message = m /\ history[i].kind = "deleted"
    BY <1>1 DEF Deleted
  <2>2. i \in 1..Len(history)
    BY <1>0, Lengths
  <2> QED
    BY <1>0, <1>1, <2>1, <2>2 DEF HistoryInv, RowAfter
<1>2. CASE m \in Changed(upTo)
  <2>1. Fetched(m) /\ m \notin Deleted(upTo)
    BY <1>0, <1>2 DEF FetchedInv, Changed
  <2> QED
    BY <2>1 DEF Fetched, RowAfter, SnapshotContent
<1>3. CASE m \notin Deleted(upTo) /\ m \notin Changed(upTo)
  <2>1. fetched[m] = 0
    BY <1>0, <1>3 DEF FetchedInv
  <2>2. RowAfter(m) = IF baseline[m] # 0 THEN baseline[m] ELSE stored[m]
    BY <1>3, <2>1 DEF RowAfter, SnapshotContent
  <2>3. Touched(m, from) => Touched(m, upTo)
    <3>1. \A i \in (from + 1)..upTo : history[i].message # m
      BY <1>3 DEF Changed, InHistory
    <3>2. \A i \in (from + 1)..Len(history) :
             i \in (from + 1)..upTo \/ i \in (upTo + 1)..Len(history)
      BY <1>0, Lengths
    <3> QED
      BY <3>1, <3>2 DEF Touched
  <2>4. CASE cursor # NULL
    <3>1. baseline[m] = 0 /\ from = cursor
      BY <1>0, <2>4 DEF BaselineInv, None
    <3>2. stored[m] = gmail[m] \/ Touched(m, cursor) \/ LeftOut(m)
      BY <1>0, <2>4 DEF NothingMissed, Covered, Touched
    <3> QED
      BY <2>2, <2>3, <3>1, <3>2 DEF LeftOut
  <2>5. CASE cursor = NULL
    <3>1. Listed(m)
      BY <1>0, <2>5 DEF BaselineInv
    <3>2. resets > 0 \/ stored[m] = 0
      BY <1>0, <2>5 DEF NeverSynced, TypeOK
    <3>3. CASE baseline[m] = gmail[m] \/ (m \in trash /\ baseline[m] = 0)
      BY <2>2, <3>2, <3>3
    <3>4. CASE Touched(m, from)
      BY <2>3, <3>4
    <3> QED
      BY <3>1, <3>3, <3>4 DEF Listed
  <2> QED
    BY <2>4, <2>5
<1> QED
  BY <1>1, <1>2, <1>3

LEMMA CommitStep ==
    ASSUME ReadInv, Commit
    PROVE  HistoryInv' /\ NeverSynced' /\ BaselineInv' /\ FetchedInv' /\ NothingMissed'
<1>0. TypeOK
  BY DEF ReadInv
<1>1. /\ UNCHANGED << gmail, trash, history, resets >> /\ cursor' = upTo
      /\ pc' = "idle" /\ baseline' = None /\ fetched' = None
  BY DEF Commit, NextCursor, Forget, provider
<1>2. cursor' # NULL
  BY <1>0, <1>1, Lengths, NullAssumption
<1>3. HistoryInv'
  BY <1>1 DEF ReadInv, HistoryInv, Known
<1>4. NeverSynced' /\ BaselineInv' /\ FetchedInv'
  BY <1>1, <1>2 DEF NeverSynced, BaselineInv, FetchedInv, None
<1>5. ASSUME NEW m \in Messages
      PROVE  Covered(m)' \/ LeftOut(m)'
  <2>1. stored'[m] = RowAfter(m)
    BY DEF Commit, Rows
  <2>2. \/ RowAfter(m) = gmail[m] \/ Touched(m, upTo)
        \/ m \in trash /\ RowAfter(m) = 0
        \/ (m \in trash \/ gmail[m] = 0) /\ resets > 0
    BY RowCurrent DEF Commit
  <2> QED
    BY <1>1, <2>1, <2>2 DEF Covered, Touched, LeftOut
<1> QED
  BY <1>3, <1>4, <1>5 DEF NothingMissed

LEMMA StepReadInv == ReadInv /\ [Next]_vars => ReadInv'
<1> SUFFICES ASSUME ReadInv, [Next]_vars PROVE ReadInv'
  OBVIOUS
<1> DEFINE Rest == HistoryInv /\ NeverSynced /\ BaselineInv /\ FetchedInv /\ NothingMissed
<1>0. TypeOK /\ TypeOK'
  BY StepTyped DEF ReadInv
<1>1. Rest
  BY DEF ReadInv
<1> SUFFICES Rest'
  BY <1>0 DEF ReadInv
<1>2. UNCHANGED << gmail, history >> => HistoryInv'
  BY <1>1 DEF HistoryInv, Known
<1>3. UNCHANGED << gmail, trash, history, stored, cursor, resets >> =>
         HistoryInv' /\ NeverSynced' /\ NothingMissed'
  BY <1>1, <1>2 DEF NeverSynced, NothingMissed, Covered, LeftOut
<1>4. ASSUME NEW m \in Messages, GmailChanges(m) PROVE Rest'
  BY <1>4, GmailStep
<1>5. CASE StartIncremental
  <2>1. BaselineInv' /\ FetchedInv'
    BY <1>1, <1>5 DEF StartIncremental, provider, store, BaselineInv, FetchedInv, None
  <2> QED
    BY <1>3, <1>5, <2>1 DEF StartIncremental, provider, store
<1>6. CASE StartFull
  <2>1. BaselineInv' /\ FetchedInv'
    BY <1>1, <1>6 DEF StartFull, provider, store, BaselineInv, FetchedInv, None
  <2> QED
    BY <1>3, <1>6, <2>1 DEF StartFull, provider, store
<1>7. ASSUME NEW k \in Messages, ReadBaseline(k) PROVE Rest'
  <2>1. FetchedInv'
    BY <1>1, <1>7 DEF ReadBaseline, FetchedInv, None
  <2>2. Listed(k)'
    BY <1>0, <1>7 DEF ReadBaseline, Listed, Touched, TypeOK, provider
  <2>3. \A m \in Messages \ {k} : Listed(m) => Listed(m)'
    BY <1>0, <1>7 DEF ReadBaseline, Listed, Touched, TypeOK, provider
  <2>4. BaselineInv'
    BY <1>1, <1>7, <2>2, <2>3 DEF ReadBaseline, BaselineInv, provider, store
  <2> QED
    BY <1>3, <1>7, <2>1, <2>4 DEF ReadBaseline, provider, store
<1>8. CASE BaselineRead
  <2>1. BaselineInv' /\ FetchedInv'
    BY <1>1, <1>8
    DEF BaselineRead, BaselineInv, FetchedInv, None, provider, store, locals, Listed, Touched
  <2> QED
    BY <1>3, <1>8, <2>1 DEF BaselineRead, provider, store
<1>9. ASSUME NEW h \in 1..MaxHistory, ReadPage(h) PROVE Rest'
  <2>1. BaselineInv' /\ FetchedInv'
    BY <1>1, <1>9 DEF ReadPage, BaselineInv, FetchedInv, None, provider, store, Listed, Touched
  <2> QED
    BY <1>3, <1>9, <2>1 DEF ReadPage, provider, store
<1>10. CASE ReadLastPage
  <2>1. BaselineInv'
    BY <1>1, <1>10 DEF ReadLastPage, BaselineInv, None, provider, store, Listed, Touched
  <2>2. /\ unread' = Changed(upTo)' /\ pc' = "fetching"
        /\ \A m \in Messages : fetched'[m] = 0
    BY <1>1, <1>10
    DEF ReadLastPage, Changed, Deleted, InHistory, FetchedInv, None, provider
  <2>3. FetchedInv'
    BY <2>2 DEF FetchedInv
  <2> QED
    BY <1>3, <1>10, <2>1, <2>3 DEF ReadLastPage, provider, store
<1>11. ASSUME NEW k \in Messages, FetchMessage(k) PROVE Rest'
  <2>1. BaselineInv'
    BY <1>1, <1>11 DEF FetchMessage, BaselineInv, None, provider, store, Listed, Touched
  <2> QED
    BY <1>3, <1>11, <2>1, FetchStep DEF FetchMessage, provider, store
<1>12. CASE Commit
  BY <1>12, CommitStep
<1>13. CASE Abort
  <2>1. BaselineInv' /\ FetchedInv'
    BY <1>13 DEF Abort, Forget, BaselineInv, FetchedInv, None
  <2> QED
    BY <1>3, <1>13, <2>1 DEF Abort, provider, store
<1>14. CASE CursorInvalid
  <2>1. BaselineInv' /\ FetchedInv'
    BY <1>14 DEF CursorInvalid, Forget, BaselineInv, FetchedInv, None
  <2>2. resets' # 0 /\ cursor' = NULL
    BY <1>0, <1>14 DEF CursorInvalid, TypeOK
  <2> QED
    BY <1>2, <1>14, <2>1, <2>2 DEF CursorInvalid, NeverSynced, NothingMissed, provider
<1>15. CASE UNCHANGED vars
  BY <1>1, <1>15 DEF vars, provider, store, locals, HistoryInv, Known, NeverSynced, BaselineInv,
                     FetchedInv, NothingMissed, Covered, LeftOut, Listed, Fetched, Touched, Changed,
                     Deleted, InHistory, None
<1>16. ASSUME NEW k \in Messages, ListMessage(k) PROVE Rest'
  <2>1. FetchedInv'
    BY <1>1, <1>16 DEF ListMessage, FetchedInv, None
  <2>2. /\ UNCHANGED << gmail, trash, history, cursor, pc, from, baseline >> /\ pc = "listing"
        /\ unread' = unread \ {k}
        /\ listed' = IF IsListed(k) THEN listed \cup {k} ELSE listed
    BY <1>16 DEF ListMessage, provider, store
  <2>3. \A m \in Messages : Listed(m)' <=> Listed(m)
    BY <2>2 DEF Listed, Touched
  <2>4. k \in listed' \/ Listed(k)
    <3>1. baseline[k] = 0
      BY <1>1, <2>2 DEF BaselineInv, None
    <3> QED
      BY <2>2, <3>1 DEF IsListed, Listed
  <2>5. \A m \in Messages : m \in unread' \/ m \in listed' \/ Listed(m)'
    BY <1>1, <2>2, <2>3, <2>4 DEF BaselineInv
  <2>6. BaselineInv'
    BY <1>1, <2>2, <2>5 DEF BaselineInv, None
  <2> QED
    BY <1>3, <1>16, <2>1, <2>6 DEF ListMessage, provider, store
<1>17. CASE MessagesListed
  <2>1. FetchedInv'
    BY <1>1, <1>17 DEF MessagesListed, FetchedInv, None
  <2>2. /\ UNCHANGED << gmail, trash, history, cursor, from, baseline >>
        /\ pc = "listing" /\ pc' = "reading" /\ unread = {} /\ unread' = listed
    BY <1>17 DEF MessagesListed, provider, store
  <2>3. \A m \in Messages : Listed(m)' <=> Listed(m)
    BY <2>2 DEF Listed, Touched
  <2>4. BaselineInv'
    BY <1>1, <2>2, <2>3 DEF BaselineInv
  <2> QED
    BY <1>3, <1>17, <2>1, <2>4 DEF MessagesListed, provider, store
<1> QED
  BY <1>4, <1>5, <1>6, <1>7, <1>8, <1>9, <1>10, <1>11, <1>12, <1>13, <1>14, <1>15,
     <1>16, <1>17 DEF Next

(* Whatever changes while a sync lists, pages and reads, and wherever syncs  *)
(* are interrupted, every message is in the rows as Gmail has it, or in the  *)
(* history that the next sync will read, or one that the listing leaves out: *)
(* in Trash or Spam and unknown, or, after a reset, there or deleted.        *)
THEOREM NothingMissedAlways == Spec => []NothingMissed
<1>1. ReadInv => NothingMissed
  BY DEF ReadInv
<1> QED
  BY <1>1, InitReadInv, StepReadInv, PTL DEF Spec

=============================================================================
