---------------------------- MODULE CanonicalState ----------------------------
(***************************************************************************)
(* How the canonical messages and threads of a mailbox follow Gmail: the   *)
(* reads of a sync, one by one while the mailbox goes on changing, the     *)
(* compaction of the history, the merge of a first sync, and the commit    *)
(* with the events it emits.                                               *)
(*                                                                         *)
(* The content of a message is the history id it dates from, 0 for none.   *)
(* Messages are numbered in the order they were received; the summary of a *)
(* thread (subject, lastMessageAt) is that of one of its messages.  One    *)
(* sync runs at a time: MailboxSync says when that is so.                  *)
(***************************************************************************)
EXTENDS Naturals, Sequences

CONSTANTS
    LastMessage,\* provider message ids are numbered as received
    ThreadOf,   \* the thread of every message
    NULL,
    MaxHistory, \* bound: changes in Gmail
    MaxResets   \* bound: cursors that Gmail no longer knows

Messages == 1..LastMessage

ASSUME MessagesAssumption == LastMessage \in Nat
ASSUME ThreadsAssumption == DOMAIN ThreadOf = Messages
ASSUME NullAssumption == NULL \notin Nat
ASSUME BoundsAssumption == MaxHistory \in Nat /\ MaxResets \in Nat

Threads == { ThreadOf[m] : m \in Messages }

VARIABLES
    gmail,     \* the content of every message in Gmail
    trash,     \* the messages that Gmail has in Trash or Spam
    history,   \* Gmail's history records, from id 1
    cursor,    \* mailboxes.cursor
    stored,    \* the content of every messages row
    summary,   \* the message every threads row summarises, 0 for no row
    told,      \* the content that the last event about a message carried
    toldThread,\* the summary that the last event about a thread carried
    resets,    \* cursors given up
    pc,        \* where the sync stands
    from,      \* the history id it reads from
    upTo,      \* the history it has read
    baseline,  \* the messages of a first sync, by content
    listed,    \* the messages that the pages of a first sync have named
    unread,    \* messages that are still to be listed, or their body to be fetched
    fetched    \* the bodies fetched of changed messages

provider == << gmail, trash, history >>
store == << cursor, stored, summary, told, toldThread >>
locals == << from, upTo, baseline, listed, unread, fetched >>
vars == << provider, store, resets, pc, locals >>

Kinds == { "added", "changed", "deleted" }
None == [ m \in Messages |-> 0 ]

TypeOK ==
    /\ gmail \in [ Messages -> Nat ] /\ trash \subseteq Messages
    /\ history \in Seq([ message : Messages, kind : Kinds ])
    /\ cursor \in 0..Len(history) \cup {NULL}
    /\ stored \in [ Messages -> Nat ]
    /\ summary \in [ Threads -> Messages \cup {0} ]
    /\ told \in [ Messages -> Nat ]
    /\ toldThread \in [ Threads -> Messages \cup {0} ]
    /\ resets \in 0..MaxResets
    /\ pc \in { "idle", "listing", "reading", "paging", "fetching" }
    /\ upTo \in 0..Len(history) /\ from \in 0..upTo
    /\ baseline \in [ Messages -> Nat ] /\ fetched \in [ Messages -> Nat ]
    /\ listed \subseteq Messages /\ unread \subseteq Messages

Forget ==
    /\ pc' = "idle"
    /\ from' = 0 /\ upTo' = 0
    /\ baseline' = None /\ fetched' = None
    /\ listed' = {} /\ unread' = {}

(* An empty mailbox, just connected. *)
Init ==
    /\ gmail = None /\ trash = {} /\ history = << >>
    /\ cursor = NULL
    /\ stored = None /\ told = None
    /\ summary = [ t \in Threads |-> 0 ] /\ toldThread = [ t \in Threads |-> 0 ]
    /\ resets = 0
    /\ pc = "idle"
    /\ from = 0 /\ upTo = 0
    /\ baseline = None /\ fetched = None
    /\ listed = {} /\ unread = {}

-----------------------------------------------------------------------------
(* Gmail. *)

Record(m, kind) == history' = Append(history, [ message |-> m, kind |-> kind ])

Known(m) == \E i \in 1..Len(history) : history[i].message = m

(* Where a message is filed that arrives or changes its labels. *)
Filed(m) == trash' \in { trash \ {m}, trash \cup {m} }

(* A message arrives, changes its labels, those of Trash and Spam included,  *)
(* or is deleted for good.                                                   *)
GmailChanges(m) ==
    /\ Len(history) < MaxHistory
    /\ \/ /\ ~Known(m)
          /\ Record(m, "added")
          /\ gmail' = [ gmail EXCEPT ![m] = Len(history) + 1 ]
          /\ Filed(m)
       \/ /\ gmail[m] # 0
          /\ Record(m, "changed")
          /\ gmail' = [ gmail EXCEPT ![m] = Len(history) + 1 ]
          /\ Filed(m)
       \/ /\ gmail[m] # 0
          /\ Record(m, "deleted")
          /\ gmail' = [ gmail EXCEPT ![m] = 0 ]
          /\ trash' = trash \ {m}
    /\ UNCHANGED << store, resets, pc, locals >>

-----------------------------------------------------------------------------
(* The reads of a sync. *)

(* With a cursor, syncMailbox asks for the history since. *)
StartIncremental ==
    /\ pc = "idle"
    /\ cursor # NULL
    /\ pc' = "paging"
    /\ from' = cursor
    /\ upTo' = cursor
    /\ UNCHANGED << provider, store, resets, baseline, listed, unread, fetched >>

(* Without one, it reads the profile first and lists the messages second. *)
StartFull ==
    /\ pc = "idle"
    /\ cursor = NULL
    /\ pc' = "listing"
    /\ from' = Len(history)
    /\ upTo' = Len(history)
    /\ unread' = Messages
    /\ UNCHANGED << provider, store, resets, baseline, listed, fetched >>

(* The request names no includeSpamTrash: what is in Trash or Spam is left   *)
(* out.                                                                      *)
IsListed(m) == gmail[m] # 0 /\ m \notin trash

(* listAllMessages asks for the pages first; every message has its page at a *)
(* time of its own ...                                                       *)
ListMessage(m) ==
    /\ pc = "listing"
    /\ m \in unread
    /\ unread' = unread \ {m}
    /\ listed' = IF IsListed(m) THEN listed \cup {m} ELSE listed
    /\ UNCHANGED << provider, store, resets, pc, from, upTo, baseline, fetched >>

MessagesListed ==
    /\ pc = "listing"
    /\ unread = {}
    /\ pc' = "reading"
    /\ unread' = listed
    /\ listed' = {}
    /\ UNCHANGED << provider, store, resets, from, upTo, baseline, fetched >>

(* ... and then reads the listed ones, each at a time of its own again; one  *)
(* that has gone is a 404 and left out.                                      *)
ReadBaseline(m) ==
    /\ pc = "reading"
    /\ m \in unread
    /\ unread' = unread \ {m}
    /\ baseline' = [ baseline EXCEPT ![m] = gmail[m] ]
    /\ UNCHANGED << provider, store, resets, pc, from, upTo, listed, fetched >>

BaselineRead ==
    /\ pc = "reading"
    /\ unread = {}
    /\ pc' = "paging"
    /\ UNCHANGED << provider, store, resets, locals >>

(* compactGmailHistoryRecords of the records after from and up to h: of a    *)
(* message that was deleted nothing but the deletion is left.                *)
InHistory(m, h) == \E i \in (from + 1)..h : history[i].message = m

Deleted(h) ==
    { m \in Messages :
        \E i \in (from + 1)..h : history[i].message = m /\ history[i].kind = "deleted" }

Changed(h) == { m \in Messages \ Deleted(h) : InHistory(m, h) }

(* listGmailHistoryPages: a page ends anywhere short of the last record ...  *)
ReadPage(h) ==
    /\ pc = "paging"
    /\ h \in (upTo + 1)..(Len(history) - 1)
    /\ upTo' = h
    /\ UNCHANGED << provider, store, resets, pc, from, baseline, listed, unread, fetched >>

(* ... and the last one, whose historyId becomes the next cursor, with it.   *)
ReadLastPage ==
    /\ pc = "paging"
    /\ upTo' = Len(history)
    /\ unread' = Changed(Len(history))
    /\ pc' = "fetching"
    /\ UNCHANGED << provider, store, resets, from, baseline, listed, fetched >>

(* getMessage, for every changed message at a time of its own; null if it    *)
(* has been deleted meanwhile.                                               *)
FetchMessage(m) ==
    /\ pc = "fetching"
    /\ m \in unread
    /\ unread' = unread \ {m}
    /\ fetched' = [ fetched EXCEPT ![m] = gmail[m] ]
    /\ UNCHANGED << provider, store, resets, pc, from, upTo, baseline, listed >>

-----------------------------------------------------------------------------
(* The commit. *)

(* Mutant of SnapshotContent: the merge keeps what the catch-up deleted. *)
MergedContent(m) == IF fetched[m] # 0 THEN fetched[m] ELSE baseline[m]

(* mergeInitialSyncMessages; an incremental sync has no baseline. *)
SnapshotContent(m) ==
    IF m \in Deleted(upTo) THEN 0
    ELSE IF fetched[m] # 0 THEN fetched[m]
    ELSE baseline[m]

(* The messages rows after applySnapshotMessages and applyMessageDeletions. *)
RowAfter(m) ==
    IF m \in Deleted(upTo) THEN 0
    ELSE IF SnapshotContent(m) # 0 THEN SnapshotContent(m)
    ELSE stored[m]

Rows == [ m \in Messages |-> RowAfter(m) ]

Latest(M) == IF M = {} THEN 0 ELSE CHOOSE m \in M : \A n \in M : n <= m

InThread(t, content) == { m \in Messages : ThreadOf[m] = t /\ content[m] # 0 }

(* Mutant of AffectedThreads: the threads of deleted messages are forgotten. *)
ThreadsOfSnapshot == { ThreadOf[m] : m \in { n \in Messages : SnapshotContent(n) # 0 } }

(* getAffectedProviderThreadIds: those of the snapshot and of deleted rows. *)
AffectedThreads ==
    ThreadsOfSnapshot
        \cup { ThreadOf[m] : m \in { n \in Deleted(upTo) : stored[n] # 0 } }

(* Mutant of ExistingSummary: loaded after applySnapshotThreads has written. *)
SummaryInSnapshot(t) ==
    IF t \in ThreadsOfSnapshot
    THEN Latest(InThread(t, [ m \in Messages |-> SnapshotContent(m) ]))
    ELSE summary[t]

(* loadExistingThreadsByProviderThreadId, before anything is written. *)
ExistingSummary(t) == summary[t]

(* recalculateThreadsByProviderThreadId and the threads rows after it: empty *)
(* threads go when messages were deleted, affected ones follow their newest. *)
SummaryAfter(t) ==
    LET newest == Latest(InThread(t, Rows)) IN
    IF t \in AffectedThreads /\ newest # 0 THEN newest
    ELSE IF Deleted(upTo) # {} /\ newest = 0 THEN 0
    ELSE summary[t]

(* A created or updated event, unless isSameCanonicalMessage. *)
TellMessage(m) == SnapshotContent(m) # 0 /\ SnapshotContent(m) # stored[m]

(* A thread.updated event, unless isSameCanonicalThread. *)
TellThread(t) ==
    LET newest == Latest(InThread(t, Rows)) IN
    t \in AffectedThreads /\ newest # 0 /\ newest # ExistingSummary(t)

(* Mutant of NextCursor: the mailbox's history id at the commit. *)
NewestHistory == Len(history)

(* Mutant of NextCursor: the first record that has not been read. *)
FirstUnread == upTo + 1

(* The historyId of the last page. *)
NextCursor == upTo

(* applyMailboxSyncCommit, one transaction, past its guards. *)
Commit ==
    /\ pc = "fetching"
    /\ unread = {}
    /\ stored' = Rows
    /\ summary' = [ t \in Threads |-> SummaryAfter(t) ]
    /\ told' = [ m \in Messages |-> IF TellMessage(m) THEN SnapshotContent(m) ELSE told[m] ]
    /\ toldThread' = [ t \in Threads |->
                         IF TellThread(t) THEN SummaryAfter(t) ELSE toldThread[t] ]
    /\ cursor' = NextCursor
    /\ Forget
    /\ UNCHANGED << provider, resets >>

-----------------------------------------------------------------------------
(* Failures. *)

(* A crash, a rate limit, a lost lease: nothing has been written. *)
Abort ==
    /\ pc # "idle"
    /\ Forget
    /\ UNCHANGED << provider, store, resets >>

(* Gmail no longer knows the cursor; the sync fails and the repair that      *)
(* follows resets it, for a full sync.  Nothing stored is touched.           *)
CursorInvalid ==
    /\ resets < MaxResets
    /\ pc = "paging" /\ cursor # NULL
    /\ resets' = resets + 1
    /\ cursor' = NULL
    /\ Forget
    /\ UNCHANGED << provider, stored, summary, told, toldThread >>

Next ==
    \/ \E m \in Messages : GmailChanges(m) \/ ListMessage(m) \/ ReadBaseline(m)
                             \/ FetchMessage(m)
    \/ StartIncremental \/ StartFull \/ MessagesListed \/ BaselineRead
    \/ \E h \in 1..MaxHistory : ReadPage(h)
    \/ ReadLastPage
    \/ Commit
    \/ Abort \/ CursorInvalid

Spec == Init /\ [][Next]_vars

-----------------------------------------------------------------------------
(* What the canonical state promises. *)

(* The row of a message is what Gmail has, or history after the cursor has a *)
(* record of it, so that the next sync will look at it again.                *)
Covered(m) ==
    \/ stored[m] = gmail[m]
    \/ \E i \in (cursor + 1)..Len(history) : history[i].message = m

(* What the code does not undertake to find: a message that was in Trash or  *)
(* Spam when the mailbox was first read, for as long as it stays there; and, *)
(* when the cursor was lost once, what then went to Trash or Spam or was     *)
(* deleted unseen.                                                           *)
LeftOut(m) ==
    \/ m \in trash /\ stored[m] = 0
    \/ (m \in trash \/ gmail[m] = 0) /\ resets > 0

(* Whatever changes while a sync reads, and wherever syncs are interrupted,  *)
(* no change is missed: but for what is left out, the stored messages are    *)
(* Gmail's, beyond the cursor's history.                                     *)
NothingMissed == cursor # NULL => \A m \in Messages : Covered(m) \/ LeftOut(m)

(* The documentation's perfectly synced state: deletions are not missed      *)
(* either, a repair with a full sync included.                               *)
DeletionsNotMissed ==
    cursor # NULL => \A m \in Messages : gmail[m] = 0 => Covered(m)

(* A thread has a row exactly when it has messages, and the row summarises   *)
(* the newest of them, whichever messages came, changed or were deleted.     *)
ThreadsFollowMessages ==
    \A t \in Threads : summary[t] = Latest(InThread(t, stored))

(* The event log tells the canonical state: the last event about a message   *)
(* or a thread carries what its row holds.                                   *)
EventsTellState ==
    /\ \A m \in Messages : stored[m] # 0 => told[m] = stored[m]
    /\ \A t \in Threads : summary[t] # 0 => toldThread[t] = summary[t]

(* An event carries state that is committed with it: no event tells of a     *)
(* message or a summary that its commit does not leave in the rows.          *)
EventsCarryCommittedState ==
    [][ /\ \A m \in Messages : told'[m] # told[m] => stored'[m] = told'[m]
        /\ \A t \in Threads :
              toldThread'[t] # toldThread[t] => summary'[t] = toldThread'[t] ]_vars

=============================================================================
