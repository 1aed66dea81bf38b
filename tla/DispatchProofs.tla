---------------------------- MODULE DispatchProofs ----------------------------
(***************************************************************************)
(* Proofs about the wake-ups that get a mailbox synced.  They hold for any *)
(* number of wake-ups, deliveries, changes and faults.                     *)
(***************************************************************************)
EXTENDS SyncDispatch, FiniteSetTheorems, TLAPS

-----------------------------------------------------------------------------
(* The dispatch of syncs. *)

(* A running execution holds the lease, and has renewed it, unless a commit  *)
(* that had stalled has cleared it.                                          *)
LeaseIsTheExecutions ==
    /\ holder = "execution" => at # "idle"
    /\ Deprived => holder = "nobody"
    /\ lapsed => holder \in { "stalled", "dead" }
    /\ ~Stalls => ~Deprived

(* A wake-up that is pushed, and no other, waits for the execution's answer. *)
ServedIsPushed ==
    /\ \A m \in Messages : wake[m].place = "pushed" <=> serves = m
    /\ serves # NoMessage => at # "idle"

(* A wake-up whose attempts are used up is dead. *)
QueuedHasTriesLeft == \A m \in Messages : wake[m].place = "queued" => wake[m].tries < MaxTries

(* Whoever has read the mailbox may be behind it, never ahead, and who holds *)
(* the lease has read it after whoever committed or stalled before.  Without *)
(* stalls that goes for the cursor that a renewal has listed as well.        *)
NobodyIsAhead ==
    /\ cursor <= head /\ read <= head /\ late <= head
    /\ at = "read" => cursor <= read /\ late <= read
    /\ ~Stalls => late = NoCommit /\ renewal.cursor <= cursor

DispatchInv ==
    /\ DispatchTypeOK /\ LeaseIsTheExecutions /\ ServedIsPushed /\ QueuedHasTriesLeft
    /\ NobodyIsAhead

(* The cursor goes back in one way only: a commit that had stalled for       *)
(* longer than its lease stores what it had read before.                     *)
CursorAdvancesUnlessLate ==
    [][cursor' < cursor => late # NoCommit /\ cursor' = late]_dispatchVars

(* The renewal compares Gmail's history id with a cursor that it listed      *)
(* before: stale as it may be, no change escapes it that the row lacks, as   *)
(* long as the cursor does not go back.                                      *)
RenewalMissesNoChange ==
    [][RenewWatch /\ cursor < head => renewal'.step = "behind"]_dispatchVars

GoesForAReason(m) ==
    \/ serves = m /\ at = "read" /\ cursor' = read
    \/ wake[m].place = "queued" /\ ~LeaseAvailable
    \/ wake[m].place = "dead" /\ failed'

(* A wake-up is gone only after a sync that it has started is committed,     *)
(* beside a lease that somebody holds, or with the mailbox marked as failed. *)
WakeUpsGoForAReason ==
    [][\A m \in Messages :
          wake[m].place # "none" /\ wake'[m].place = "none" => GoesForAReason(m)]_dispatchVars

(* A set of natural numbers has a least one.                                 *)
LEMMA LeastNumber ==
    ASSUME NEW S \in SUBSET Nat, S # {}
    PROVE  \E m \in S : \A n \in S : m <= n
<1>1. PICK k \in S : TRUE
  OBVIOUS
<1> DEFINE Smaller(j) == { i \in S : i < j }
           Sets == { Smaller(j) : j \in { i \in S : i <= k } }
<1>2. IsFiniteSet(0 .. k)
  BY FS_Interval
<1>3. Sets \subseteq SUBSET (0 .. k) /\ Sets # {}
  <2>1. ASSUME NEW j \in S, j <= k
        PROVE  Smaller(j) \subseteq 0 .. k
    <3>1. \A i \in S : i < j => i \in 0 .. k
      BY <1>1, <2>1
    <3> QED
      BY <3>1
  <2>2. Smaller(k) \in Sets
    BY <1>1
  <2> QED
    BY <2>1, <2>2
<1>4. IsWellFoundedOn(StrictSubsetOrdering(0 .. k), SUBSET (0 .. k))
  BY <1>2, FS_StrictSubsetOrderingWellFounded, FS_FiniteSubsetsOfFinite
<1>5. PICK A \in Sets : \A B \in Sets : ~(<< B, A >> \in StrictSubsetOrdering(0 .. k))
  <2> HIDE DEF Sets
  <2> QED
    BY <1>3, <1>4, WFMin
<1>6. \A B \in Sets : B \subseteq A => B = A
  BY <1>3, <1>5 DEF StrictSubsetOrdering
<1>7. PICK m \in S : m <= k /\ A = Smaller(m)
  OBVIOUS
<1>8. ASSUME NEW n \in S, ~(m <= n)
      PROVE  FALSE
  <2>1. n < m /\ n <= k /\ n \in Nat /\ m \in Nat
    BY <1>7, <1>8
  <2>2. Smaller(n) \in Sets
    BY <2>1
  <2>3. Smaller(n) \subseteq Smaller(m)
    <3>1. \A i \in S : i < n => i < m
      BY <2>1
    <3> QED
      BY <3>1
  <2>4. n \in Smaller(m) /\ n \notin Smaller(n)
    BY <2>1
  <2> QED
    BY <1>6, <1>7, <2>2, <2>3, <2>4
<1> QED
  BY <1>8

(* A publication takes a place that is free.                                 *)
LEMMA PublishTakesAFreePlace ==
    ASSUME DispatchTypeOK, Publish
    PROVE  \E m \in Messages : /\ wake[m].place = "none"
                               /\ wake' = [ wake EXCEPT ![m] = [ place |-> "queued", tries |-> 0 ] ]
<1> DEFINE free == { m \in Messages : wake[m].place = "none" }
           least == CHOOSE m \in free : \A n \in free : m <= n
<1>1. free \in SUBSET Nat /\ free # {}
  BY MessagesAssumption DEF Publish
<1>2. \E m \in free : \A n \in free : m <= n
  <2> HIDE DEF free
  <2> QED
    BY <1>1, LeastNumber
<1>3. least \in free
  BY <1>2
<1>4. wake' = [ wake EXCEPT ![least] = [ place |-> "queued", tries |-> 0 ] ]
  BY DEF Publish
<1> QED
  BY <1>3, <1>4

(* What the wake-ups are, for DispatchTypeOK.                                *)
WakeRecord == [ place : { "none", "queued", "pushed", "dead" }, tries : 0..MaxTries ]

(* What publishing, acknowledging and refusing do to the places and tries.   *)
WakesKept(next) ==
    /\ next \in [ Messages -> WakeRecord ]
    /\ \A m \in Messages : next[m].place = "queued" => next[m].tries < MaxTries

LEMMA PublishKeepsWakes ==
    ASSUME DispatchInv, Publish
    PROVE  /\ WakesKept(wake')
           /\ \A m \in Messages : wake'[m].place = "pushed" <=> wake[m].place = "pushed"
           /\ \A m \in Messages : wake[m].place # "none" => wake'[m].place # "none"
<1> DEFINE queued == [ place |-> "queued", tries |-> 0 ]
<1>1. PICK m \in Messages : wake[m].place = "none" /\ wake' = [ wake EXCEPT ![m] = queued ]
  BY PublishTakesAFreePlace DEF DispatchInv
<1>2. queued \in WakeRecord /\ queued.place = "queued" /\ queued.tries = 0 /\ 0 < MaxTries
  BY TriesAssumption DEF WakeRecord
<1> HIDE DEF queued
<1>3. wake \in [ Messages -> WakeRecord ]
  BY DEF DispatchInv, DispatchTypeOK, WakeRecord
<1>4. \A n \in Messages : wake'[n] = IF n = m THEN queued ELSE wake[n]
  BY <1>1, <1>3
<1>5. wake' \in [ Messages -> WakeRecord ]
  BY <1>1, <1>2, <1>3
<1> QED
  BY <1>1, <1>2, <1>4, <1>5 DEF WakesKept, DispatchInv, QueuedHasTriesLeft

LEMMA AcknowledgedKeepsWakes ==
    ASSUME DispatchInv, NEW m \in Messages \cup {NoMessage}
    PROVE  /\ WakesKept(Acknowledged(m))
           /\ \A n \in Messages : Acknowledged(m)[n] = IF n = m THEN NoWake ELSE wake[n]
<1>1. NoMessage \notin Messages
  BY MessagesAssumption
<1>2. NoWake \in WakeRecord /\ NoWake.place = "none"
  BY TriesAssumption DEF NoWake, WakeRecord
<1>3. wake \in [ Messages -> WakeRecord ]
  BY DEF DispatchInv, DispatchTypeOK, WakeRecord
<1>4. Acknowledged(m) \in [ Messages -> WakeRecord ]
  BY <1>2, <1>3 DEF Acknowledged
<1>5. \A n \in Messages : Acknowledged(m)[n] = IF n = m THEN NoWake ELSE wake[n]
  BY <1>1, <1>3 DEF Acknowledged
<1> QED
  BY <1>2, <1>4, <1>5 DEF WakesKept, DispatchInv, QueuedHasTriesLeft

LEMMA RefusedKeepsWakes ==
    ASSUME DispatchInv, NEW m \in Messages \cup {NoMessage}
    PROVE  /\ WakesKept(Refused(m))
           /\ \A n \in Messages :
                /\ n = m => Refused(m)[n].place \in { "queued", "dead" }
                /\ n # m => Refused(m)[n] = wake[n]
<1>1. NoMessage \notin Messages
  BY MessagesAssumption
<1>2. wake \in [ Messages -> WakeRecord ]
  BY DEF DispatchInv, DispatchTypeOK, WakeRecord
<1>3. CASE m = NoMessage
  BY <1>1, <1>2, <1>3 DEF Refused, WakesKept, DispatchInv, QueuedHasTriesLeft
<1>4. CASE m \in Messages
  <2> DEFINE next == [ wake[m] EXCEPT !.place = IF wake[m].tries >= MaxTries THEN "dead" ELSE "queued" ]
  <2>1. Refused(m) = [ wake EXCEPT ![m] = next ]
    BY <1>1, <1>4 DEF Refused
  <2>2. wake[m] \in WakeRecord /\ wake[m].tries \in Nat /\ MaxTries \in Nat
    BY <1>2, <1>4, TriesAssumption DEF WakeRecord
  <2>3. /\ next \in WakeRecord /\ next.place \in { "queued", "dead" }
        /\ next.place = "queued" => next.tries < MaxTries
    BY <2>2 DEF WakeRecord
  <2> HIDE DEF next
  <2>4. Refused(m) \in [ Messages -> WakeRecord ]
    BY <1>2, <2>1, <2>3
  <2>5. \A n \in Messages : Refused(m)[n] = IF n = m THEN next ELSE wake[n]
    BY <1>2, <2>1
  <2> QED
    BY <2>3, <2>4, <2>5 DEF WakesKept, DispatchInv, QueuedHasTriesLeft
<1> QED
  BY <1>3, <1>4


LEMMA FaultsAreCounted ==
    ASSUME DispatchTypeOK, DispatchFault
    PROVE  dfaults' \in 0..MaxDispatchFaults
BY DispatchBoundsAssumption DEF DispatchTypeOK, DispatchFault

-----------------------------------------------------------------------------
(* Steps that leave the wake-ups, and which of them is served, as they are.  *)

LEMMA WakesStay ==
    ASSUME DispatchInv, UNCHANGED << wake, serves >>, serves # NoMessage => at' # "idle"
    PROVE  /\ wake' \in [ Messages -> WakeRecord ]
           /\ ServedIsPushed' /\ QueuedHasTriesLeft'
<1>1. wake' \in [ Messages -> WakeRecord ]
  BY DEF DispatchInv, DispatchTypeOK, WakeRecord
<1>2. ServedIsPushed' /\ QueuedHasTriesLeft'
  BY DEF DispatchInv, ServedIsPushed, QueuedHasTriesLeft
<1> QED
  BY <1>1, <1>2

LEMMA MailboxChanges ==
    ASSUME DispatchInv, GmailChanges
    PROVE  DispatchInv'
<1> USE DEF DispatchInv, GmailChanges, mailbox, lease, executions, jobs
<1>1. DispatchTypeOK'
  BY FaultsAreCounted DEF DispatchTypeOK, NoRenewal, ReleaseLease, Announcers
<1>2. LeaseIsTheExecutions'
  BY DEF DispatchTypeOK, LeaseIsTheExecutions, Deprived, ReleaseLease
<1>3. serves # NoMessage => at' # "idle"
  BY DEF ServedIsPushed
<1>4. ServedIsPushed' /\ QueuedHasTriesLeft'
  BY <1>3, WakesStay
<1>5. NobodyIsAhead'
  BY DEF DispatchTypeOK, NobodyIsAhead, NoCommit, NoRenewal
<1> QED
  BY <1>1, <1>2, <1>4, <1>5

LEMMA NotificationIsLost ==
    ASSUME DispatchInv, LoseNotification
    PROVE  DispatchInv'
<1> USE DEF DispatchInv, LoseNotification, mailbox, lease, executions, jobs
<1>1. DispatchTypeOK'
  BY FaultsAreCounted, ZenonT(60) DEF DispatchTypeOK, NoRenewal, ReleaseLease, Announcers
<1>2. LeaseIsTheExecutions'
  BY DEF DispatchTypeOK, LeaseIsTheExecutions, Deprived, ReleaseLease
<1>3. serves # NoMessage => at' # "idle"
  BY DEF ServedIsPushed
<1>4. ServedIsPushed' /\ QueuedHasTriesLeft'
  BY <1>3, WakesStay
<1>5. NobodyIsAhead'
  BY DEF DispatchTypeOK, NobodyIsAhead, NoCommit, NoRenewal
<1> QED
  BY <1>1, <1>2, <1>4, <1>5

LEMMA MailboxIsRead ==
    ASSUME DispatchInv, ReadMailbox
    PROVE  DispatchInv'
<1> USE DEF DispatchInv, ReadMailbox, mailbox, lease, executions, jobs
<1>1. DispatchTypeOK'
  BY FaultsAreCounted DEF DispatchTypeOK, NoRenewal, ReleaseLease, Announcers
<1>2. LeaseIsTheExecutions'
  BY DEF DispatchTypeOK, LeaseIsTheExecutions, Deprived, ReleaseLease
<1>3. serves # NoMessage => at' # "idle"
  BY DEF ServedIsPushed
<1>4. ServedIsPushed' /\ QueuedHasTriesLeft'
  BY <1>3, WakesStay
<1>5. NobodyIsAhead'
  BY DEF DispatchTypeOK, NobodyIsAhead, NoCommit, NoRenewal
<1> QED
  BY <1>1, <1>2, <1>4, <1>5

LEMMA LeaseRunsOut ==
    ASSUME DispatchInv, LeaseLapses
    PROVE  DispatchInv'
<1> USE DEF DispatchInv, LeaseLapses, mailbox, lease, executions, jobs
<1>1. DispatchTypeOK'
  BY FaultsAreCounted DEF DispatchTypeOK, NoRenewal, ReleaseLease, Announcers
<1>2. LeaseIsTheExecutions'
  BY DEF DispatchTypeOK, LeaseIsTheExecutions, Deprived, ReleaseLease
<1>3. serves # NoMessage => at' # "idle"
  BY DEF ServedIsPushed
<1>4. ServedIsPushed' /\ QueuedHasTriesLeft'
  BY <1>3, WakesStay
<1>5. NobodyIsAhead'
  BY DEF DispatchTypeOK, NobodyIsAhead, NoCommit, NoRenewal
<1> QED
  BY <1>1, <1>2, <1>4, <1>5

LEMMA StuckLeaseIsReleased ==
    ASSUME DispatchInv, RecoverStuck
    PROVE  DispatchInv'
<1> USE DEF DispatchInv, RecoverStuck, mailbox, lease, executions, jobs
<1>1. DispatchTypeOK'
  BY FaultsAreCounted DEF DispatchTypeOK, NoRenewal, ReleaseLease, Announcers
<1>2. LeaseIsTheExecutions'
  BY DEF DispatchTypeOK, LeaseIsTheExecutions, Deprived, ReleaseLease
<1>3. serves # NoMessage => at' # "idle"
  BY DEF ServedIsPushed
<1>4. ServedIsPushed' /\ QueuedHasTriesLeft'
  BY <1>3, WakesStay
<1>5. NobodyIsAhead'
  BY DEF DispatchTypeOK, NobodyIsAhead, NoCommit, NoRenewal
<1> QED
  BY <1>1, <1>2, <1>4, <1>5

LEMMA AnnouncementFails ==
    ASSUME DispatchInv, NEW a \in Announcers, AnnounceFails(a)
    PROVE  DispatchInv'
<1> USE DEF DispatchInv, AnnounceFails, mailbox, lease, executions, jobs
<1>1. DispatchTypeOK'
  BY FaultsAreCounted DEF DispatchTypeOK, NoRenewal, ReleaseLease, Announcers
<1>2. LeaseIsTheExecutions'
  BY DEF DispatchTypeOK, LeaseIsTheExecutions, Deprived, ReleaseLease
<1>3. serves # NoMessage => at' # "idle"
  BY DEF ServedIsPushed
<1>4. ServedIsPushed' /\ QueuedHasTriesLeft'
  BY <1>3, WakesStay
<1>5. NobodyIsAhead'
  BY DEF DispatchTypeOK, NobodyIsAhead, NoCommit, NoRenewal
<1> QED
  BY <1>1, <1>2, <1>4, <1>5

LEMMA WatchGetsOlder ==
    ASSUME DispatchInv, WatchAges
    PROVE  DispatchInv'
<1> USE DEF DispatchInv, WatchAges, mailbox, lease, executions, jobs
<1>1. DispatchTypeOK'
  BY FaultsAreCounted DEF DispatchTypeOK, NoRenewal, ReleaseLease, Announcers
<1>2. LeaseIsTheExecutions'
  BY DEF DispatchTypeOK, LeaseIsTheExecutions, Deprived, ReleaseLease
<1>3. serves # NoMessage => at' # "idle"
  BY DEF ServedIsPushed
<1>4. ServedIsPushed' /\ QueuedHasTriesLeft'
  BY <1>3, WakesStay
<1>5. NobodyIsAhead'
  BY DEF DispatchTypeOK, NobodyIsAhead, NoCommit, NoRenewal
<1> QED
  BY <1>1, <1>2, <1>4, <1>5

LEMMA MailboxIsListed ==
    ASSUME DispatchInv, ListForRenewal
    PROVE  DispatchInv'
<1> USE DEF DispatchInv, ListForRenewal, mailbox, lease, executions, jobs
<1>1. DispatchTypeOK'
  BY FaultsAreCounted DEF DispatchTypeOK, NoRenewal, ReleaseLease, Announcers
<1>2. LeaseIsTheExecutions'
  BY DEF DispatchTypeOK, LeaseIsTheExecutions, Deprived, ReleaseLease
<1>3. serves # NoMessage => at' # "idle"
  BY DEF ServedIsPushed
<1>4. ServedIsPushed' /\ QueuedHasTriesLeft'
  BY <1>3, WakesStay
<1>5. NobodyIsAhead'
  BY DEF DispatchTypeOK, NobodyIsAhead, NoCommit, NoRenewal
<1> QED
  BY <1>1, <1>2, <1>4, <1>5

LEMMA WatchIsRenewed ==
    ASSUME DispatchInv, RenewWatch
    PROVE  DispatchInv'
<1> USE DEF DispatchInv, RenewWatch, mailbox, lease, executions, jobs
<1>1. DispatchTypeOK'
  BY FaultsAreCounted DEF DispatchTypeOK, NoRenewal, ReleaseLease, Announcers
<1>2. LeaseIsTheExecutions'
  BY DEF DispatchTypeOK, LeaseIsTheExecutions, Deprived, ReleaseLease
<1>3. serves # NoMessage => at' # "idle"
  BY DEF ServedIsPushed
<1>4. ServedIsPushed' /\ QueuedHasTriesLeft'
  BY <1>3, WakesStay
<1>5. NobodyIsAhead'
  BY DEF DispatchTypeOK, NobodyIsAhead, NoCommit, NoRenewal
<1> QED
  BY <1>1, <1>2, <1>4, <1>5

LEMMA RenewalIsLost ==
    ASSUME DispatchInv, RenewalFails
    PROVE  DispatchInv'
<1> USE DEF DispatchInv, RenewalFails, mailbox, lease, executions, jobs
<1>1. DispatchTypeOK'
  BY FaultsAreCounted DEF DispatchTypeOK, NoRenewal, ReleaseLease, Announcers
<1>2. LeaseIsTheExecutions'
  BY DEF DispatchTypeOK, LeaseIsTheExecutions, Deprived, ReleaseLease
<1>3. serves # NoMessage => at' # "idle"
  BY DEF ServedIsPushed
<1>4. ServedIsPushed' /\ QueuedHasTriesLeft'
  BY <1>3, WakesStay
<1>5. NobodyIsAhead'
  BY DEF DispatchTypeOK, NobodyIsAhead, NoCommit, NoRenewal
<1> QED
  BY <1>1, <1>2, <1>4, <1>5

-----------------------------------------------------------------------------
(* Steps that publish a wake-up. *)

LEMMA NotificationIsIngested ==
    ASSUME DispatchInv, IngestPush
    PROVE  DispatchInv'
<1>1. /\ WakesKept(wake')
      /\ \A m \in Messages : wake'[m].place = "pushed" <=> wake[m].place = "pushed"
  BY PublishKeepsWakes DEF IngestPush
<1> USE DEF DispatchInv, IngestPush, mailbox, lease, executions, jobs
<1>2. DispatchTypeOK'
  BY <1>1, FaultsAreCounted, ZenonT(60) DEF DispatchTypeOK, NoRenewal, WakesKept, WakeRecord
<1>3. LeaseIsTheExecutions'
  BY DEF LeaseIsTheExecutions, Deprived
<1>4. ServedIsPushed' /\ QueuedHasTriesLeft'
  BY <1>1 DEF ServedIsPushed, QueuedHasTriesLeft, WakesKept
<1>5. NobodyIsAhead'
  BY DEF DispatchTypeOK, NobodyIsAhead, NoCommit, NoRenewal
<1> QED
  BY <1>2, <1>3, <1>4, <1>5

LEMMA DispatchIsAnnounced ==
    ASSUME DispatchInv, NEW a \in Announcers, Announce(a)
    PROVE  DispatchInv'
<1>1. /\ WakesKept(wake')
      /\ \A m \in Messages : wake'[m].place = "pushed" <=> wake[m].place = "pushed"
  BY PublishKeepsWakes DEF Announce
<1> USE DEF DispatchInv, Announce, mailbox, lease, executions, jobs
<1>2. DispatchTypeOK'
  BY <1>1, FaultsAreCounted DEF DispatchTypeOK, NoRenewal, WakesKept, WakeRecord
<1>3. LeaseIsTheExecutions'
  BY DEF LeaseIsTheExecutions, Deprived
<1>4. ServedIsPushed' /\ QueuedHasTriesLeft'
  BY <1>1 DEF ServedIsPushed, QueuedHasTriesLeft, WakesKept
<1>5. NobodyIsAhead'
  BY DEF DispatchTypeOK, NobodyIsAhead, NoCommit, NoRenewal
<1> QED
  BY <1>2, <1>3, <1>4, <1>5

LEMMA CatchUpIsDispatched ==
    ASSUME DispatchInv, DispatchCatchUp
    PROVE  DispatchInv'
<1>1. /\ WakesKept(wake')
      /\ \A m \in Messages : wake'[m].place = "pushed" <=> wake[m].place = "pushed"
  BY PublishKeepsWakes DEF DispatchCatchUp
<1> USE DEF DispatchInv, DispatchCatchUp, mailbox, lease, executions, jobs
<1>2. DispatchTypeOK'
  BY <1>1, FaultsAreCounted DEF DispatchTypeOK, NoRenewal, WakesKept, WakeRecord
<1>3. LeaseIsTheExecutions'
  BY DEF LeaseIsTheExecutions, Deprived
<1>4. ServedIsPushed' /\ QueuedHasTriesLeft'
  BY <1>1 DEF ServedIsPushed, QueuedHasTriesLeft, WakesKept
<1>5. NobodyIsAhead'
  BY DEF DispatchTypeOK, NobodyIsAhead, NoCommit, NoRenewal
<1> QED
  BY <1>2, <1>3, <1>4, <1>5

-----------------------------------------------------------------------------
(* Steps of Pub/Sub and the workers. *)

LEMMA WakeUpStartsASync ==
    ASSUME DispatchInv, NEW m \in Messages, DeliverToSync(m)
    PROVE  DispatchInv'
<1> USE DEF DispatchInv
<1> DEFINE pushed == [ place |-> "pushed", tries |-> wake[m].tries + 1 ]
<1>1. /\ wake' = [ wake EXCEPT ![m] = pushed ]
      /\ holder' = "execution" /\ lapsed' = FALSE /\ at' = "syncing" /\ serves' = m
      /\ UNCHANGED << head, cursor, failed, notice, read, late, watch, renewal, announcing, dfaults >>
  BY DEF DeliverToSync, mailbox, jobs
<1>2. wake \in [ Messages -> WakeRecord ]
  BY DEF DispatchTypeOK, WakeRecord
<1>3. wake[m].tries < MaxTries
  BY DEF DeliverToSync, QueuedHasTriesLeft
<1>4. pushed \in WakeRecord /\ pushed.place = "pushed"
  BY <1>2, <1>3, TriesAssumption DEF WakeRecord
<1> HIDE DEF pushed
<1>5. \A n \in Messages : wake'[n] = IF n = m THEN pushed ELSE wake[n]
  BY <1>1, <1>2
<1>6. wake' \in [ Messages -> WakeRecord ]
  BY <1>1, <1>2, <1>4
<1>7. at = "idle" /\ serves = NoMessage
  BY DEF DeliverToSync, LeaseAvailable, Deprived, LeaseIsTheExecutions, ServedIsPushed
<1>8. DispatchTypeOK'
  BY <1>1, <1>6 DEF DispatchTypeOK, WakeRecord
<1>9. LeaseIsTheExecutions'
  BY <1>1 DEF LeaseIsTheExecutions, Deprived
<1>10. ServedIsPushed'
  <2>1. \A n \in Messages : wake[n].place # "pushed"
    BY <1>7, MessagesAssumption DEF ServedIsPushed
  <2> QED
    BY <1>1, <1>4, <1>5, <2>1 DEF ServedIsPushed
<1>11. QueuedHasTriesLeft'
  BY <1>4, <1>5 DEF QueuedHasTriesLeft
<1>12. NobodyIsAhead'
  BY <1>1 DEF NobodyIsAhead, NoCommit
<1> QED
  BY <1>8, <1>9, <1>10, <1>11, <1>12

LEMMA WakeUpIsSkipped ==
    ASSUME DispatchInv, NEW m \in Messages, DeliverToSkip(m)
    PROVE  DispatchInv'
<1> USE DEF DispatchInv, DeliverToSkip, mailbox, lease, executions, jobs
<1>1. /\ WakesKept(wake')
      /\ \A n \in Messages :
           wake'[n] = IF n = m THEN NoWake ELSE wake[n]
  BY AcknowledgedKeepsWakes DEF DispatchTypeOK
<1>2. DispatchTypeOK'
  BY <1>1, FaultsAreCounted DEF DispatchTypeOK, WakesKept, WakeRecord, ReleaseLease, Over
<1>3. LeaseIsTheExecutions'
  BY DEF LeaseIsTheExecutions, Deprived, ReleaseLease, Over
<1>4. ServedIsPushed'
  BY <1>1, MessagesAssumption DEF ServedIsPushed, NoWake, Over
<1>5. QueuedHasTriesLeft'
  BY <1>1 DEF QueuedHasTriesLeft, WakesKept
<1>6. NobodyIsAhead'
  BY DEF DispatchTypeOK, NobodyIsAhead, NoCommit, Over
<1> QED
  BY <1>2, <1>3, <1>4, <1>5, <1>6

LEMMA SyncIsCommitted ==
    ASSUME DispatchInv, CommitSync
    PROVE  DispatchInv'
<1> USE DEF DispatchInv, CommitSync, mailbox, lease, executions, jobs
<1>1. /\ WakesKept(wake')
      /\ \A n \in Messages :
           wake'[n] = IF n = serves THEN NoWake ELSE wake[n]
  BY AcknowledgedKeepsWakes DEF DispatchTypeOK
<1>2. DispatchTypeOK'
  BY <1>1, FaultsAreCounted DEF DispatchTypeOK, WakesKept, WakeRecord, ReleaseLease, Over
<1>3. LeaseIsTheExecutions'
  BY DEF LeaseIsTheExecutions, Deprived, ReleaseLease, Over
<1>4. ServedIsPushed'
  BY <1>1, MessagesAssumption DEF ServedIsPushed, NoWake, Over
<1>5. QueuedHasTriesLeft'
  BY <1>1 DEF QueuedHasTriesLeft, WakesKept
<1>6. NobodyIsAhead'
  BY DEF DispatchTypeOK, NobodyIsAhead, NoCommit, Over
<1> QED
  BY <1>2, <1>3, <1>4, <1>5, <1>6

LEMMA DeadLetterIsRecorded ==
    ASSUME DispatchInv, NEW m \in Messages, RecordDeadLetter(m)
    PROVE  DispatchInv'
<1> USE DEF DispatchInv, RecordDeadLetter, mailbox, lease, executions, jobs
<1>1. /\ WakesKept(wake')
      /\ \A n \in Messages :
           wake'[n] = IF n = m THEN NoWake ELSE wake[n]
  BY AcknowledgedKeepsWakes DEF DispatchTypeOK
<1>2. DispatchTypeOK'
  BY <1>1, FaultsAreCounted DEF DispatchTypeOK, WakesKept, WakeRecord, ReleaseLease, Over
<1>3. LeaseIsTheExecutions'
  BY DEF LeaseIsTheExecutions, Deprived, ReleaseLease, Over
<1>4. ServedIsPushed'
  BY <1>1, MessagesAssumption DEF ServedIsPushed, NoWake, Over
<1>5. QueuedHasTriesLeft'
  BY <1>1 DEF QueuedHasTriesLeft, WakesKept
<1>6. NobodyIsAhead'
  BY DEF DispatchTypeOK, NobodyIsAhead, NoCommit, Over
<1> QED
  BY <1>2, <1>3, <1>4, <1>5, <1>6

LEMMA SyncIsRefused ==
    ASSUME DispatchInv, SyncFails
    PROVE  DispatchInv'
<1> USE DEF DispatchInv, SyncFails, mailbox, lease, executions, jobs
<1>1. /\ WakesKept(wake')
      /\ \A n \in Messages :
           /\ n = serves => wake'[n].place \in { "queued", "dead" }
           /\ n # serves => wake'[n] = wake[n]
  BY RefusedKeepsWakes DEF DispatchTypeOK
<1>2. DispatchTypeOK'
  BY <1>1, FaultsAreCounted DEF DispatchTypeOK, WakesKept, WakeRecord, ReleaseLease, Over
<1>3. LeaseIsTheExecutions'
  BY DEF LeaseIsTheExecutions, Deprived, ReleaseLease, Over
<1>4. ServedIsPushed'
  BY <1>1, MessagesAssumption DEF ServedIsPushed, NoWake, Over
<1>5. QueuedHasTriesLeft'
  BY <1>1 DEF QueuedHasTriesLeft, WakesKept
<1>6. NobodyIsAhead'
  BY DEF DispatchTypeOK, NobodyIsAhead, NoCommit, Over
<1> QED
  BY <1>2, <1>3, <1>4, <1>5, <1>6

LEMMA ExecutionDies ==
    ASSUME DispatchInv, WorkerDies
    PROVE  DispatchInv'
<1> USE DEF DispatchInv, WorkerDies, mailbox, lease, executions, jobs
<1>1. /\ WakesKept(wake')
      /\ \A n \in Messages :
           /\ n = serves => wake'[n].place \in { "queued", "dead" }
           /\ n # serves => wake'[n] = wake[n]
  BY RefusedKeepsWakes DEF DispatchTypeOK
<1>2. DispatchTypeOK'
  BY <1>1, FaultsAreCounted DEF DispatchTypeOK, WakesKept, WakeRecord, ReleaseLease, Over
<1>3. LeaseIsTheExecutions'
  BY DEF LeaseIsTheExecutions, Deprived, ReleaseLease, Over
<1>4. ServedIsPushed'
  BY <1>1, MessagesAssumption DEF ServedIsPushed, NoWake, Over
<1>5. QueuedHasTriesLeft'
  BY <1>1 DEF QueuedHasTriesLeft, WakesKept
<1>6. NobodyIsAhead'
  BY DEF DispatchTypeOK, NobodyIsAhead, NoCommit, Over
<1> QED
  BY <1>2, <1>3, <1>4, <1>5, <1>6

LEMMA ExecutionLosesLease ==
    ASSUME DispatchInv, LosesLease
    PROVE  DispatchInv'
<1> USE DEF DispatchInv, LosesLease, mailbox, lease, executions, jobs
<1>1. /\ WakesKept(wake')
      /\ \A n \in Messages :
           /\ n = serves => wake'[n].place \in { "queued", "dead" }
           /\ n # serves => wake'[n] = wake[n]
  BY RefusedKeepsWakes DEF DispatchTypeOK
<1>2. DispatchTypeOK'
  BY <1>1, FaultsAreCounted DEF DispatchTypeOK, WakesKept, WakeRecord, ReleaseLease, Over
<1>3. LeaseIsTheExecutions'
  BY DEF LeaseIsTheExecutions, Deprived, ReleaseLease, Over
<1>4. ServedIsPushed'
  BY <1>1, MessagesAssumption DEF ServedIsPushed, NoWake, Over
<1>5. QueuedHasTriesLeft'
  BY <1>1 DEF QueuedHasTriesLeft, WakesKept
<1>6. NobodyIsAhead'
  BY DEF DispatchTypeOK, NobodyIsAhead, NoCommit, Over
<1> QED
  BY <1>2, <1>3, <1>4, <1>5, <1>6

LEMMA CommitIsStalled ==
    ASSUME DispatchInv, CommitStalls
    PROVE  DispatchInv'
<1> USE DEF DispatchInv, CommitStalls, mailbox, lease, executions, jobs
<1>1. /\ WakesKept(wake')
      /\ \A n \in Messages :
           /\ n = serves => wake'[n].place \in { "queued", "dead" }
           /\ n # serves => wake'[n] = wake[n]
  BY RefusedKeepsWakes DEF DispatchTypeOK
<1>2. DispatchTypeOK'
  BY <1>1, FaultsAreCounted DEF DispatchTypeOK, WakesKept, WakeRecord, ReleaseLease, Over
<1>3. LeaseIsTheExecutions'
  BY DEF LeaseIsTheExecutions, Deprived, ReleaseLease, Over
<1>4. ServedIsPushed'
  BY <1>1, MessagesAssumption DEF ServedIsPushed, NoWake, Over
<1>5. QueuedHasTriesLeft'
  BY <1>1 DEF QueuedHasTriesLeft, WakesKept
<1>6. NobodyIsAhead'
  BY DEF DispatchTypeOK, NobodyIsAhead, NoCommit, Over
<1> QED
  BY <1>2, <1>3, <1>4, <1>5, <1>6

LEMMA CommitComesLate ==
    ASSUME DispatchInv, LateCommit
    PROVE  DispatchInv'
<1> USE DEF DispatchInv, LateCommit, mailbox, lease, executions, jobs
<1>1. DispatchTypeOK'
  BY FaultsAreCounted DEF DispatchTypeOK, NoRenewal, ReleaseLease, NoCommit
<1>2. LeaseIsTheExecutions'
  BY DEF DispatchTypeOK, LeaseIsTheExecutions, Deprived, ReleaseLease, NobodyIsAhead
<1>3. serves # NoMessage => at' # "idle"
  BY DEF ServedIsPushed
<1>4. ServedIsPushed' /\ QueuedHasTriesLeft'
  BY <1>3, WakesStay
<1>5. NobodyIsAhead'
  BY DEF DispatchTypeOK, NobodyIsAhead, NoCommit
<1> QED
  BY <1>1, <1>2, <1>4, <1>5

LEMMA StalledRunIsFailed ==
    ASSUME DispatchInv, StalledRunFails
    PROVE  DispatchInv'
<1> USE DEF DispatchInv, StalledRunFails, mailbox, lease, executions, jobs
<1>1. DispatchTypeOK'
  <2>1. holder' \in { "nobody", "execution", "stalled", "dead" } /\ lapsed' \in BOOLEAN
    BY DEF DispatchTypeOK, ReleaseLease
  <2> QED
    BY <2>1 DEF DispatchTypeOK
<1>2. LeaseIsTheExecutions'
  BY DEF DispatchTypeOK, LeaseIsTheExecutions, Deprived, ReleaseLease, NobodyIsAhead
<1>3. serves # NoMessage => at' # "idle"
  BY DEF ServedIsPushed
<1>4. ServedIsPushed' /\ QueuedHasTriesLeft'
  BY <1>3, WakesStay
<1>5. NobodyIsAhead'
  BY DEF DispatchTypeOK, NobodyIsAhead, NoCommit
<1> QED
  BY <1>1, <1>2, <1>4, <1>5

LEMMA StalledRunIsDead ==
    ASSUME DispatchInv, StalledRunDies
    PROVE  DispatchInv'
<1> USE DEF DispatchInv, StalledRunDies, mailbox, lease, executions, jobs
<1>1. DispatchTypeOK'
  BY FaultsAreCounted DEF DispatchTypeOK, NoRenewal, ReleaseLease, NoCommit
<1>2. LeaseIsTheExecutions'
  BY DEF DispatchTypeOK, LeaseIsTheExecutions, Deprived, ReleaseLease, NobodyIsAhead
<1>3. serves # NoMessage => at' # "idle"
  BY DEF ServedIsPushed
<1>4. ServedIsPushed' /\ QueuedHasTriesLeft'
  BY <1>3, WakesStay
<1>5. NobodyIsAhead'
  BY DEF DispatchTypeOK, NobodyIsAhead, NoCommit
<1> QED
  BY <1>1, <1>2, <1>4, <1>5

LEMMA DeadlineIsOver ==
    ASSUME DispatchInv, DeadlinePasses
    PROVE  DispatchInv'
<1> USE DEF DispatchInv, DeadlinePasses, mailbox, lease, executions, jobs
<1>1. /\ WakesKept(wake')
      /\ \A n \in Messages :
           /\ n = serves => wake'[n].place \in { "queued", "dead" }
           /\ n # serves => wake'[n] = wake[n]
  BY RefusedKeepsWakes DEF DispatchTypeOK
<1>2. DispatchTypeOK'
  BY <1>1, FaultsAreCounted DEF DispatchTypeOK, WakesKept, WakeRecord, ReleaseLease, Over
<1>3. LeaseIsTheExecutions'
  BY DEF LeaseIsTheExecutions, Deprived, ReleaseLease, Over
<1>4. ServedIsPushed'
  BY <1>1, MessagesAssumption DEF ServedIsPushed, NoWake, Over
<1>5. QueuedHasTriesLeft'
  BY <1>1 DEF QueuedHasTriesLeft, WakesKept
<1>6. NobodyIsAhead'
  BY DEF DispatchTypeOK, NobodyIsAhead, NoCommit, Over
<1> QED
  BY <1>2, <1>3, <1>4, <1>5, <1>6

-----------------------------------------------------------------------------

LEMMA DispatchInitially == DispatchInit => DispatchInv
<1> SUFFICES ASSUME DispatchInit
             PROVE  DispatchInv
  OBVIOUS
<1> USE DEF DispatchInit
<1>1. DispatchTypeOK
  <2>1. wake \in [ Messages -> [ place : { "none", "queued", "pushed", "dead" }, tries : 0..MaxTries ] ]
    BY TriesAssumption DEF NoWake
  <2>2. dfaults \in 0..MaxDispatchFaults
    BY DispatchBoundsAssumption
  <2>3. renewal \in [ step : { "idle", "listed", "behind" }, cursor : Nat, expired : BOOLEAN ]
    BY DEF NoRenewal
  <2> QED
    BY <2>1, <2>2, <2>3 DEF DispatchTypeOK, Announcers, NoCommit
<1>2. LeaseIsTheExecutions /\ QueuedHasTriesLeft /\ NobodyIsAhead
  BY DEF LeaseIsTheExecutions, Deprived, QueuedHasTriesLeft, NobodyIsAhead, NoWake, NoRenewal,
         NoCommit
<1>3. ServedIsPushed
  BY MessagesAssumption DEF ServedIsPushed, NoWake
<1> QED
  BY <1>1, <1>2, <1>3 DEF DispatchInv

LEMMA DispatchStep ==
    ASSUME DispatchInv, [DispatchNext]_dispatchVars
    PROVE  DispatchInv'
<1>1. CASE GmailChanges \/ LoseNotification \/ IngestPush
  BY <1>1, MailboxChanges, NotificationIsLost, NotificationIsIngested
<1>2. ASSUME NEW m \in Messages, DeliverToSync(m) \/ DeliverToSkip(m) \/ RecordDeadLetter(m)
      PROVE  DispatchInv'
  BY <1>2, WakeUpStartsASync, WakeUpIsSkipped, DeadLetterIsRecorded
<1>3. CASE ReadMailbox \/ CommitSync \/ SyncFails \/ LosesLease \/ WorkerDies
  BY <1>3, MailboxIsRead, SyncIsCommitted, SyncIsRefused, ExecutionLosesLease, ExecutionDies
<1>4. CASE CommitStalls \/ LateCommit \/ StalledRunFails \/ StalledRunDies \/ DeadlinePasses
  BY <1>4, CommitIsStalled, CommitComesLate, StalledRunIsFailed, StalledRunIsDead, DeadlineIsOver
<1>5. CASE LeaseLapses \/ RecoverStuck
  BY <1>5, LeaseRunsOut, StuckLeaseIsReleased
<1>6. ASSUME NEW a \in Announcers, Announce(a) \/ AnnounceFails(a)
      PROVE  DispatchInv'
  BY <1>6, DispatchIsAnnounced, AnnouncementFails
<1>7. CASE WatchAges \/ ListForRenewal \/ RenewWatch \/ DispatchCatchUp \/ RenewalFails
  BY <1>7, WatchGetsOlder, MailboxIsListed, WatchIsRenewed, CatchUpIsDispatched, RenewalIsLost
<1>8. CASE UNCHANGED dispatchVars
  BY <1>8 DEF dispatchVars, mailbox, lease, executions, jobs, DispatchInv, DispatchTypeOK,
              LeaseIsTheExecutions, Deprived, ServedIsPushed, QueuedHasTriesLeft, NobodyIsAhead
<1> QED
  BY <1>1, <1>2, <1>3, <1>4, <1>5, <1>6, <1>7, <1>8 DEF DispatchNext

(* An execution holds the lease unless a late commit has cleared it; the     *)
(* wake-up that is pushed is the one that the execution serves; and nobody   *)
(* who has read the mailbox is ahead of it.                                  *)
THEOREM DispatchInvariance == DispatchSpec => []DispatchInv
<1> QED
  BY DispatchInitially, DispatchStep, PTL DEF DispatchSpec

(* Every variable of the dispatch keeps its type: in particular a wake-up is *)
(* never delivered more often than the subscription allows.                  *)
THEOREM DispatchTypeCorrectness == DispatchSpec => []DispatchTypeOK
<1>1. DispatchInv => DispatchTypeOK
  BY DEF DispatchInv
<1> QED
  BY <1>1, DispatchInvariance, PTL

(* No execution that holds the lease takes the cursor back, however many     *)
(* have died, have stalled or have committed since it began: the cursor is   *)
(* taken back by no step but a late commit, and then to what that has read.  *)
THEOREM CursorAdvancesUnlessLateAlways == DispatchSpec => CursorAdvancesUnlessLate
<1>1. ASSUME DispatchInv, [DispatchNext]_dispatchVars, cursor' < cursor
      PROVE  late # NoCommit /\ cursor' = late
  <2>1. cursor \in Nat
    BY <1>1 DEF DispatchInv, DispatchTypeOK
  <2>2. ~CommitSync
    BY <1>1 DEF CommitSync, DispatchInv, DispatchTypeOK, NobodyIsAhead
  <2>3. CASE LateCommit
    BY <2>3 DEF LateCommit
  <2>4. CASE ~LateCommit
    <3>1. cursor' = cursor
      BY <1>1, <2>2, <2>4
      DEF DispatchNext, GmailChanges, LoseNotification, IngestPush, DeliverToSync, DeliverToSkip,
          RecordDeadLetter, ReadMailbox, SyncFails, LosesLease, WorkerDies, CommitStalls,
          StalledRunFails, StalledRunDies, DeadlinePasses, LeaseLapses, RecoverStuck, Announce,
          AnnounceFails, WatchAges, ListForRenewal, RenewWatch, DispatchCatchUp, RenewalFails,
          dispatchVars, mailbox
    <3> QED
      BY <1>1, <2>1, <3>1
  <2> QED
    BY <2>3, <2>4
<1> QED
  BY <1>1, DispatchInvariance, PTL DEF DispatchSpec, CursorAdvancesUnlessLate

(* Although the renewal compares Gmail's history id with a cursor that was   *)
(* listed before, and may be behind the row's by then, it dispatches a sync  *)
(* whenever the mailbox has a change that the row lacks.  This takes that no *)
(* commit stalls: one that does may take the cursor back after the listing,  *)
(* and then the next renewal is the first to notice.                         *)
THEOREM RenewalMissesNoChangeUnlessStalled ==
    ASSUME ~Stalls
    PROVE  DispatchSpec => RenewalMissesNoChange
<1>1. ASSUME DispatchInv, RenewWatch, cursor < head
      PROVE  renewal'.step = "behind"
  <2>1. head > renewal.cursor
    BY <1>1 DEF DispatchInv, DispatchTypeOK, NobodyIsAhead
  <2> QED
    BY <1>1, <2>1 DEF RenewWatch, NeedsCatchUp, NoRenewal
<1> QED
  BY <1>1, DispatchInvariance, PTL DEF DispatchSpec, RenewalMissesNoChange

(* A wake-up is gone only after a sync that it has started is committed,     *)
(* beside a lease that somebody holds, or with the mailbox marked as failed. *)
THEOREM WakeUpsGoForAReasonAlways == DispatchSpec => WakeUpsGoForAReason
<1>1. ASSUME DispatchInv, [DispatchNext]_dispatchVars, NEW m \in Messages,
             wake[m].place # "none", wake'[m].place = "none"
      PROVE  GoesForAReason(m)
  <2>1. ~Publish
    BY <1>1, PublishKeepsWakes
  <2>2. ASSUME NEW n \in Messages, DeliverToSkip(n)
        PROVE  GoesForAReason(m)
    <3>1. m = n
      BY <1>1, <2>2, AcknowledgedKeepsWakes DEF DeliverToSkip
    <3> QED
      BY <2>2, <3>1 DEF DeliverToSkip, GoesForAReason
  <2>3. ASSUME NEW n \in Messages, RecordDeadLetter(n)
        PROVE  GoesForAReason(m)
    <3>1. m = n
      BY <1>1, <2>3, AcknowledgedKeepsWakes DEF RecordDeadLetter
    <3> QED
      BY <2>3, <3>1 DEF RecordDeadLetter, GoesForAReason
  <2>4. CASE CommitSync
    BY <1>1, <2>4, AcknowledgedKeepsWakes DEF CommitSync, DispatchInv, DispatchTypeOK,
                                                     GoesForAReason
  <2>5. serves \in Messages \cup {NoMessage}
    BY <1>1 DEF DispatchInv, DispatchTypeOK
  <2>6. wake' # Refused(serves)
    BY <1>1, <2>5, RefusedKeepsWakes
  <2>7. ~(\E n \in Messages : DeliverToSync(n))
    BY <1>1 DEF DeliverToSync, DispatchInv, DispatchTypeOK
  <2> QED
    BY <1>1, <2>1, <2>2, <2>3, <2>4, <2>6, <2>7
    DEF DispatchNext, GmailChanges, LoseNotification, IngestPush, ReadMailbox, SyncFails,
        LosesLease, WorkerDies, CommitStalls, LateCommit, StalledRunFails, StalledRunDies,
        DeadlinePasses, LeaseLapses, RecoverStuck, Announce, AnnounceFails, WatchAges,
        ListForRenewal, RenewWatch, DispatchCatchUp, RenewalFails, dispatchVars
<1>2. ASSUME DispatchInv, [DispatchNext]_dispatchVars
      PROVE  \A m \in Messages :
                wake[m].place # "none" /\ wake'[m].place = "none" => GoesForAReason(m)
  BY <1>1, <1>2
<1> QED
  BY <1>2, DispatchInvariance, PTL DEF DispatchSpec, WakeUpsGoForAReason

=============================================================================
