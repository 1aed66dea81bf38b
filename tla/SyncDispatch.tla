---------------------------- MODULE SyncDispatch ----------------------------
(***************************************************************************)
(* How a change of ONE Gmail mailbox gets synced: Gmail's push             *)
(* notifications, the wake-ups published to Pub/Sub for them, the workers  *)
(* that the subscription pushes those to, its dead-letter topic, the       *)
(* recovery of stuck executions and the renewal of the Gmail watch.        *)
(*                                                                         *)
(* A sync execution is kept as coarse as the transport sees it: it takes   *)
(* the lease, reads the mailbox, commits and answers; CanonicalState has    *)
(* its reads.  MailboxSync has its statements and shows that there is one  *)
(* such execution at a time, beside those whose commit stalls past the end *)
(* of their lease: one of these is kept here.  The mailbox stays connected.*)
(***************************************************************************)
EXTENDS Naturals

CONSTANTS
    Messages,          \* bound: wake-ups outstanding at once
    MaxTries,          \* mailbox_sync_dispatch_max_delivery_attempts
    MaxHead,           \* bound: changes of the mailbox
    MaxDispatchFaults, \* bound: lost notifications, crashes, stalls, failed calls
    Stalls             \* whether a commit may stall for longer than its lease

NoMessage == 0

ASSUME MessagesAssumption == Messages \subseteq Nat \ {NoMessage} /\ Messages # {}
ASSUME TriesAssumption == MaxTries \in Nat \ {0}
ASSUME DispatchBoundsAssumption == MaxHead \in Nat /\ MaxDispatchFaults \in Nat
ASSUME StallsAssumption == Stalls \in BOOLEAN

VARIABLES
    head,       \* Gmail's history id
    cursor,     \* mailboxes.cursor, 0 when null
    failed,     \* mailboxes.sync_state is failed or lagging
    notice,     \* a Gmail push notification waits in its subscription
    wake,       \* the wake-ups: where each is and how often it was pushed
    serves,     \* the wake-up whose fate the execution's answer decides
    at,         \* where the execution stands
    read,       \* the history id it has read the mailbox at
    late,       \* what the commit that has stalled will store, bound: one at a time
    holder,     \* who holds the lease: nobody, the execution, the stalled one,
                \* or one that died
    lapsed,     \* the lease has expired
    watch,      \* Gmail's watch: it lasts, ends within the window, or has ended
    renewal,    \* the renewal job's work on this mailbox
    announcing, \* who is about to dispatch: the connect callback, the recovery
    dfaults

mailbox == << head, cursor, failed >>
lease == << holder, lapsed >>
executions == << serves, at, read, late >>
jobs == << renewal, announcing >>
dispatchVars == << mailbox, notice, wake, executions, lease, watch, jobs, dfaults >>

Announcers == { "connect", "recovery" }
NoRenewal == [ step |-> "idle", cursor |-> 0, expired |-> FALSE ]
NoWake == [ place |-> "none", tries |-> 0 ]
NoCommit == 0

DispatchTypeOK ==
    /\ head \in Nat /\ cursor \in Nat /\ failed \in BOOLEAN
    /\ notice \in BOOLEAN
    /\ wake \in [ Messages -> [ place : { "none", "queued", "pushed", "dead" },
                                tries : 0..MaxTries ] ]
    /\ serves \in Messages \cup {NoMessage}
    /\ at \in { "idle", "syncing", "read" }
    /\ read \in Nat
    /\ late \in Nat
    /\ holder \in { "nobody", "execution", "stalled", "dead" } /\ lapsed \in BOOLEAN
    /\ watch \in { "lasting", "ending", "ended" }
    /\ renewal \in [ step : { "idle", "listed", "behind" }, cursor : Nat, expired : BOOLEAN ]
    /\ announcing \subseteq Announcers
    /\ dfaults \in 0..MaxDispatchFaults

(* completeMailboxConnectSession has written a row without cursor or watch.  *)
DispatchInit ==
    /\ head = 1 /\ cursor = 0 /\ failed = FALSE
    /\ notice = FALSE
    /\ wake = [ m \in Messages |-> NoWake ]
    /\ serves = NoMessage /\ at = "idle" /\ read = 0 /\ late = NoCommit
    /\ holder = "nobody" /\ lapsed = FALSE
    /\ watch = "ended"
    /\ renewal = NoRenewal
    /\ announcing = { "connect" }
    /\ dfaults = 0

-----------------------------------------------------------------------------

DispatchFault ==
    /\ dfaults < MaxDispatchFaults
    /\ dfaults' = dfaults + 1

(* dispatchMailboxSync: publish a message; it waits while the bound is       *)
(* reached.  A failed publication is a defect that ends whoever publishes.   *)
Publish ==
    LET free == { m \in Messages : wake[m].place = "none" } IN
      /\ free # {}
      /\ wake' = [ wake EXCEPT ![CHOOSE m \in free : \A n \in free : m <= n] =
                       [ place |-> "queued", tries |-> 0 ] ]

(* A 2xx answer acknowledges the message, unless its delivery has been given *)
(* up meanwhile.                                                             *)
Acknowledged(m) == IF m = NoMessage THEN wake ELSE [ wake EXCEPT ![m] = NoWake ]

(* Mutant: one delivery too many before the dead-letter topic. *)
RefusedOnceMore(m) ==
    IF m = NoMessage THEN wake
    ELSE [ wake EXCEPT ![m].place = IF wake[m].tries > MaxTries THEN "dead" ELSE "queued" ]

(* Any other answer, or none within the deadline: another delivery, or the   *)
(* dead-letter topic once the attempts are used up.                          *)
Refused(m) ==
    IF m = NoMessage THEN wake
    ELSE [ wake EXCEPT ![m].place = IF wake[m].tries >= MaxTries THEN "dead" ELSE "queued" ]

(* The request and the execution in it are over. *)
Over == at' = "idle" /\ serves' = NoMessage /\ read' = 0

(* Mutant: only the expiry is nulled. *)
ForgetExpiry == lapsed' = FALSE /\ UNCHANGED holder

ReleaseLease == holder' = "nobody" /\ lapsed' = FALSE

-----------------------------------------------------------------------------
(* Gmail and its notifications. *)

(* Gmail publishes a notification as long as the mailbox is watched. *)
GmailChanges ==
    /\ head < MaxHead
    /\ head' = head + 1
    /\ notice' = (notice \/ watch # "ended")
    /\ UNCHANGED << cursor, failed, wake, executions, lease, watch, jobs, dfaults >>

LoseNotification ==
    /\ notice /\ notice' = FALSE
    /\ DispatchFault
    /\ UNCHANGED << mailbox, wake, executions, lease, watch, jobs >>

(* ingestGmailPushNotification; a request that fails after it has published  *)
(* is answered 500, and the notification comes again.                        *)
IngestPush ==
    /\ notice
    /\ Publish
    /\ \/ notice' = FALSE /\ UNCHANGED dfaults
       \/ DispatchFault /\ UNCHANGED notice
    /\ UNCHANGED << mailbox, executions, lease, watch, jobs >>

-----------------------------------------------------------------------------
(* The sync subscription and the workers. *)

(* acquireMailboxSyncLease: no owner, or one whose lease has expired. *)
LeaseAvailable == holder = "nobody" \/ lapsed

(* A commit that had stalled has cleared the lease under the execution.      *)
Deprived == at # "idle" /\ holder # "execution"

(* Bound: one execution at work.  A wake-up waits for a deprived one to end, *)
(* while Pub/Sub may push it before.                                         *)
DeliverToSync(m) ==
    /\ wake[m].place = "queued"
    /\ LeaseAvailable /\ ~Deprived
    /\ wake' = [ wake EXCEPT ![m] = [ place |-> "pushed", tries |-> @.tries + 1 ] ]
    /\ holder' = "execution" /\ lapsed' = FALSE
    /\ at' = "syncing"
    /\ serves' = m
    /\ UNCHANGED << mailbox, notice, read, late, watch, jobs, dfaults >>

(* skipped_due_to_active_lease is a result like any other: answered 200,     *)
(* whatever the holder has read already, and dead or alive.                  *)
DeliverToSkip(m) ==
    /\ wake[m].place = "queued"
    /\ ~LeaseAvailable
    /\ wake' = Acknowledged(m)
    /\ UNCHANGED << mailbox, notice, executions, lease, watch, jobs, dfaults >>

ReadMailbox ==
    /\ at = "syncing" /\ at' = "read"
    /\ read' = head
    /\ UNCHANGED << mailbox, notice, wake, serves, late, lease, watch, jobs, dfaults >>

(* applyMailboxSyncCommit: its guard wants the lease to be its own.          *)
CommitSync ==
    /\ at = "read" /\ holder = "execution"
    /\ cursor' = read /\ failed' = FALSE
    /\ ReleaseLease
    /\ wake' = Acknowledged(serves)
    /\ Over
    /\ UNCHANGED << head, notice, late, watch, jobs, dfaults >>

(* The provider or the commit fails: recorded, released, answered with the   *)
(* status of the problem.                                                    *)
SyncFails ==
    /\ at # "idle" /\ ~Deprived
    /\ DispatchFault
    /\ failed' = TRUE
    /\ ReleaseLease
    /\ wake' = Refused(serves)
    /\ Over
    /\ UNCHANGED << head, cursor, notice, late, watch, jobs >>

(* The heartbeat or the commit's guard finds the lease gone: the failure is  *)
(* recorded all the same, and there is no lease to release.                  *)
LosesLease ==
    /\ Deprived
    /\ failed' = TRUE
    /\ wake' = Refused(serves)
    /\ Over
    /\ UNCHANGED << head, cursor, notice, late, lease, watch, jobs, dfaults >>

WorkerDies ==
    /\ at # "idle"
    /\ DispatchFault
    /\ holder' = IF Deprived THEN holder ELSE "dead"
    /\ wake' = Refused(serves)
    /\ Over
    /\ UNCHANGED << mailbox, notice, lapsed, late, watch, jobs >>

(* A commit has passed its guard, the only look at the lease it takes, and   *)
(* stalls until the lease has expired, which outlasts the deadline for the   *)
(* answer.  Any worker may take the mailbox over now.                        *)
CommitStalls ==
    /\ Stalls
    /\ at = "read" /\ holder = "execution"
    /\ late = NoCommit
    /\ DispatchFault
    /\ late' = read
    /\ holder' = "stalled" /\ lapsed' = TRUE
    /\ wake' = Refused(serves)
    /\ Over
    /\ UNCHANGED << mailbox, notice, watch, jobs >>

(* finalizeMailboxSyncCommit goes by the mailbox's id: it stores what was    *)
(* read and clears the lease, whoever has committed or holds it meanwhile.   *)
LateCommit ==
    /\ late # NoCommit
    /\ cursor' = late /\ failed' = FALSE
    /\ ReleaseLease
    /\ late' = NoCommit
    /\ UNCHANGED << head, notice, wake, serves, at, read, watch, jobs, dfaults >>

(* The heartbeat of the stalled execution reports that the lease is lost:    *)
(* the run fails and releases what is its own, and leaves the transaction    *)
(* open.  Nothing remembers that it has: again, it would only fail again.    *)
StalledRunFails ==
    /\ late # NoCommit
    /\ failed' = TRUE
    /\ IF holder = "stalled" THEN ReleaseLease ELSE UNCHANGED lease
    /\ UNCHANGED << head, cursor, notice, wake, executions, watch, jobs, dfaults >>

(* Its worker dies, and the transaction is rolled back.                      *)
StalledRunDies ==
    /\ late # NoCommit
    /\ DispatchFault
    /\ holder' = IF holder = "stalled" THEN "dead" ELSE holder
    /\ late' = NoCommit
    /\ UNCHANGED << mailbox, notice, wake, serves, at, read, lapsed, watch, jobs >>

(* A sync may well take longer than ack_deadline_seconds: the message is     *)
(* pushed again beside the execution that is still at it.                    *)
DeadlinePasses ==
    /\ serves # NoMessage
    /\ wake' = Refused(serves)
    /\ serves' = NoMessage
    /\ UNCHANGED << mailbox, notice, at, read, late, lease, watch, jobs, dfaults >>

(* Mutant: the dead letter is acknowledged and the mailbox row left alone. *)
DiscardDeadLetter(m) ==
    /\ wake[m].place = "dead"
    /\ wake' = Acknowledged(m)
    /\ UNCHANGED << mailbox, notice, executions, lease, watch, jobs, dfaults >>

(* recordMailboxSyncDispatchExhausted: the dead-letter route answers 5xx     *)
(* until it has recorded it.                                                 *)
RecordDeadLetter(m) ==
    /\ wake[m].place = "dead"
    /\ failed' = TRUE
    /\ wake' = Acknowledged(m)
    /\ UNCHANGED << head, cursor, notice, executions, lease, watch, jobs, dfaults >>

-----------------------------------------------------------------------------
(* Recovery, connect, and the watch. *)

(* Nobody renews the lease of an execution that died.                        *)
LeaseLapses ==
    /\ holder = "dead" /\ ~lapsed
    /\ lapsed' = TRUE
    /\ UNCHANGED << mailbox, notice, wake, executions, holder, watch, jobs, dfaults >>

(* recoverStuckMailboxSyncExecution, and then a wake-up of its own. *)
RecoverStuck ==
    /\ lapsed
    /\ "recovery" \notin announcing
    /\ ReleaseLease
    /\ failed' = TRUE
    /\ announcing' = announcing \cup { "recovery" }
    /\ UNCHANGED << head, cursor, notice, wake, executions, watch, renewal, dfaults >>

Announce(a) ==
    /\ a \in announcing
    /\ Publish
    /\ announcing' = announcing \ {a}
    /\ UNCHANGED << mailbox, notice, executions, lease, watch, renewal, dfaults >>

(* The callback or the job ends between its transaction and its publication. *)
AnnounceFails(a) ==
    /\ a \in announcing
    /\ DispatchFault
    /\ announcing' = announcing \ {a}
    /\ UNCHANGED << mailbox, notice, wake, executions, lease, watch, renewal >>

(* Time passes for Gmail's watch. *)
WatchAges ==
    /\ watch' = CASE watch = "lasting" -> "ending" [] OTHER -> "ended"
    /\ watch # "ended"
    /\ UNCHANGED << mailbox, notice, wake, executions, lease, jobs, dfaults >>

(* listMailboxWatchesNeedingRenewal: the mailbox's cursor and whether its    *)
(* watch has ended are those of the listing.                                 *)
ListForRenewal ==
    /\ renewal.step = "idle"
    /\ watch # "lasting"
    /\ renewal' = [ step |-> "listed", cursor |-> cursor, expired |-> watch = "ended" ]
    /\ UNCHANGED << mailbox, notice, wake, executions, lease, watch, announcing, dfaults >>

(* Mutant: only a watch that had ended asks for a sync. *)
WatchHadEnded(r) == r.expired

(* expired, or isWatchHistoryAheadOfMailboxCursor. *)
NeedsCatchUp(r) == r.expired \/ r.cursor = 0 \/ head > r.cursor

(* renewMailboxWatch, which answers with Gmail's history id, and             *)
(* completeMailboxWatchRenewal.                                              *)
RenewWatch ==
    /\ renewal.step = "listed"
    /\ watch' = "lasting"
    /\ renewal' = IF NeedsCatchUp(renewal) THEN [ NoRenewal EXCEPT !.step = "behind" ]
                                           ELSE NoRenewal
    /\ UNCHANGED << mailbox, notice, wake, executions, lease, announcing, dfaults >>

DispatchCatchUp ==
    /\ renewal.step = "behind"
    /\ Publish
    /\ renewal' = NoRenewal
    /\ UNCHANGED << mailbox, notice, executions, lease, watch, announcing, dfaults >>

(* Gmail refuses, or the job dies: a listed mailbox is listed again, as its  *)
(* watch is no better than before.                                           *)
RenewalFails ==
    /\ renewal.step # "idle"
    /\ DispatchFault
    /\ renewal' = NoRenewal
    /\ UNCHANGED << mailbox, notice, wake, executions, lease, watch, announcing >>

-----------------------------------------------------------------------------

DispatchNext ==
    \/ GmailChanges \/ LoseNotification \/ IngestPush
    \/ \E m \in Messages : DeliverToSync(m) \/ DeliverToSkip(m) \/ RecordDeadLetter(m)
    \/ ReadMailbox \/ CommitSync \/ SyncFails \/ LosesLease \/ WorkerDies
    \/ CommitStalls \/ LateCommit \/ StalledRunFails \/ StalledRunDies \/ DeadlinePasses
    \/ LeaseLapses \/ RecoverStuck
    \/ \E a \in Announcers : Announce(a) \/ AnnounceFails(a)
    \/ WatchAges \/ ListForRenewal \/ RenewWatch \/ DispatchCatchUp \/ RenewalFails

(* A live process goes on, Pub/Sub pushes what it holds, the scheduled jobs  *)
(* run again and again, leases and watches run out.  Nothing makes Gmail     *)
(* change, a process fail, or a commit that stalls go on.                    *)
DispatchFairness ==
    /\ WF_dispatchVars(IngestPush)
    /\ \A m \in Messages : /\ WF_dispatchVars(DeliverToSync(m) \/ DeliverToSkip(m))
                            /\ WF_dispatchVars(RecordDeadLetter(m))
    /\ WF_dispatchVars(ReadMailbox \/ CommitSync \/ LosesLease)
    /\ WF_dispatchVars(LeaseLapses) /\ WF_dispatchVars(RecoverStuck)
    /\ \A a \in Announcers : WF_dispatchVars(Announce(a))
    /\ WF_dispatchVars(WatchAges)
    /\ WF_dispatchVars(ListForRenewal \/ RenewWatch \/ DispatchCatchUp)

DispatchSpec == DispatchInit /\ [][DispatchNext]_dispatchVars /\ DispatchFairness

-----------------------------------------------------------------------------
(* What the dispatch promises. *)

(* Every change of the mailbox is synced in the end, although notifications  *)
(* are lost, wake-ups are acknowledged by executions that skip beside one    *)
(* that has read the mailbox already, dispatches die, and a commit that had  *)
(* stalled takes the cursor back: the next renewal of the watch finds the    *)
(* cursor behind and asks for a sync.                                        *)
ChangeIsSynced == \A h \in 1..MaxHead : (head >= h) ~> (cursor >= h)

(* The lease of a dead execution does not block the mailbox for ever, even   *)
(* if no wake-up ever comes to take it over.                                 *)
LeaseComesFree == (holder # "nobody") ~> (holder = "nobody")

(* A wake-up that Pub/Sub gives up shows in the mailbox row, until a sync    *)
(* succeeds: it does not vanish silently.                                    *)
DeadLetterShows == (\E m \in Messages : wake[m].place = "dead") ~> failed

=============================================================================
