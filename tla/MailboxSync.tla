----------------------------- MODULE MailboxSync -----------------------------
(***************************************************************************)
(* Mailbox sync executions of ONE mailbox: the workers that run            *)
(* runMailboxSync concurrently, the lease on the mailbox row, the commit   *)
(* transaction, and the jobs that touch the same row (stuck-execution      *)
(* recovery, repair, reconnect, dispatch exhaustion).                      *)
(*                                                                         *)
(* An element of Runs is one execution and the sync_runs row it inserts;   *)
(* the code draws a fresh lease owner id per execution, so a run also      *)
(* stands for its lease owner id.  Every action is one database statement  *)
(* or transaction, or one answer of Gmail; what happens between two of     *)
(* them is left to the interleaving.                                       *)
(*                                                                         *)
(* The commit transaction runs at READ COMMITTED: its guards read the      *)
(* mailbox row without locking it (BeginCommit) and its last statement     *)
(* updates that row by id alone (FinalizeCommit).                          *)
(***************************************************************************)
EXTENDS Integers, FiniteSets, MailboxOperationalState

CONSTANTS
    Runs,              \* the executions a behaviour may contain
    NULL,              \* SQL null: no lease owner, no cursor
    LeaseTTL,          \* mailboxSyncLeaseTiming.leaseTtlMs, in ticks
    HeartbeatInterval, \* mailboxSyncLeaseTiming.heartbeatIntervalMs, in ticks
    MaxTime,           \* bound: the clock stops here
    MaxHistory,        \* bound: Gmail's history id stops here
    Lag,               \* how far a history.list answer may trail the mailbox
    ProviderProblems,  \* the problems Gmail may answer with
    RenewalFailures,   \* the problems a renewal of the watch may end with
    Faults             \* what may go wrong around a run, see FaultKinds

(***************************************************************************)
(* "crash": the worker process dies.  "db_error": a database call of an    *)
(* execution rejects, which Effect.promise turns into a defect that        *)
(* Effect.catch does not see.  "stalled_commit": a lease may run out while *)
(* its owner's commit transaction is open (the worker or the database      *)
(* stalls for two heartbeats).  "reconnect_in_commit": the mailbox is      *)
(* reconnected while a commit transaction is open.  "dispatch_exhausted":  *)
(* the transport gives up on a wake-up of this mailbox.                    *)
(* "credential_unreadable": the operator's rewrap finds a credential that  *)
(* no key opens, and marks its mailbox.                                    *)
(***************************************************************************)
FaultKinds ==
    { "crash", "db_error", "stalled_commit", "reconnect_in_commit", "dispatch_exhausted",
      "credential_unreadable" }

ASSUME RunsAssumption    == IsFiniteSet(Runs) /\ NULL \notin Runs /\ NULL \notin Int
ASSUME LeaseAssumption   == LeaseTTL \in Nat \ {0} /\ HeartbeatInterval \in Nat \ {0}
ASSUME BoundsAssumption  == MaxTime \in Nat /\ MaxHistory \in Nat /\ Lag \in Nat
ASSUME ProblemAssumption ==
    ProviderProblems \subseteq TerminalCredentialProblems \cup TransientProviderProblems
ASSUME RenewalAssumption == RenewalFailures \subseteq WatchRenewalProblems
ASSUME FaultsAssumption  == Faults \subseteq FaultKinds

VARIABLES
    now,          \* the clock the workers and the database share
    head,         \* Gmail's current history id for the mailbox
    ops,          \* mailboxes: status, sync_state, last_error
    cursor,       \* mailboxes.cursor
    leaseOwner,   \* mailboxes.active_sync_lease_owner (and active_sync_run_id)
    leaseExpires, \* mailboxes.active_sync_lease_expires_at, 0 when null
    stored,       \* history id at which the canonical rows were read from Gmail
    run,          \* sync_runs.status of every execution
    pc,           \* where every execution stands
    startedAt,    \* syncRun.startedAt
    base,         \* the cursor the execution works from
    fetched,      \* nextCursor of the provider result
    seen,         \* history id of the snapshot's content, 0 for an empty snapshot
    tx,           \* whether the commit transaction is open, past its guards
    nextBeat,     \* when the heartbeat fiber wakes up
    problem,      \* the problem the execution failed with
    repair,       \* the repair job's target, between its list and its update
    clearing      \* a renewal of the watch has read a watch problem, to clear it

mailboxVars == << ops, cursor, leaseOwner, leaseExpires, stored >>
localVars   == << startedAt, base, fetched, seen, nextBeat, problem >>
jobVars     == << repair, clearing >>
vars == << now, head, mailboxVars, run, pc, localVars, tx, jobVars >>

RunStatus == { "none", "running", "completed", "skipped_due_to_active_lease",
               "lease_lost", "reconnect_required", "failed_after_lease_acquired" }

(* While the sync work races its heartbeat (Effect.raceFirst). *)
Racing == { "fetching", "fetched", "committing", "delivering" }

(* Where an execution may still own the lease. *)
Holding == Racing \cup { "failing", "releasing", "dead" }

BeforeLease == { "reading", "starting", "acquiring", "skipping", "refusing", "refused" }

Places == { "idle", "done" } \cup BeforeLease \cup Holding

TypeOK ==
    /\ now \in Nat
    /\ head \in Nat
    /\ ops \in OperationalState
    /\ cursor \in Nat \cup {NULL}
    /\ leaseOwner \in Runs \cup {NULL}
    /\ leaseExpires \in Nat
    /\ stored \in Nat
    /\ run \in [Runs -> RunStatus]
    /\ pc \in [Runs -> Places]
    /\ startedAt \in [Runs -> Nat]
    /\ base \in [Runs -> Nat \cup {NULL}]
    /\ fetched \in [Runs -> Nat]
    /\ seen \in [Runs -> Nat]
    /\ tx \in [Runs -> BOOLEAN]
    /\ nextBeat \in [Runs -> Nat]
    /\ problem \in [Runs -> SyncProblems \cup {NoError}]
    /\ repair \in { "none", "reset", "keep" }
    /\ clearing \in BOOLEAN

(* A mailbox as createMailboxConnectSession leaves it: connected, never synced. *)
Init ==
    /\ now = 0
    /\ head = 1
    /\ ops = [ status |-> "active", syncState |-> "initializing", lastError |-> NoError ]
    /\ cursor = NULL
    /\ leaseOwner = NULL
    /\ leaseExpires = 0
    /\ stored = 0
    /\ run = [ r \in Runs |-> "none" ]
    /\ pc = [ r \in Runs |-> "idle" ]
    /\ startedAt = [ r \in Runs |-> 0 ]
    /\ base = [ r \in Runs |-> NULL ]
    /\ fetched = [ r \in Runs |-> 0 ]
    /\ seen = [ r \in Runs |-> 0 ]
    /\ tx = [ r \in Runs |-> FALSE ]
    /\ nextBeat = [ r \in Runs |-> 0 ]
    /\ problem = [ r \in Runs |-> NoError ]
    /\ repair = "none"
    /\ clearing = FALSE

-----------------------------------------------------------------------------
(* Building blocks. *)

Move(r, from, to) ==
    /\ pc[r] = from
    /\ pc' = [ pc EXCEPT ![r] = to ]

(* Mutant: only the expiry is nulled. *)
ClearLeaseExpiry ==
    /\ UNCHANGED leaseOwner
    /\ leaseExpires' = 0

(* The five lease columns of the mailbox row are always nulled together. *)
ClearLease ==
    /\ leaseOwner' = NULL
    /\ leaseExpires' = 0

(* Mutant: the guard forgets the expiry. *)
OwnsLease(r) == leaseOwner = r

(* guardActiveLease: the row still names this owner and has not expired. *)
HoldsLiveLease(r) ==
    /\ leaseOwner = r
    /\ leaseExpires > now

(* Mutant: the expiry is compared with the end of the new lease. *)
LeaseEndsBeforeMine(r) ==
    \/ leaseOwner = NULL
    \/ leaseExpires <= startedAt[r] + LeaseTTL

(* The acquisition's WHERE clause; it compares with the run's start. *)
LeaseIsFree(r) ==
    \/ leaseOwner = NULL
    \/ leaseExpires <= startedAt[r]

(* Mutant: the result is compared with the cursor the run started from. *)
FallsBehindBase(r) ==
    /\ base[r] # NULL
    /\ fetched[r] < base[r]

(* guardCursorProgression: no current cursor means nothing to guard. *)
CursorRegresses(r) ==
    /\ cursor # NULL
    /\ fetched[r] < cursor

(* Mutant: the first sync keeps the catch-up and drops the baseline. *)
CatchUpContent(r, h) == IF base[r] # NULL /\ base[r] < h THEN head ELSE 0

(* The snapshot's content: the message bodies are current when it touches    *)
(* anything, that is without a cursor or with history after it.              *)
SnapshotContent(r, h) == IF base[r] = NULL \/ base[r] < h THEN head ELSE 0

(* The fiber ends and its variables with it; the arguments of a transaction  *)
(* that outlives it stay.                                                    *)
Forget(r) ==
    /\ startedAt' = [ startedAt EXCEPT ![r] = 0 ]
    /\ base' = [ base EXCEPT ![r] = NULL ]
    /\ nextBeat' = [ nextBeat EXCEPT ![r] = 0 ]
    /\ problem' = [ problem EXCEPT ![r] = NoError ]
    /\ fetched' = [ fetched EXCEPT ![r] = IF tx'[r] THEN @ ELSE 0 ]
    /\ seen' = [ seen EXCEPT ![r] = IF tx'[r] THEN @ ELSE 0 ]

(* classifyAcquiredExecutionFailure's input: the race ends with a problem. *)
FailWith(r, code) ==
    /\ problem' = [ problem EXCEPT ![r] = code ]
    /\ pc' = [ pc EXCEPT ![r] = "failing" ]
    /\ UNCHANGED << startedAt, base, fetched, seen, nextBeat >>

-----------------------------------------------------------------------------
(* Before the lease. *)

(* runMailboxSync reads the mailbox and refuses one that needs a reconnect. *)
CheckMailbox(r) ==
    /\ pc[r] = "idle"
    /\ pc' = [ pc EXCEPT ![r] =
                 IF ops.status = "reconnect_required" THEN "refusing" ELSE "reading" ]
    /\ UNCHANGED << now, head, mailboxVars, run, localVars, tx, jobVars >>

(* getMailboxCursor: read before the lease is asked for. *)
ReadCursor(r) ==
    /\ Move(r, "reading", "starting")
    /\ base' = [ base EXCEPT ![r] = cursor ]
    /\ UNCHANGED << now, head, mailboxVars, run, startedAt, fetched, seen, nextBeat,
                    problem, tx, jobVars >>

(* startSyncRun inserts a running row; its start is the lease's acquiredAt. *)
StartSyncRun(r) ==
    /\ \/ Move(r, "starting", "acquiring")
       \/ Move(r, "refusing", "refused")
    /\ run' = [ run EXCEPT ![r] = "running" ]
    /\ startedAt' = [ startedAt EXCEPT ![r] = now ]
    /\ UNCHANGED << now, head, mailboxVars, base, fetched, seen, nextBeat, problem, tx,
                    jobVars >>

(* The lease runs from the start of the run, however late it is acquired. *)
AcquireLease(r) ==
    /\ Move(r, "acquiring", "fetching")
    /\ LeaseIsFree(r)
    /\ leaseOwner' = r
    /\ leaseExpires' = startedAt[r] + LeaseTTL
    /\ nextBeat' = [ nextBeat EXCEPT ![r] = now + HeartbeatInterval ]
    /\ UNCHANGED << now, head, ops, cursor, stored, run, startedAt, base, fetched, seen,
                    problem, tx, jobVars >>

LeaseHeld(r) ==
    /\ Move(r, "acquiring", "skipping")
    /\ ~LeaseIsFree(r)
    /\ UNCHANGED << now, head, mailboxVars, run, localVars, tx, jobVars >>

(* completeSyncRun for a run that never held the lease: the mailbox row is   *)
(* left alone.                                                               *)
CompleteWithoutLease(r) ==
    /\ \/ /\ Move(r, "skipping", "done")
          /\ run' = [ run EXCEPT ![r] = "skipped_due_to_active_lease" ]
       \/ /\ Move(r, "refused", "done")
          /\ run' = [ run EXCEPT ![r] = "reconnect_required" ]
    /\ UNCHANGED << now, head, mailboxVars, tx, jobVars >>
    /\ Forget(r)

-----------------------------------------------------------------------------
(* Holding the lease: the sync work. *)

(* The provider answers.  Without a cursor it reads the whole mailbox and    *)
(* then the history since; with one it reads the history after the cursor,   *)
(* and the message bodies it fetches are current.                            *)
FetchSucceeds(r) ==
    /\ Move(r, "fetching", "fetched")
    /\ \E h \in 1..head :
         /\ h >= head - Lag
         /\ base[r] # NULL => h >= base[r]
         /\ fetched' = [ fetched EXCEPT ![r] = h ]
         /\ seen' = [ seen EXCEPT ![r] = SnapshotContent(r, h) ]
    /\ UNCHANGED << now, head, mailboxVars, run, startedAt, base, nextBeat, problem, tx,
                    jobVars >>

(* A missing history id can only be reported for a cursor that was sent. *)
FetchFails(r) ==
    /\ pc[r] = "fetching"
    /\ \E code \in ProviderProblems :
         /\ code = "gmail_history_cursor_invalid" => base[r] # NULL
         /\ FailWith(r, code)
    /\ UNCHANGED << now, head, mailboxVars, run, tx, jobVars >>

(* The commit transaction starts: both guards pass ... *)
BeginCommit(r) ==
    /\ Move(r, "fetched", "committing")
    /\ HoldsLiveLease(r)
    /\ ~CursorRegresses(r)
    /\ tx' = [ tx EXCEPT ![r] = TRUE ]
    /\ UNCHANGED << now, head, mailboxVars, run, localVars, jobVars >>

(* ... or one of them refuses the result, and nothing is written. *)
RefuseCommit(r) ==
    /\ pc[r] = "fetched"
    /\ \/ /\ ~HoldsLiveLease(r)
          /\ FailWith(r, "mailbox_sync_lease_lost")
       \/ /\ HoldsLiveLease(r)
          /\ CursorRegresses(r)
          /\ FailWith(r, "mailbox_cursor_regressed")
    /\ UNCHANGED << now, head, mailboxVars, run, tx, jobVars >>

(* finalizeMailboxSyncCommit and COMMIT.  The promise that runs the          *)
(* transaction is not cancelled with the fiber that awaits it, so the        *)
(* execution may be anywhere by now; it goes on only if it still waits.      *)
FinalizeCommit(r) ==
    /\ tx[r]
    /\ tx' = [ tx EXCEPT ![r] = FALSE ]
    /\ stored' = IF seen[r] = 0 THEN stored ELSE seen[r]
    /\ cursor' = fetched[r]
    /\ ClearLease
    /\ ops' = [ ops EXCEPT !.syncState = "healthy", !.lastError = NoError ]
    /\ run' = [ run EXCEPT ![r] = "completed" ]
    /\ pc' = [ pc EXCEPT ![r] = IF @ = "committing" THEN "delivering" ELSE @ ]
    /\ UNCHANGED << now, head, localVars, jobVars >>

(* scheduleMailboxEventDeliveries, still inside the race. *)
ScheduleDeliveries(r) ==
    /\ Move(r, "delivering", "releasing")
    /\ UNCHANGED << now, head, mailboxVars, run, localVars, tx, jobVars >>

-----------------------------------------------------------------------------
(* The heartbeat fiber. *)

RenewLease(r) ==
    /\ pc[r] \in Racing
    /\ now >= nextBeat[r]
    /\ HoldsLiveLease(r)
    /\ leaseExpires' = now + LeaseTTL
    /\ nextBeat' = [ nextBeat EXCEPT ![r] = now + HeartbeatInterval ]
    /\ UNCHANGED << now, head, ops, cursor, leaseOwner, stored, run, pc, startedAt, base,
                    fetched, seen, problem, tx, jobVars >>

(* The renewal matches no row: the fiber fails and wins the race.  An open   *)
(* commit transaction is abandoned, not rolled back.                         *)
LoseLease(r) ==
    /\ pc[r] \in Racing
    /\ now >= nextBeat[r]
    /\ ~HoldsLiveLease(r)
    /\ FailWith(r, "mailbox_sync_lease_lost")
    /\ UNCHANGED << now, head, mailboxVars, run, tx, jobVars >>

-----------------------------------------------------------------------------
(* The end of an execution. *)

(* completeAcquiredExecutionFailure closes the run and, with no regard to    *)
(* who holds the lease, records the failure on the mailbox.                  *)
CompleteFailure(r) ==
    /\ Move(r, "failing", "releasing")
    /\ run' = [ run EXCEPT ![r] = OutcomeOf(problem[r]) ]
    /\ ops' = TransitionForFailedRun(ops, problem[r])
    /\ UNCHANGED << now, head, cursor, leaseOwner, leaseExpires, stored, localVars, tx,
                    jobVars >>

(* releaseMailboxSyncLease, the finalizer: WHERE the owner is still me. *)
ReleaseLease(r) ==
    /\ Move(r, "releasing", "done")
    /\ IF leaseOwner = r THEN ClearLease ELSE UNCHANGED << leaseOwner, leaseExpires >>
    /\ UNCHANGED << now, head, ops, cursor, stored, run, tx, jobVars >>
    /\ Forget(r)

-----------------------------------------------------------------------------
(* Faults. *)

(* The worker dies; the server rolls its open transaction back. *)
Crash(r) ==
    /\ "crash" \in Faults
    /\ pc[r] \in BeforeLease \cup (Holding \ {"dead"}) \/ tx[r]
    /\ pc' = [ pc EXCEPT ![r] = "dead" ]
    /\ tx' = [ tx EXCEPT ![r] = FALSE ]
    /\ UNCHANGED << now, head, mailboxVars, run, jobVars >>
    /\ Forget(r)

(* A database call rejects.  Before the lease there is no finalizer; in the  *)
(* race the defect passes Effect.catch by and only the finalizer runs; in    *)
(* the finalizer itself nothing is left to run.                              *)
DatabaseError(r) ==
    /\ "db_error" \in Faults
    /\ \/ /\ pc[r] \in BeforeLease \cup {"releasing"}
          /\ pc' = [ pc EXCEPT ![r] = "dead" ]
          /\ UNCHANGED tx
          /\ Forget(r)
       \/ /\ pc[r] \in Racing \cup {"failing"}
          /\ pc' = [ pc EXCEPT ![r] = "releasing" ]
          /\ tx' = [ tx EXCEPT ![r] = @ /\ pc[r] # "committing" ]
          /\ UNCHANGED localVars
    /\ UNCHANGED << now, head, mailboxVars, run, jobVars >>

(* The heartbeat's own statement rejects: the finalizer gives the lease      *)
(* away while the commit transaction may still be open.                      *)
HeartbeatError(r) ==
    /\ "db_error" \in Faults
    /\ pc[r] \in Racing
    /\ now >= nextBeat[r]
    /\ pc' = [ pc EXCEPT ![r] = "releasing" ]
    /\ UNCHANGED << now, head, mailboxVars, run, localVars, tx, jobVars >>

(* A transaction nobody awaits any more fails by itself. *)
AbandonedTransactionFails(r) ==
    /\ "db_error" \in Faults
    /\ tx[r]
    /\ pc[r] # "committing"
    /\ tx' = [ tx EXCEPT ![r] = FALSE ]
    /\ UNCHANGED << now, head, mailboxVars, run, pc, localVars, jobVars >>

-----------------------------------------------------------------------------
(* The other writers of the mailbox row. *)

(* recordMailboxSyncDispatchExhausted; its own sync_runs row is born closed. *)
RecordDispatchExhausted ==
    /\ "dispatch_exhausted" \in Faults
    /\ ops' = TransitionForDispatchRetryExhausted(ops)
    /\ UNCHANGED << now, head, cursor, leaseOwner, leaseExpires, stored, run, pc,
                    localVars, tx, jobVars >>

(* recoverStuckMailboxSyncExecution.  It checks under FOR UPDATE what the    *)
(* job's list selected, so the list is only a filter and has no step.        *)
RecoverStuckExecution ==
    /\ leaseOwner # NULL
    /\ leaseExpires <= now
    /\ run' = [ run EXCEPT ![leaseOwner] = IF @ = "running" THEN "lease_lost" ELSE @ ]
    /\ ClearLease
    /\ ops' = TransitionForStuckExecutionRecovery(ops)
    /\ UNCHANGED << now, head, cursor, stored, pc, localVars, tx, jobVars >>

(* listMailboxesNeedingRepair.  A bad watch is the other reason to be        *)
(* listed; the watch columns are not modelled here, so any mailbox may be.   *)
ListForRepair ==
    /\ repair = "none"
    /\ ops.status = "active"
    /\ leaseOwner = NULL \/ leaseExpires <= now
    /\ repair' = IF ops.lastError = "gmail_history_cursor_invalid" THEN "reset" ELSE "keep"
    /\ UNCHANGED << now, head, mailboxVars, run, pc, localVars, tx, clearing >>

(* prepareMailboxForRepair, a later statement that checks only the status. *)
PrepareForRepair ==
    /\ repair # "none"
    /\ repair' = "none"
    /\ IF ops.status = "active"
       THEN /\ cursor' = IF repair = "reset" THEN NULL ELSE cursor
            /\ ops' = [ ops EXCEPT !.syncState = "lagging" ]
       ELSE UNCHANGED << cursor, ops >>
    /\ UNCHANGED << now, head, leaseOwner, leaseExpires, stored, run, pc, localVars, tx,
                    clearing >>

(* failMailboxWatchRenewal: whatever the last error was, it is replaced.     *)
FailWatchRenewal(code) ==
    /\ ops' = TransitionForWatchRenewalFailure(ops, code)
    /\ UNCHANGED << now, head, cursor, leaseOwner, leaseExpires, stored, run, pc, localVars,
                    tx, jobVars >>

(* completeMailboxWatchRenewal's first statement: it will clear the error if *)
(* this is a watch problem.                                                  *)
ReadWatchProblem ==
    /\ ~clearing
    /\ ops.lastError \in WatchCodes
    /\ clearing' = TRUE
    /\ UNCHANGED << now, head, mailboxVars, run, pc, localVars, tx, repair >>

(* Its second statement clears whatever is the last error by then.           *)
CompleteWatchRenewal ==
    /\ clearing
    /\ clearing' = FALSE
    /\ ops' = [ ops EXCEPT !.lastError = NoError ]
    /\ UNCHANGED << now, head, cursor, leaseOwner, leaseExpires, stored, run, pc, localVars,
                    tx, repair >>

(* rewrapGmailCredentials, told to mark what it cannot read, updates by id.  *)
MarkCredentialUnreadable ==
    /\ "credential_unreadable" \in Faults
    /\ ops' = TransitionForCredentialUnreadable(ops)
    /\ UNCHANGED << now, head, cursor, leaseOwner, leaseExpires, stored, run, pc, localVars,
                    tx, jobVars >>

(* completeMailboxConnectSession for a mailbox that exists: the lease is     *)
(* nulled whoever holds it, the cursor is kept.                              *)
Reconnect ==
    /\ "reconnect_in_commit" \in Faults \/ \A r \in Runs : ~tx[r]
    /\ ClearLease
    /\ ops' = [ status |-> "active", syncState |-> "initializing", lastError |-> NoError ]
    /\ UNCHANGED << now, head, cursor, stored, run, pc, localVars, tx, jobVars >>

-----------------------------------------------------------------------------
(* The environment. *)

(* Something happens in the Gmail mailbox. *)
MailboxChanges ==
    /\ head < MaxHistory
    /\ head' = head + 1
    /\ UNCHANGED << now, mailboxVars, run, pc, localVars, tx, jobVars >>

(* Time passes.  Unless a commit may stall, heartbeats keep the lease of an  *)
(* owner whose commit transaction is open alive.                             *)
Tick ==
    /\ now < MaxTime
    /\ \/ "stalled_commit" \in Faults
       \/ \A r \in Runs : tx[r] /\ leaseOwner = r => leaseExpires > now + 1
    /\ now' = now + 1
    /\ UNCHANGED << head, mailboxVars, run, pc, localVars, tx, jobVars >>

Execute(r) ==
    \/ CheckMailbox(r)      \/ ReadCursor(r)      \/ StartSyncRun(r)
    \/ AcquireLease(r)      \/ LeaseHeld(r)       \/ CompleteWithoutLease(r)
    \/ FetchSucceeds(r)     \/ FetchFails(r)
    \/ BeginCommit(r)       \/ RefuseCommit(r)    \/ FinalizeCommit(r)
    \/ ScheduleDeliveries(r)
    \/ RenewLease(r)        \/ LoseLease(r)
    \/ CompleteFailure(r)   \/ ReleaseLease(r)

Fail(r) ==
    \/ Crash(r) \/ DatabaseError(r) \/ HeartbeatError(r) \/ AbandonedTransactionFails(r)

OtherWriters ==
    \/ RecordDispatchExhausted \/ RecoverStuckExecution
    \/ ListForRepair \/ PrepareForRepair \/ Reconnect
    \/ \E code \in RenewalFailures : FailWatchRenewal(code)
    \/ ReadWatchProblem \/ CompleteWatchRenewal \/ MarkCredentialUnreadable

Next ==
    \/ \E r \in Runs : Execute(r) \/ Fail(r)
    \/ OtherWriters
    \/ MailboxChanges
    \/ Tick

Spec == Init /\ [][Next]_vars

-----------------------------------------------------------------------------
(* Properties. *)

(* No fault that leaves a commit transaction open behind its owner's lease.  *)
Calm == Faults \subseteq {"crash", "dispatch_exhausted", "credential_unreadable"}

(* One sync per mailbox: two commit transactions are never past their lease  *)
(* and cursor guards at the same time (applyMailboxSyncCommit).              *)
SingleWriter == \A q, r \in Runs : tx[q] /\ tx[r] => q = r

(* "A killed or paused worker never commits after losing ownership": a       *)
(* result becomes visible only while the row still names its execution, not  *)
(* merely when the guard looked (finalizeMailboxSyncCommit).                 *)
CommitByLeaseOwner ==
    [][ \A r \in Runs :
          run[r] # "completed" /\ run'[r] = "completed" => leaseOwner = r ]_vars

(* The stored history cursor never moves backwards; repair may discard it.   *)
CursorNeverRegresses ==
    [][ cursor # NULL /\ cursor' # NULL => cursor' >= cursor ]_vars

(* "State first, cursor second": the canonical rows contain every Gmail      *)
(* change up to the cursor, so no change is skipped by the next history read.*)
CanonicalCoversCursor == cursor # NULL => stored >= cursor

(* Whatever fails, a live lease is never taken from its owner by another     *)
(* execution: it changes hands directly only once it has expired.            *)
TakeoverOnlyAfterExpiry ==
    [][ leaseOwner # NULL /\ leaseOwner' \notin {NULL, leaseOwner}
          => leaseExpires <= now ]_vars

(* The lease row always names an execution that can still release it or that *)
(* died holding it, and whose result is not already committed: no ended or   *)
(* committed execution keeps the mailbox from being synced.                  *)
LeaseNamesAnOpenExecution ==
    leaseOwner # NULL =>
        /\ pc[leaseOwner] \in Holding
        /\ run[leaseOwner] \notin { "none", "completed", "skipped_due_to_active_lease" }

(* A mailbox shown as healthy has a cursor to resume from, and no problem    *)
(* left over but one that a renewal of its watch may meet beside healthy     *)
(* syncs: whatever repair, recovery, renewals, the operator and late         *)
(* failures do to the row.                                                   *)
HealthyMailboxHasCursor ==
    ops.syncState = "healthy" =>
        /\ cursor # NULL
        /\ ops.lastError \in {NoError} \cup (WatchRenewalProblems \ TerminalCredentialProblems)

(* A sync run recorded as completed stays completed.                         *)
CompletedRunStaysCompleted ==
    [][ \A r \in Runs : run[r] = "completed" => run'[r] = "completed" ]_vars

(* "Sync run history records the expected failure/takeover path": taking the *)
(* lease over from a dead execution does not leave its run open, for         *)
(* recovery only finds a run through the lease row that names it.            *)
TakeoverClosesDeadRun ==
    [][ leaseOwner # NULL /\ leaseOwner' \notin {NULL, leaseOwner}
          => ~(pc[leaseOwner] = "dead" /\ run'[leaseOwner] = "running") ]_vars

(* With its expiry folded in, the lease row implements SingleFlight.         *)
LeaseHolder == IF leaseOwner # NULL /\ leaseExpires > now THEN leaseOwner ELSE NULL

SF == INSTANCE SingleFlight WITH holder <- LeaseHolder

ImplementsSingleFlight == SF!Spec

=============================================================================
