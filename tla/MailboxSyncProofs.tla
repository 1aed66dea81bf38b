-------------------------- MODULE MailboxSyncProofs --------------------------
(***************************************************************************)
(* Machine-checked proofs about MailboxSync, for every set of runs, every  *)
(* lease timing and every bound on time and history.                       *)
(*                                                                         *)
(* The first part assumes nothing about the faults.  The second part is    *)
(* about Calm: executions may crash at any step and leases may expire at   *)
(* any time, except while the owner's commit transaction is open.          *)
(***************************************************************************)
EXTENDS MailboxSync, TLAPS

(* The operational columns stay in their domain whatever problem is recorded.*)
LEMMA TransitionsTyped ==
    ASSUME NEW o \in OperationalState, NEW p \in SyncProblems \cup {NoError}
    PROVE  /\ TransitionForFailedRun(o, p) \in OperationalState
           /\ TransitionForDispatchRetryExhausted(o) \in OperationalState
           /\ TransitionForStuckExecutionRecovery(o) \in OperationalState
           /\ TransitionForCredentialUnreadable(o) \in OperationalState
           /\ [ o EXCEPT !.lastError = NoError ] \in OperationalState
           /\ OutcomeOf(p) \in RunStatus
<1>1. TransitionForFailedRun(o, p) \in OperationalState
  BY DEF TransitionForFailedRun, OperationalState, ErrorCodes
<1>2. TransitionForDispatchRetryExhausted(o) \in OperationalState
  BY DEF TransitionForDispatchRetryExhausted, OperationalState, ErrorCodes
<1>3. TransitionForStuckExecutionRecovery(o) \in OperationalState
  BY DEF TransitionForStuckExecutionRecovery, OperationalState, ErrorCodes
<1>4. TransitionForCredentialUnreadable(o) \in OperationalState
  BY DEF TransitionForCredentialUnreadable, OperationalState, ErrorCodes, SyncProblems,
         TerminalCredentialProblems
<1>5. [ o EXCEPT !.lastError = NoError ] \in OperationalState
  BY DEF OperationalState, ErrorCodes
<1>6. OutcomeOf(p) \in RunStatus
  BY DEF OutcomeOf, RunStatus
<1> QED
  BY <1>1, <1>2, <1>3, <1>4, <1>5, <1>6

LEMMA RenewalFailureTyped ==
    ASSUME NEW o \in OperationalState, NEW p \in RenewalFailures
    PROVE  TransitionForWatchRenewalFailure(o, p) \in OperationalState
<1>1. p \in ErrorCodes
  BY RenewalAssumption DEF ErrorCodes
<1> QED
  BY <1>1 DEF TransitionForWatchRenewalFailure, OperationalState

LEMMA InitTyped == Init => TypeOK
<1> SUFFICES ASSUME Init PROVE TypeOK
  OBVIOUS
<1>1. ops \in OperationalState
  BY DEF Init, OperationalState, ErrorCodes
<1> QED
  BY <1>1 DEF Init, TypeOK, RunStatus, Places

(* Every step keeps every variable in its type. *)
LEMMA StepTyped == TypeOK /\ [Next]_vars => TypeOK'
<1> SUFFICES ASSUME TypeOK, [Next]_vars PROVE TypeOK'
  OBVIOUS
<1> USE RunsAssumption, LeaseAssumption
<1> USE DEF TypeOK, mailboxVars, localVars, jobVars
<1>1. ASSUME NEW r \in Runs, Execute(r) PROVE TypeOK'
  <2> USE DEF Places, Holding, Racing, BeforeLease, Move
  <2>1. CASE CheckMailbox(r)
    BY <2>1 DEF CheckMailbox
  <2>2. CASE ReadCursor(r)
    BY <2>2 DEF ReadCursor
  <2>3. CASE StartSyncRun(r)
    BY <2>3 DEF StartSyncRun, RunStatus
  <2>4. CASE AcquireLease(r)
    BY <2>4 DEF AcquireLease
  <2>5. CASE LeaseHeld(r)
    BY <2>5 DEF LeaseHeld
  <2>6. CASE CompleteWithoutLease(r)
    BY <2>6 DEF CompleteWithoutLease, Forget, RunStatus
  <2>7. CASE FetchSucceeds(r)
    BY <2>7 DEF FetchSucceeds, SnapshotContent
  <2>8. CASE FetchFails(r)
    BY <2>8, ProblemAssumption DEF FetchFails, FailWith, SyncProblems
  <2>9. CASE BeginCommit(r)
    BY <2>9 DEF BeginCommit
  <2>10. CASE RefuseCommit(r)
    BY <2>10 DEF RefuseCommit, FailWith, SyncProblems
  <2>11. CASE FinalizeCommit(r)
    <3>1. ops' \in OperationalState
      BY <2>11 DEF FinalizeCommit, OperationalState, ErrorCodes
    <3> QED
      BY <2>11, <3>1 DEF FinalizeCommit, ClearLease, RunStatus
  <2>12. CASE ScheduleDeliveries(r)
    BY <2>12 DEF ScheduleDeliveries
  <2>13. CASE RenewLease(r)
    BY <2>13 DEF RenewLease
  <2>14. CASE LoseLease(r)
    BY <2>14 DEF LoseLease, FailWith, SyncProblems
  <2>15. CASE CompleteFailure(r)
    BY <2>15, TransitionsTyped DEF CompleteFailure
  <2>16. CASE ReleaseLease(r)
    BY <2>16 DEF ReleaseLease, Forget, ClearLease
  <2> QED
    BY <1>1, <2>1, <2>2, <2>3, <2>4, <2>5, <2>6, <2>7, <2>8, <2>9, <2>10, <2>11, <2>12,
       <2>13, <2>14, <2>15, <2>16 DEF Execute
<1>2. ASSUME NEW r \in Runs, Fail(r) PROVE TypeOK'
  <2> USE DEF Places, Holding, Racing, BeforeLease
  <2>1. CASE Crash(r)
    BY <2>1 DEF Crash, Forget
  <2>2. CASE DatabaseError(r)
    <3>1. (tx[r] /\ pc[r] # "committing") \in BOOLEAN
      OBVIOUS
    <3>2. tx' \in [Runs -> BOOLEAN]
      BY <2>2, <3>1 DEF DatabaseError
    <3>3. pc' \in [Runs -> Places]
      BY <2>2 DEF DatabaseError
    <3>4. localVars' = localVars \/ Forget(r)
      BY <2>2 DEF DatabaseError
    <3> HIDE DEF Places, Holding, Racing, BeforeLease
    <3> QED
      BY <2>2, <3>2, <3>3, <3>4 DEF DatabaseError, Forget
  <2>3. CASE HeartbeatError(r)
    BY <2>3 DEF HeartbeatError
  <2>4. CASE AbandonedTransactionFails(r)
    BY <2>4 DEF AbandonedTransactionFails
  <2> QED
    BY <1>2, <2>1, <2>2, <2>3, <2>4 DEF Fail
<1>3. ASSUME OtherWriters PROVE TypeOK'
  <2>1. CASE RecordDispatchExhausted
    BY <2>1, TransitionsTyped DEF RecordDispatchExhausted
  <2>2. CASE RecoverStuckExecution
    BY <2>2, TransitionsTyped DEF RecoverStuckExecution, ClearLease, RunStatus
  <2>3. CASE ListForRepair
    BY <2>3 DEF ListForRepair
  <2>4. CASE PrepareForRepair
    BY <2>4 DEF PrepareForRepair, OperationalState
  <2>5. CASE Reconnect
    BY <2>5 DEF Reconnect, ClearLease, OperationalState, ErrorCodes
  <2>6. ASSUME NEW code \in RenewalFailures, FailWatchRenewal(code) PROVE TypeOK'
    BY <2>6, RenewalFailureTyped DEF FailWatchRenewal
  <2>7. CASE ReadWatchProblem
    BY <2>7 DEF ReadWatchProblem
  <2>8. CASE CompleteWatchRenewal
    BY <2>8, TransitionsTyped DEF CompleteWatchRenewal
  <2>9. CASE MarkCredentialUnreadable
    BY <2>9, TransitionsTyped DEF MarkCredentialUnreadable
  <2> QED
    BY <1>3, <2>1, <2>2, <2>3, <2>4, <2>5, <2>6, <2>7, <2>8, <2>9 DEF OtherWriters
<1>4. ASSUME MailboxChanges PROVE TypeOK'
  BY <1>4 DEF MailboxChanges
<1>5. ASSUME Tick PROVE TypeOK'
  BY <1>5 DEF Tick
<1>6. ASSUME UNCHANGED vars PROVE TypeOK'
  BY <1>6 DEF vars
<1> QED
  BY <1>1, <1>2, <1>3, <1>4, <1>5, <1>6 DEF Next

(* Every variable of MailboxSync stays in its type, whatever fails.          *)
THEOREM TypeCorrectness == Spec => []TypeOK
<1> QED
  BY InitTyped, StepTyped, PTL DEF Spec

-----------------------------------------------------------------------------
(* Part 1: what holds whatever fails. *)

(* A run starts in the past, so a lease that had expired when the run        *)
(* started has expired by now.                                               *)
StartedInThePast == \A r \in Runs : startedAt[r] <= now

(* Only an open run asks for the lease. *)
AcquiringIsRunning == \A r \in Runs : pc[r] = "acquiring" => run[r] = "running"

(* A commit transaction is opened by an execution that holds the lease, and  *)
(* may outlive it.                                                           *)
OpenCommitPlace ==
    \A r \in Runs :
        tx[r] => pc[r] \in { "committing", "failing", "releasing", "done", "dead" }

LeaseInv ==
    /\ TypeOK
    /\ StartedInThePast
    /\ AcquiringIsRunning
    /\ OpenCommitPlace
    /\ LeaseNamesAnOpenExecution
    /\ HealthyMailboxHasCursor

LEMMA InitLeaseInv == Init => LeaseInv
<1> SUFFICES ASSUME Init PROVE LeaseInv
  OBVIOUS
<1>1. TypeOK
  BY InitTyped
<1> QED
  BY <1>1 DEF Init, LeaseInv, StartedInThePast, AcquiringIsRunning, OpenCommitPlace,
              LeaseNamesAnOpenExecution, HealthyMailboxHasCursor

(* A failure, a recovery, an exhausted dispatch or an unreadable credential  *)
(* never leaves a mailbox healthy, and a failed run is never recorded as     *)
(* completed.                                                                *)
LEMMA FailuresAreUnhealthy ==
    ASSUME NEW o \in OperationalState, NEW p
    PROVE  /\ TransitionForFailedRun(o, p).syncState # "healthy"
           /\ TransitionForDispatchRetryExhausted(o).syncState # "healthy"
           /\ TransitionForStuckExecutionRecovery(o).syncState # "healthy"
           /\ TransitionForCredentialUnreadable(o).syncState # "healthy"
           /\ OutcomeOf(p) \notin { "none", "completed", "skipped_due_to_active_lease" }
  BY DEF OperationalState, TransitionForFailedRun, TransitionForDispatchRetryExhausted,
         TransitionForStuckExecutionRecovery, TransitionForCredentialUnreadable, OutcomeOf

(* A failed renewal leaves a mailbox healthy only with a problem that costs  *)
(* no consent.                                                               *)
LEMMA RenewalFailureIsMild ==
    ASSUME NEW o \in OperationalState, NEW p \in RenewalFailures,
           TransitionForWatchRenewalFailure(o, p).syncState = "healthy"
    PROVE  /\ o.syncState = "healthy"
           /\ TransitionForWatchRenewalFailure(o, p).lastError
                \in WatchRenewalProblems \ TerminalCredentialProblems
<1>1. p \in WatchRenewalProblems
  BY RenewalAssumption
<1>2. p \notin TerminalCredentialProblems
  BY DEF TransitionForWatchRenewalFailure, OperationalState
<1> QED
  BY <1>1, <1>2 DEF TransitionForWatchRenewalFailure, OperationalState

LEMMA StepLeaseInv == LeaseInv /\ [Next]_vars => LeaseInv'
<1> SUFFICES ASSUME LeaseInv, [Next]_vars PROVE LeaseInv'
  OBVIOUS
<1> USE RunsAssumption, LeaseAssumption
<1>0. TypeOK /\ TypeOK'
  BY StepTyped DEF LeaseInv
<1> USE DEF LeaseInv, StartedInThePast, AcquiringIsRunning, OpenCommitPlace,
            LeaseNamesAnOpenExecution, HealthyMailboxHasCursor, mailboxVars, localVars, jobVars
<1>1. ASSUME NEW r \in Runs, Execute(r) PROVE LeaseInv'
  <2> USE DEF TypeOK, Holding, Racing, Move
  <2>1. CASE CheckMailbox(r)
    BY <1>0, <2>1 DEF CheckMailbox
  <2>2. CASE ReadCursor(r)
    BY <1>0, <2>2 DEF ReadCursor
  <2>3. CASE StartSyncRun(r)
    BY <1>0, <2>3 DEF StartSyncRun
  <2>4. CASE AcquireLease(r)
    BY <1>0, <2>4 DEF AcquireLease
  <2>5. CASE LeaseHeld(r)
    BY <1>0, <2>5 DEF LeaseHeld
  <2>6. CASE CompleteWithoutLease(r)
    BY <1>0, <2>6 DEF CompleteWithoutLease, Forget
  <2>7. CASE FetchSucceeds(r)
    BY <1>0, <2>7 DEF FetchSucceeds, SnapshotContent
  <2>8. CASE FetchFails(r)
    BY <1>0, <2>8 DEF FetchFails, FailWith
  <2>9. CASE BeginCommit(r)
    BY <1>0, <2>9 DEF BeginCommit
  <2>10. CASE RefuseCommit(r)
    BY <1>0, <2>10 DEF RefuseCommit, FailWith
  <2>11. CASE FinalizeCommit(r)
    <3>1. cursor' # NULL /\ ops'.lastError = NoError
      BY <1>0, <2>11 DEF FinalizeCommit, OperationalState
    <3> QED
      BY <1>0, <2>11, <3>1 DEF FinalizeCommit, ClearLease
  <2>12. CASE ScheduleDeliveries(r)
    BY <1>0, <2>12 DEF ScheduleDeliveries
  <2>13. CASE RenewLease(r)
    BY <1>0, <2>13 DEF RenewLease
  <2>14. CASE LoseLease(r)
    BY <1>0, <2>14 DEF LoseLease, FailWith
  <2>15. CASE CompleteFailure(r)
    BY <1>0, <2>15, FailuresAreUnhealthy DEF CompleteFailure
  <2>16. CASE ReleaseLease(r)
    BY <1>0, <2>16 DEF ReleaseLease, Forget, ClearLease
  <2> QED
    BY <1>1, <2>1, <2>2, <2>3, <2>4, <2>5, <2>6, <2>7, <2>8, <2>9, <2>10, <2>11, <2>12,
       <2>13, <2>14, <2>15, <2>16 DEF Execute
<1>2. ASSUME NEW r \in Runs, Fail(r) PROVE LeaseInv'
  <2> USE DEF TypeOK, Holding, Racing, BeforeLease
  <2>1. CASE Crash(r)
    BY <1>0, <2>1 DEF Crash, Forget
  <2>2. CASE DatabaseError(r)
    BY <1>0, <2>2 DEF DatabaseError, Forget
  <2>3. CASE HeartbeatError(r)
    BY <1>0, <2>3 DEF HeartbeatError
  <2>4. CASE AbandonedTransactionFails(r)
    BY <1>0, <2>4 DEF AbandonedTransactionFails
  <2> QED
    BY <1>2, <2>1, <2>2, <2>3, <2>4 DEF Fail
<1>3. ASSUME OtherWriters PROVE LeaseInv'
  <2> USE DEF TypeOK
  <2>1. CASE RecordDispatchExhausted
    BY <1>0, <2>1, FailuresAreUnhealthy DEF RecordDispatchExhausted
  <2>2. CASE RecoverStuckExecution
    BY <1>0, <2>2, FailuresAreUnhealthy DEF RecoverStuckExecution, ClearLease, Holding, Racing
  <2>3. CASE ListForRepair
    BY <1>0, <2>3 DEF ListForRepair
  <2>4. CASE PrepareForRepair
    BY <1>0, <2>4 DEF PrepareForRepair, OperationalState
  <2>5. CASE Reconnect
    BY <1>0, <2>5 DEF Reconnect, ClearLease
  <2>6. ASSUME NEW code \in RenewalFailures, FailWatchRenewal(code) PROVE LeaseInv'
    <3>1. /\ ops \in OperationalState /\ ops' = TransitionForWatchRenewalFailure(ops, code)
          /\ cursor' = cursor
      BY <2>6 DEF FailWatchRenewal
    <3>2. HealthyMailboxHasCursor'
      BY <3>1, RenewalFailureIsMild
    <3> QED
      BY <1>0, <2>6, <3>2 DEF FailWatchRenewal
  <2>7. CASE ReadWatchProblem
    BY <1>0, <2>7 DEF ReadWatchProblem
  <2>8. CASE CompleteWatchRenewal
    BY <1>0, <2>8 DEF CompleteWatchRenewal, OperationalState
  <2>9. CASE MarkCredentialUnreadable
    BY <1>0, <2>9, FailuresAreUnhealthy DEF MarkCredentialUnreadable
  <2> QED
    BY <1>3, <2>1, <2>2, <2>3, <2>4, <2>5, <2>6, <2>7, <2>8, <2>9 DEF OtherWriters
<1>4. ASSUME MailboxChanges PROVE LeaseInv'
  BY <1>0, <1>4 DEF MailboxChanges
<1>5. ASSUME Tick PROVE LeaseInv'
  BY <1>0, <1>5 DEF Tick, TypeOK
<1>6. ASSUME UNCHANGED vars PROVE LeaseInv'
  BY <1>0, <1>6 DEF vars
<1> QED
  BY <1>1, <1>2, <1>3, <1>4, <1>5, <1>6 DEF Next

LEMMA LeaseInvariance == Spec => []LeaseInv
<1> QED
  BY InitLeaseInv, StepLeaseInv, PTL DEF Spec

(* No execution that has ended, was skipped or has committed is named by the *)
(* lease row: nothing but a live or dead holder keeps a mailbox from syncing.*)
THEOREM LeaseNamesAnOpenExecutionAlways == Spec => []LeaseNamesAnOpenExecution
<1>1. LeaseInv => LeaseNamesAnOpenExecution
  BY DEF LeaseInv
<1> QED
  BY <1>1, LeaseInvariance, PTL

(* A mailbox reported as healthy has a cursor, and no error left over but    *)
(* one that only a renewal of its watch leaves: for whatever a renewal may   *)
(* fail with, and whatever else fails.                                       *)
THEOREM HealthyMailboxHasCursorAlways == Spec => []HealthyMailboxHasCursor
<1>1. LeaseInv => HealthyMailboxHasCursor
  BY DEF LeaseInv
<1> QED
  BY <1>1, LeaseInvariance, PTL

(* The lease row gets a new owner in no other way than by an acquisition.    *)
LEMMA OwnerChanges ==
    ASSUME [Next]_vars
    PROVE  leaseOwner' \in {leaseOwner, NULL} \/ \E r \in Runs : AcquireLease(r)
<1> USE DEF mailboxVars, localVars, jobVars, ClearLease
<1>1. ASSUME NEW r \in Runs, Execute(r), ~AcquireLease(r)
      PROVE  leaseOwner' \in {leaseOwner, NULL}
  BY <1>1 DEF Execute, CheckMailbox, ReadCursor, StartSyncRun, LeaseHeld,
              CompleteWithoutLease, FetchSucceeds, FetchFails, BeginCommit, RefuseCommit,
              FinalizeCommit, ScheduleDeliveries, RenewLease, LoseLease, CompleteFailure,
              ReleaseLease
<1>2. ASSUME NEW r \in Runs, Fail(r) PROVE leaseOwner' \in {leaseOwner, NULL}
  BY <1>2 DEF Fail, Crash, DatabaseError, HeartbeatError, AbandonedTransactionFails
<1>3. ASSUME OtherWriters PROVE leaseOwner' \in {leaseOwner, NULL}
  BY <1>3 DEF OtherWriters, RecordDispatchExhausted, RecoverStuckExecution, ListForRepair,
              PrepareForRepair, Reconnect, FailWatchRenewal, ReadWatchProblem,
              CompleteWatchRenewal, MarkCredentialUnreadable
<1>4. ASSUME MailboxChanges \/ Tick \/ UNCHANGED vars
      PROVE  leaseOwner' \in {leaseOwner, NULL}
  BY <1>4 DEF MailboxChanges, Tick, vars
<1> QED
  BY <1>1, <1>2, <1>3, <1>4 DEF Next

(* Another execution takes a lease over only once it has expired, although   *)
(* the acquisition compares with the start of its run, not with the clock.   *)
THEOREM TakeoverOnlyAfterExpiryAlways == Spec => TakeoverOnlyAfterExpiry
<1>1. ASSUME LeaseInv, [Next]_vars
      PROVE  [ leaseOwner # NULL /\ leaseOwner' \notin {NULL, leaseOwner}
                 => leaseExpires <= now ]_vars
  <2>1. CASE leaseOwner' \in {leaseOwner, NULL}
    BY <2>1
  <2>2. ASSUME NEW r \in Runs, AcquireLease(r)
        PROVE  leaseOwner # NULL => leaseExpires <= now
    BY <1>1, <2>2 DEF LeaseInv, TypeOK, StartedInThePast, AcquireLease, LeaseIsFree
  <2> QED
    BY <1>1, <2>1, <2>2, OwnerChanges
<1> QED
  BY <1>1, LeaseInvariance, PTL DEF Spec, TakeoverOnlyAfterExpiry

-----------------------------------------------------------------------------
(* Part 2: a calm environment. *)

(* An open commit transaction belongs to the live lease. *)
OpenCommitHoldsLease ==
    \A r \in Runs : tx[r] => pc[r] = "committing" /\ HoldsLiveLease(r)

(* What its guards established still holds: no other commit can intervene.   *)
OpenCommitIsCurrent ==
    \A r \in Runs : tx[r] /\ cursor # NULL => cursor <= fetched[r]

(* The content an execution's result leaves behind when it is committed.     *)
ContentAfter(r) == IF seen[r] = 0 THEN stored ELSE seen[r]

(* Nobody works from a cursor the canonical rows do not cover, ...           *)
BaseCovered == \A r \in Runs : base[r] # NULL => base[r] <= stored

(* ... so the holder's result covers its own cursor and is never older than  *)
(* what is stored.                                                           *)
HolderResultCovers ==
    \A r \in Runs :
        pc[r] \in {"fetched", "committing"} /\ leaseOwner = r =>
            /\ fetched[r] <= ContentAfter(r)
            /\ stored <= ContentAfter(r)
            /\ seen[r] <= head

CommitInv ==
    /\ LeaseInv
    /\ OpenCommitHoldsLease
    /\ OpenCommitIsCurrent
    /\ CanonicalCoversCursor
    /\ BaseCovered
    /\ HolderResultCovers
    /\ stored <= head

LEMMA InitCommitInv == Init => CommitInv
<1> SUFFICES ASSUME Init PROVE CommitInv
  OBVIOUS
<1>1. LeaseInv
  BY InitLeaseInv
<1> QED
  BY <1>1 DEF Init, CommitInv, OpenCommitHoldsLease, OpenCommitIsCurrent,
              CanonicalCoversCursor, BaseCovered, HolderResultCovers

LEMMA StepCommitInv == Calm /\ CommitInv /\ [Next]_vars => CommitInv'
<1> SUFFICES ASSUME Calm, CommitInv, [Next]_vars PROVE CommitInv'
  OBVIOUS
<1> USE RunsAssumption, LeaseAssumption
<1>0. LeaseInv' /\ TypeOK /\ TypeOK'
  BY StepLeaseInv, StepTyped DEF CommitInv, LeaseInv
<1> USE DEF CommitInv, OpenCommitHoldsLease, OpenCommitIsCurrent, CanonicalCoversCursor,
            BaseCovered, HolderResultCovers, ContentAfter, HoldsLiveLease,
            mailboxVars, localVars, jobVars
<1>1. ASSUME NEW r \in Runs, Execute(r) PROVE CommitInv'
  <2> USE DEF TypeOK, Move
  <2>1. CASE CheckMailbox(r)
    BY <1>0, <2>1 DEF CheckMailbox
  <2>2. CASE ReadCursor(r)
    BY <1>0, <2>2 DEF ReadCursor
  <2>3. CASE StartSyncRun(r)
    BY <1>0, <2>3 DEF StartSyncRun
  <2>4. CASE AcquireLease(r)
    <3>1. \A q \in Runs : ~tx[q]
      BY <1>0, <2>4 DEF AcquireLease, LeaseIsFree, LeaseInv, StartedInThePast
    <3> QED
      BY <1>0, <2>4, <3>1 DEF AcquireLease
  <2>5. CASE LeaseHeld(r)
    BY <1>0, <2>5 DEF LeaseHeld
  <2>6. CASE CompleteWithoutLease(r)
    BY <1>0, <2>6 DEF CompleteWithoutLease, Forget
  <2>7. CASE FetchSucceeds(r)
    BY <1>0, <2>7 DEF FetchSucceeds, SnapshotContent
  <2>8. CASE FetchFails(r)
    BY <1>0, <2>8 DEF FetchFails, FailWith
  <2>9. CASE BeginCommit(r)
    BY <1>0, <2>9 DEF BeginCommit, CursorRegresses
  <2>10. CASE RefuseCommit(r)
    BY <1>0, <2>10 DEF RefuseCommit, FailWith
  <2>11. CASE FinalizeCommit(r)
    <3>1. pc[r] = "committing" /\ leaseOwner = r
      BY <2>11 DEF FinalizeCommit
    <3>2. \A q \in Runs : ~tx'[q]
      BY <1>0, <2>11 DEF FinalizeCommit
    <3>3. /\ stored' = ContentAfter(r) /\ cursor' = fetched[r] /\ head' = head
          /\ leaseOwner' = NULL /\ base' = base
      BY <2>11 DEF FinalizeCommit, ClearLease
    <3>4. stored <= stored' /\ cursor' <= stored' /\ stored' <= head'
      BY <1>0, <3>1, <3>3
    <3> QED
      BY <1>0, <3>2, <3>3, <3>4
  <2>12. CASE ScheduleDeliveries(r)
    BY <1>0, <2>12 DEF ScheduleDeliveries
  <2>13. CASE RenewLease(r)
    BY <1>0, <2>13 DEF RenewLease
  <2>14. CASE LoseLease(r)
    BY <1>0, <2>14 DEF LoseLease, FailWith
  <2>15. CASE CompleteFailure(r)
    BY <1>0, <2>15 DEF CompleteFailure
  <2>16. CASE ReleaseLease(r)
    BY <1>0, <2>16 DEF ReleaseLease, Forget, ClearLease
  <2> QED
    BY <1>1, <2>1, <2>2, <2>3, <2>4, <2>5, <2>6, <2>7, <2>8, <2>9, <2>10, <2>11, <2>12,
       <2>13, <2>14, <2>15, <2>16 DEF Execute
<1>2. ASSUME NEW r \in Runs, Fail(r) PROVE CommitInv'
  <2>1. Crash(r)
    BY <1>2 DEF Fail, DatabaseError, HeartbeatError, AbandonedTransactionFails, Calm
  <2> QED
    BY <1>0, <2>1 DEF Crash, Forget, TypeOK
<1>3. ASSUME OtherWriters PROVE CommitInv'
  <2> USE DEF TypeOK
  <2>1. CASE RecordDispatchExhausted
    BY <1>0, <2>1 DEF RecordDispatchExhausted
  <2>2. CASE RecoverStuckExecution
    BY <1>0, <2>2 DEF RecoverStuckExecution, ClearLease
  <2>3. CASE ListForRepair
    BY <1>0, <2>3 DEF ListForRepair
  <2>4. CASE PrepareForRepair
    BY <1>0, <2>4 DEF PrepareForRepair
  <2>5. CASE Reconnect
    BY <1>0, <2>5 DEF Reconnect, ClearLease, Calm
  <2>6. CASE \E code \in RenewalFailures : FailWatchRenewal(code)
    BY <1>0, <2>6 DEF FailWatchRenewal
  <2>7. CASE ReadWatchProblem
    BY <1>0, <2>7 DEF ReadWatchProblem
  <2>8. CASE CompleteWatchRenewal
    BY <1>0, <2>8 DEF CompleteWatchRenewal
  <2>9. CASE MarkCredentialUnreadable
    BY <1>0, <2>9 DEF MarkCredentialUnreadable
  <2> QED
    BY <1>3, <2>1, <2>2, <2>3, <2>4, <2>5, <2>6, <2>7, <2>8, <2>9 DEF OtherWriters
<1>4. ASSUME MailboxChanges PROVE CommitInv'
  BY <1>0, <1>4 DEF MailboxChanges, TypeOK
<1>5. ASSUME Tick PROVE CommitInv'
  BY <1>0, <1>5 DEF Tick, TypeOK, Calm
<1>6. ASSUME UNCHANGED vars PROVE CommitInv'
  BY <1>0, <1>6 DEF vars
<1> QED
  BY <1>1, <1>2, <1>3, <1>4, <1>5, <1>6 DEF Next

LEMMA CommitInvariance == ASSUME Calm PROVE Spec => []CommitInv
<1> QED
  BY Calm, InitCommitInv, StepCommitInv, PTL DEF Spec

(* One sync per mailbox: with crashes and expiring leases, two commits are   *)
(* never past their guards together.                                         *)
THEOREM SingleWriterWhenCalm == ASSUME Calm PROVE Spec => []SingleWriter
<1>1. CommitInv => SingleWriter
  BY DEF CommitInv, OpenCommitHoldsLease, HoldsLiveLease, SingleWriter
<1> QED
  BY <1>1, CommitInvariance, PTL

(* State first, cursor second: the canonical rows always contain every Gmail *)
(* change up to the cursor, so no change is skipped.                         *)
THEOREM CanonicalCoversCursorWhenCalm == ASSUME Calm PROVE Spec => []CanonicalCoversCursor
<1>1. CommitInv => CanonicalCoversCursor
  BY DEF CommitInv
<1> QED
  BY <1>1, CommitInvariance, PTL

(* What a step does to the cursor and to the lease, seen from outside: a     *)
(* commit by the holder, a reset, a change of holder, or nothing.            *)
LEMMA CursorSteps ==
    ASSUME Calm, CommitInv, [Next]_vars
    PROVE  \/ \E r \in Runs : FinalizeCommit(r)
           \/ PrepareForRepair
           \/ cursor' = cursor
<1> USE DEF mailboxVars, localVars, jobVars
<1>1. ASSUME NEW r \in Runs, Execute(r), ~FinalizeCommit(r) PROVE cursor' = cursor
  BY <1>1 DEF Execute, CheckMailbox, ReadCursor, StartSyncRun, AcquireLease, LeaseHeld,
              CompleteWithoutLease, FetchSucceeds, FetchFails, BeginCommit, RefuseCommit,
              ScheduleDeliveries, RenewLease, LoseLease, CompleteFailure, ReleaseLease
<1>2. ASSUME NEW r \in Runs, Fail(r) PROVE cursor' = cursor
  BY <1>2 DEF Fail, Crash, DatabaseError, HeartbeatError, AbandonedTransactionFails
<1>3. ASSUME OtherWriters, ~PrepareForRepair PROVE cursor' = cursor
  BY <1>3 DEF OtherWriters, RecordDispatchExhausted, RecoverStuckExecution, ListForRepair,
              Reconnect, FailWatchRenewal, ReadWatchProblem, CompleteWatchRenewal,
              MarkCredentialUnreadable
<1>4. ASSUME MailboxChanges \/ Tick \/ UNCHANGED vars PROVE cursor' = cursor
  BY <1>4 DEF MailboxChanges, Tick, vars
<1> QED
  BY <1>1, <1>2, <1>3, <1>4 DEF Next

(* The stored cursor never moves backwards; only repair discards it.         *)
THEOREM CursorNeverRegressesWhenCalm == ASSUME Calm PROVE Spec => CursorNeverRegresses
<1>1. ASSUME CommitInv, [Next]_vars
      PROVE  [ cursor # NULL /\ cursor' # NULL => cursor' >= cursor ]_vars
  <2>1. TypeOK
    BY <1>1 DEF CommitInv, LeaseInv
  <2>2. ASSUME NEW r \in Runs, FinalizeCommit(r)
        PROVE  cursor # NULL => cursor' >= cursor
    BY <1>1, <2>1, <2>2 DEF CommitInv, OpenCommitIsCurrent, FinalizeCommit, TypeOK
  <2>3. ASSUME PrepareForRepair
        PROVE  cursor # NULL /\ cursor' # NULL => cursor' >= cursor
    BY <2>1, <2>3 DEF PrepareForRepair, TypeOK, mailboxVars
  <2>4. ASSUME cursor' = cursor PROVE cursor # NULL => cursor' >= cursor
    BY <2>1, <2>4 DEF TypeOK
  <2> QED
    BY <1>1, <2>2, <2>3, <2>4, CursorSteps
<1> QED
  BY <1>1, CommitInvariance, PTL DEF Spec, CursorNeverRegresses

(* A step that is no commit only moves the holder to nobody, or from nobody  *)
(* to an execution, or leaves it where it is.                                *)
LEMMA HolderSteps ==
    ASSUME CommitInv, NEW r \in Runs, AcquireLease(r)
    PROVE  LeaseHolder = NULL /\ LeaseHolder' \in {r, NULL}
<1>1. leaseOwner = NULL \/ leaseExpires <= now
  BY DEF CommitInv, LeaseInv, TypeOK, StartedInThePast, AcquireLease, LeaseIsFree
<1>2. LeaseHolder = NULL
  BY <1>1 DEF LeaseHolder, CommitInv, LeaseInv, TypeOK
<1>3. leaseOwner' = r
  BY DEF AcquireLease
<1> QED
  BY <1>2, <1>3 DEF LeaseHolder

LEMMA QuietSteps ==
    ASSUME Calm, CommitInv, [Next]_vars,
           \A r \in Runs : ~AcquireLease(r) /\ ~FinalizeCommit(r)
    PROVE  LeaseHolder' \in {LeaseHolder, NULL}
<1> USE DEF mailboxVars, localVars, jobVars, ClearLease, LeaseHolder
<1>1. ASSUME NEW r \in Runs, Execute(r) PROVE LeaseHolder' \in {LeaseHolder, NULL}
  <2>1. CASE RenewLease(r)
    BY <2>1, LeaseAssumption DEF RenewLease, HoldsLiveLease
  <2> QED
    BY <1>1, <2>1 DEF Execute, CheckMailbox, ReadCursor, StartSyncRun, LeaseHeld,
       CompleteWithoutLease, FetchSucceeds, FetchFails, BeginCommit, RefuseCommit,
       ScheduleDeliveries, LoseLease, CompleteFailure, ReleaseLease
<1>2. ASSUME NEW r \in Runs, Fail(r) PROVE LeaseHolder' \in {LeaseHolder, NULL}
  BY <1>2 DEF Fail, Crash, DatabaseError, HeartbeatError, AbandonedTransactionFails
<1>3. ASSUME OtherWriters PROVE LeaseHolder' \in {LeaseHolder, NULL}
  BY <1>3 DEF OtherWriters, RecordDispatchExhausted, RecoverStuckExecution, ListForRepair,
              PrepareForRepair, Reconnect, FailWatchRenewal, ReadWatchProblem,
              CompleteWatchRenewal, MarkCredentialUnreadable
<1>4. ASSUME MailboxChanges \/ UNCHANGED vars PROVE LeaseHolder' \in {LeaseHolder, NULL}
  BY <1>4 DEF MailboxChanges, vars
<1>5. ASSUME Tick PROVE LeaseHolder' \in {LeaseHolder, NULL}
  BY <1>5 DEF Tick, CommitInv, LeaseInv, TypeOK
<1> QED
  BY <1>1, <1>2, <1>3, <1>4, <1>5 DEF Next

(* The lease row, read with its expiry, implements SingleFlight: at most one *)
(* execution holds the mailbox, only it publishes a cursor, never an older   *)
(* one, and publishing ends its hold.                                        *)
THEOREM LeaseImplementsSingleFlight == ASSUME Calm PROVE Spec => ImplementsSingleFlight
<1>1. Init => SF!Init
  BY DEF Init, SF!Init, LeaseHolder
<1>2. ASSUME CommitInv, [Next]_vars PROVE [SF!Next]_(SF!vars)
  <2> USE DEF SF!Next, SF!vars
  <2>0. TypeOK /\ TypeOK'
    BY <1>2, StepTyped DEF CommitInv, LeaseInv
  <2>1. ASSUME NEW r \in Runs, FinalizeCommit(r) PROVE SF!Publish
    <3>1. LeaseHolder # NULL
      BY <1>2, <2>1, RunsAssumption DEF FinalizeCommit, CommitInv, OpenCommitHoldsLease,
         HoldsLiveLease, LeaseHolder
    <3>2. LeaseHolder' = NULL
      BY <2>1 DEF FinalizeCommit, ClearLease, LeaseHolder
    <3>3. cursor' \in Nat /\ (cursor # NULL => cursor' >= cursor)
      BY <1>2, <2>0, <2>1 DEF FinalizeCommit, CommitInv, OpenCommitIsCurrent, TypeOK
    <3> QED
      BY <3>1, <3>2, <3>3 DEF SF!Publish
  <2>2. ASSUME NEW r \in Runs, AcquireLease(r) PROVE SF!Claim \/ UNCHANGED SF!vars
    <3>1. LeaseHolder = NULL /\ LeaseHolder' \in {r, NULL}
      BY <1>2, <2>2, HolderSteps
    <3>2. cursor' = cursor
      BY <2>2 DEF AcquireLease
    <3> QED
      BY <3>1, <3>2 DEF SF!Claim
  <2>3. ASSUME \A r \in Runs : ~AcquireLease(r) /\ ~FinalizeCommit(r), ~PrepareForRepair
        PROVE  SF!Lapse \/ UNCHANGED SF!vars
    <3>1. LeaseHolder' \in {LeaseHolder, NULL}
      BY <1>2, <2>3, QuietSteps
    <3>2. cursor' = cursor
      BY <1>2, <2>3, CursorSteps
    <3> QED
      BY <3>1, <3>2 DEF SF!Lapse
  <2>4. ASSUME PrepareForRepair PROVE SF!ResetCursor \/ UNCHANGED SF!vars
    <3>1. LeaseHolder' = LeaseHolder
      BY <2>4 DEF PrepareForRepair, LeaseHolder
    <3>2. cursor' = NULL \/ cursor' = cursor
      BY <2>4 DEF PrepareForRepair
    <3> QED
      BY <3>1, <3>2 DEF SF!ResetCursor
  <2> QED
    BY <2>1, <2>2, <2>3, <2>4
<1> QED
  BY <1>1, <1>2, CommitInvariance, PTL DEF Spec, ImplementsSingleFlight, SF!Spec

=============================================================================
