-------------------------- MODULE ConnectionProofs --------------------------
(***************************************************************************)
(* Proofs about a mailbox's connection to Gmail: the renewal of its watch, *)
(* the connect sessions and keys behind its credential, and the verdicts   *)
(* that Google's answers lead to.  They hold for any number of renewal     *)
(* jobs, callbacks, keys, tokens and messages and any clock.               *)
(***************************************************************************)
EXTENDS WatchRenewal, ConnectSession, GmailClient, TLAPS

-----------------------------------------------------------------------------
(* The Gmail watch. *)

(* Gmail's watches end in time. *)
WatchesEndInTime == \A a \in Accounts : gmailUntil[a] <= clock + WatchTTL

(* A renewal that asks, or has asked, holds an account, and no answer        *)
(* promises more than what Gmail keeps for that account.                     *)
AnswersAreKept ==
    \A j \in Renewers :
        /\ renewing[j].step \in { "credential", "watched", "clearing" } =>
             renewing[j].held \in Accounts
        /\ renewing[j].step \in { "watched", "clearing" } =>
             renewing[j].until <= gmailUntil[renewing[j].held]

(* The row promises no more than Gmail keeps for its account, and even a     *)
(* promise that comes from another account ends in time.                     *)
RowPromisesNoMore ==
    /\ ~strayed => rowUntil <= gmailUntil[account]
    /\ rowUntil <= clock + WatchTTL

(* What a renewal holds, for WatchTypeOK. *)
RenewalRecord ==
    [ step : { "idle", "listed", "marked", "credential", "watched", "clearing", "failing" },
      began : Nat, held : Accounts \cup {NoAccount}, until : Nat, clears : BOOLEAN,
      problem : WatchProblems \cup {NoError} ]

RowColumns ==
    [ status : { "active", "reconnect_required" },
      syncState : { "initializing", "healthy", "lagging", "failed" },
      lastError : ErrorCodes ]

WatchInv ==
    /\ WatchTypeOK /\ WatchesEndInTime /\ AnswersAreKept /\ RowPromisesNoMore
    /\ SyncStateTellsLastSync

LEMMA AtRestIsTyped == AtRest \in RenewalRecord
  BY DEF AtRest, RenewalRecord

LEMMA WatchInitially == WatchInit => WatchInv
<1> SUFFICES ASSUME WatchInit PROVE WatchInv
  OBVIOUS
<1> USE WatchAssumption DEF WatchInit
<1>1. WatchTypeOK
  BY DEF WatchTypeOK, AtRest, ErrorCodes
<1>2. WatchesEndInTime /\ AnswersAreKept /\ RowPromisesNoMore /\ SyncStateTellsLastSync
  BY DEF WatchesEndInTime, AnswersAreKept, RowPromisesNoMore, SyncStateTellsLastSync, AtRest
<1> QED
  BY <1>1, <1>2 DEF WatchInv

(* A renewal that goes on, or goes to rest, without an answer of Gmail.      *)
LEMMA RenewalMovesOn ==
    ASSUME WatchInv, NEW j \in Renewers, NEW next \in RenewalRecord,
           renewing' = [ renewing EXCEPT ![j] = next ],
           next.step \in { "credential", "watched", "clearing" } => next.held \in Accounts,
           next.step \in { "watched", "clearing" } =>
               next.until <= gmailUntil[next.held],
           UNCHANGED gmailUntil
    PROVE  /\ renewing' \in [ Renewers -> RenewalRecord ]
           /\ AnswersAreKept'
<1>1. renewing \in [ Renewers -> RenewalRecord ]
  BY DEF WatchInv, WatchTypeOK, RenewalRecord
<1>2. renewing' \in [ Renewers -> RenewalRecord ]
  BY <1>1
<1>3. AnswersAreKept'
  <2> SUFFICES ASSUME NEW i \in Renewers
               PROVE  /\ renewing'[i].step \in { "credential", "watched", "clearing" } =>
                           renewing'[i].held \in Accounts
                      /\ renewing'[i].step \in { "watched", "clearing" } =>
                           renewing'[i].until <= gmailUntil[renewing'[i].held]
    BY DEF AnswersAreKept
  <2>1. CASE i = j
    <3>1. renewing'[i] = next
      BY <1>1, <2>1
    <3> QED
      BY <3>1
  <2>2. CASE i # j
    <3>1. renewing'[i] = renewing[i]
      BY <1>1, <2>2
    <3> QED
      BY <3>1 DEF WatchInv, AnswersAreKept
  <2> QED
    BY <2>1, <2>2
<1> QED
  BY <1>2, <1>3

(* What keeps the row, its account and Gmail's watches.                      *)
LEMMA RowIsKept ==
    ASSUME WatchInv, UNCHANGED << clock, gmailUntil, account, rowOps, rowUntil, lastSync, strayed >>
    PROVE  WatchesEndInTime' /\ RowPromisesNoMore' /\ SyncStateTellsLastSync'
  BY DEF WatchInv, WatchesEndInTime, RowPromisesNoMore, SyncStateTellsLastSync

LEMMA ListWatchKeeps ==
    ASSUME WatchInv, NEW j \in Renewers, ListWatch(j)
    PROVE  WatchInv'
<1> DEFINE next == [ AtRest EXCEPT !.step = "listed", !.began = clock ]
<1>1. next \in RenewalRecord /\ next.step = "listed"
  BY DEF WatchInv, WatchTypeOK, RenewalRecord, AtRest
<1>2. renewing' = [ renewing EXCEPT ![j] = next ] /\ UNCHANGED gmailUntil
  BY DEF ListWatch
<1> HIDE DEF next
<1>3. renewing' \in [ Renewers -> RenewalRecord ] /\ AnswersAreKept'
  BY <1>1, <1>2, RenewalMovesOn
<1>4. WatchTypeOK'
  BY <1>3 DEF WatchInv, WatchTypeOK, RenewalRecord, ListWatch, rowVars
<1> QED
  BY <1>3, <1>4, RowIsKept DEF WatchInv, ListWatch, rowVars

LEMMA MarkRenewalKeeps ==
    ASSUME WatchInv, NEW j \in Renewers, MarkRenewal(j)
    PROVE  WatchInv'
<1> DEFINE next == [ renewing[j] EXCEPT !.step = "marked" ]
<1>1. next \in RenewalRecord /\ next.step = "marked"
  BY DEF WatchInv, WatchTypeOK, RenewalRecord
<1>2. renewing' = [ renewing EXCEPT ![j] = next ] /\ UNCHANGED gmailUntil
  BY DEF MarkRenewal, ToStep
<1> HIDE DEF next
<1>3. renewing' \in [ Renewers -> RenewalRecord ] /\ AnswersAreKept'
  BY <1>1, <1>2, RenewalMovesOn
<1>4. WatchTypeOK'
  BY <1>3 DEF WatchInv, WatchTypeOK, RenewalRecord, MarkRenewal
<1> QED
  BY <1>3, <1>4, RowIsKept DEF WatchInv, MarkRenewal

LEMMA ReadCredentialKeeps ==
    ASSUME WatchInv, NEW j \in Renewers, ReadCredential(j)
    PROVE  WatchInv'
<1> DEFINE next == [ renewing[j] EXCEPT !.step = "credential", !.held = account ]
<1>1. next \in RenewalRecord /\ next.step = "credential" /\ next.held \in Accounts
  BY DEF WatchInv, WatchTypeOK, RenewalRecord
<1>2. renewing' = [ renewing EXCEPT ![j] = next ] /\ UNCHANGED gmailUntil
  BY DEF ReadCredential
<1> HIDE DEF next
<1>3. renewing' \in [ Renewers -> RenewalRecord ] /\ AnswersAreKept'
  BY <1>1, <1>2, RenewalMovesOn
<1>4. WatchTypeOK'
  BY <1>3 DEF WatchInv, WatchTypeOK, RenewalRecord, ReadCredential, rowVars
<1> QED
  BY <1>3, <1>4, RowIsKept DEF WatchInv, ReadCredential, rowVars

LEMMA AskGmailKeeps ==
    ASSUME WatchInv, NEW j \in Renewers, AskGmail(j)
    PROVE  WatchInv'
<1> DEFINE held == renewing[j].held
           next == [ AtRest EXCEPT !.step = "watched", !.held = held, !.until = clock + WatchTTL ]
<1>1. held \in Accounts /\ clock + WatchTTL \in Nat
  BY WatchAssumption DEF WatchInv, WatchTypeOK, AnswersAreKept, AskGmail
<1>2. renewing' = [ renewing EXCEPT ![j] = next ]
  BY Zenon DEF AskGmail
<1>3. gmailUntil' = [ gmailUntil EXCEPT ![held] = clock + WatchTTL ]
  BY DEF AskGmail
<1>4. UNCHANGED << clock, account, rowOps, rowWatch, rowUntil, lastSync, strayed >>
  BY DEF AskGmail, rowVars
<1> HIDE DEF held
<1>5. /\ next \in RenewalRecord /\ next.step = "watched" /\ next.held = held
      /\ next.until = clock + WatchTTL
  BY <1>1 DEF RenewalRecord, AtRest
<1> HIDE DEF next
<1> USE DEF WatchInv, WatchTypeOK
<1>6. renewing \in [ Renewers -> RenewalRecord ]
  BY DEF RenewalRecord
<1>7. renewing' \in [ Renewers -> RenewalRecord ]
  BY <1>2, <1>5, <1>6
<1>8. \A a \in Accounts : gmailUntil[a] <= gmailUntil'[a]
  BY <1>1, <1>3 DEF WatchesEndInTime
<1>9. gmailUntil'[held] = clock + WatchTTL /\ gmailUntil' \in [ Accounts -> Nat ]
  BY <1>1, <1>3
<1>10. WatchTypeOK'
  <2> HIDE DEF WatchInv
  <2> QED
    BY <1>4, <1>7, <1>9 DEF RenewalRecord, WatchInv
<1>11. WatchesEndInTime'
  BY <1>1, <1>3, <1>4 DEF WatchesEndInTime
<1>12. AnswersAreKept'
  <2> SUFFICES ASSUME NEW i \in Renewers
               PROVE  /\ renewing'[i].step \in { "credential", "watched", "clearing" } =>
                           renewing'[i].held \in Accounts
                      /\ renewing'[i].step \in { "watched", "clearing" } =>
                           renewing'[i].until <= gmailUntil'[renewing'[i].held]
    BY DEF AnswersAreKept
  <2>1. CASE i = j
    <3>1. renewing'[i] = next
      BY <1>2, <1>6, <2>1
    <3> QED
      BY <1>1, <1>5, <1>9, <3>1
  <2>2. CASE i # j
    <3>1. renewing'[i] = renewing[i]
      BY <1>2, <1>6, <2>2
    <3>2. ASSUME renewing[i].step \in { "watched", "clearing" }
          PROVE  /\ renewing[i].held \in Accounts
                 /\ renewing[i].until <= gmailUntil[renewing[i].held]
      BY <3>2 DEF AnswersAreKept
    <3>3. ASSUME renewing[i].step \in { "watched", "clearing" }
          PROVE  renewing[i].until <= gmailUntil'[renewing[i].held]
      <4>1. renewing[i].until \in Nat
        BY <1>6 DEF RenewalRecord
      <4>2. gmailUntil[renewing[i].held] \in Nat /\ gmailUntil'[renewing[i].held] \in Nat
        BY <1>9, <3>2, <3>3
      <4> QED
        BY <1>8, <3>2, <3>3, <4>1, <4>2
    <3> QED
      BY <3>1, <3>3 DEF AnswersAreKept
  <2> QED
    BY <2>1, <2>2
<1>13. RowPromisesNoMore'
  <2>1. gmailUntil[account] <= gmailUntil'[account]
    BY <1>8
  <2>2. gmailUntil[account] \in Nat /\ gmailUntil'[account] \in Nat
    BY <1>9
  <2> QED
    BY <1>4, <2>1, <2>2 DEF RowPromisesNoMore
<1>14. SyncStateTellsLastSync'
  BY <1>4 DEF SyncStateTellsLastSync
<1> QED
  BY <1>10, <1>11, <1>12, <1>13, <1>14

LEMMA RenewalFailsKeeps ==
    ASSUME WatchInv, NEW j \in Renewers, NEW p \in WatchProblems, RenewalFails(j, p)
    PROVE  WatchInv'
<1> DEFINE next == [ AtRest EXCEPT !.step = "failing", !.began = renewing[j].began, !.problem = p ]
<1>1. next \in RenewalRecord /\ next.step = "failing"
  BY DEF WatchInv, WatchTypeOK, RenewalRecord, AtRest
<1>2. renewing' = [ renewing EXCEPT ![j] = next ] /\ UNCHANGED gmailUntil
  BY DEF RenewalFails
<1> HIDE DEF next
<1>3. renewing' \in [ Renewers -> RenewalRecord ] /\ AnswersAreKept'
  BY <1>1, <1>2, RenewalMovesOn
<1>4. WatchTypeOK'
  BY <1>3 DEF WatchInv, WatchTypeOK, RenewalRecord, RenewalFails, rowVars
<1> QED
  BY <1>3, <1>4, RowIsKept DEF WatchInv, RenewalFails, rowVars

LEMMA ReadLastErrorKeeps ==
    ASSUME WatchInv, NEW j \in Renewers, ReadLastError(j)
    PROVE  WatchInv'
<1> DEFINE clears == IsWatchProblem(rowOps.lastError)
           next == [ renewing[j] EXCEPT !.step = "clearing", !.clears = clears ]
<1>1. clears \in BOOLEAN
  BY DEF IsWatchProblem
<1>2. renewing' = [ renewing EXCEPT ![j] = next ] /\ UNCHANGED gmailUntil
  BY Zenon DEF ReadLastError
<1> HIDE DEF clears
<1>3. /\ next \in RenewalRecord /\ next.step = "clearing"
      /\ next.held = renewing[j].held /\ next.until = renewing[j].until
  BY <1>1 DEF WatchInv, WatchTypeOK, RenewalRecord
<1> HIDE DEF next
<1>4. next.held \in Accounts /\ next.until <= gmailUntil[next.held]
  BY <1>3 DEF WatchInv, AnswersAreKept, ReadLastError
<1>5. renewing' \in [ Renewers -> RenewalRecord ] /\ AnswersAreKept'
  BY <1>2, <1>3, <1>4, RenewalMovesOn
<1>6. WatchTypeOK'
  <2>1. UNCHANGED << clock, gmailUntil, account, rowOps, rowWatch, rowUntil, lastSync, strayed >>
    BY DEF ReadLastError, rowVars
  <2> QED
    BY <1>5, <2>1 DEF WatchInv, WatchTypeOK, RenewalRecord
<1> QED
  BY <1>5, <1>6, RowIsKept DEF WatchInv, ReadLastError, rowVars

LEMMA CompleteRenewalKeeps ==
    ASSUME WatchInv, NEW j \in Renewers, CompleteRenewal(j)
    PROVE  WatchInv'
<1>1. renewing' = [ renewing EXCEPT ![j] = AtRest ] /\ UNCHANGED gmailUntil
  BY DEF CompleteRenewal
<1>2. renewing' \in [ Renewers -> RenewalRecord ] /\ AnswersAreKept'
  BY <1>1, AtRestIsTyped, RenewalMovesOn DEF AtRest
<1>3. rowOps' \in RowColumns /\ rowOps'.syncState = rowOps.syncState /\ rowOps'.status = rowOps.status
  BY DEF WatchInv, WatchTypeOK, RowColumns, CompleteRenewal, ErrorCleared, ErrorCodes
<1>4. /\ rowUntil' = renewing[j].until /\ rowUntil' \in Nat
      /\ renewing[j].held \in Accounts /\ rowUntil' <= gmailUntil[renewing[j].held]
  BY DEF WatchInv, WatchTypeOK, CompleteRenewal, LastsAsGmailSaid, AnswersAreKept
<1>5. WatchTypeOK'
  BY <1>2, <1>3, <1>4 DEF WatchInv, WatchTypeOK, RenewalRecord, RowColumns, CompleteRenewal
<1>6. WatchesEndInTime'
  BY DEF WatchInv, WatchesEndInTime, CompleteRenewal
<1>7. RowPromisesNoMore'
  <2>1. ~strayed' => rowUntil' <= gmailUntil'[account']
    BY <1>4 DEF CompleteRenewal
  <2>2. gmailUntil[renewing[j].held] <= clock + WatchTTL
    BY <1>4 DEF WatchInv, WatchesEndInTime
  <2>3. gmailUntil[renewing[j].held] \in Nat /\ clock + WatchTTL \in Nat
    BY <1>4, WatchAssumption DEF WatchInv, WatchTypeOK
  <2> QED
    BY <1>4, <2>1, <2>2, <2>3 DEF RowPromisesNoMore, CompleteRenewal
<1>8. SyncStateTellsLastSync'
  BY <1>3 DEF WatchInv, SyncStateTellsLastSync, CompleteRenewal
<1> QED
  BY <1>2, <1>5, <1>6, <1>7, <1>8 DEF WatchInv

LEMMA FailRenewalKeeps ==
    ASSUME WatchInv, NEW j \in Renewers, FailRenewal(j)
    PROVE  WatchInv'
<1>1. renewing' = [ renewing EXCEPT ![j] = AtRest ] /\ UNCHANGED gmailUntil
  BY DEF FailRenewal
<1>2. renewing' \in [ Renewers -> RenewalRecord ] /\ AnswersAreKept'
  BY <1>1, AtRestIsTyped, RenewalMovesOn DEF AtRest
<1>3. /\ rowOps' \in RowColumns
      /\ \/ rowOps'.syncState = rowOps.syncState /\ rowOps'.status = rowOps.status
         \/ rowOps'.syncState = "failed" /\ rowOps'.status = "reconnect_required"
  <2>1. renewing[j].problem \in ErrorCodes
    BY WatchProblemsAssumption DEF WatchInv, WatchTypeOK, ErrorCodes
  <2> QED
    BY <2>1 DEF WatchInv, WatchTypeOK, RowColumns, FailRenewal, TransitionForWatchRenewalFailure
<1>4. WatchTypeOK'
  BY <1>2, <1>3 DEF WatchInv, WatchTypeOK, RenewalRecord, RowColumns, FailRenewal
<1>5. WatchesEndInTime' /\ RowPromisesNoMore'
  BY DEF WatchInv, WatchesEndInTime, RowPromisesNoMore, FailRenewal
<1>6. SyncStateTellsLastSync'
  BY <1>3 DEF WatchInv, SyncStateTellsLastSync, FailRenewal
<1> QED
  BY <1>2, <1>4, <1>5, <1>6 DEF WatchInv

LEMMA RenewerDiesKeeps ==
    ASSUME WatchInv, NEW j \in Renewers, RenewerDies(j)
    PROVE  WatchInv'
<1>1. renewing' = [ renewing EXCEPT ![j] = AtRest ] /\ UNCHANGED gmailUntil
  BY DEF RenewerDies
<1>2. renewing' \in [ Renewers -> RenewalRecord ] /\ AnswersAreKept'
  BY <1>1, AtRestIsTyped, RenewalMovesOn DEF AtRest
<1>3. WatchTypeOK'
  BY <1>2 DEF WatchInv, WatchTypeOK, RenewalRecord, RenewerDies, rowVars
<1> QED
  BY <1>2, <1>3, RowIsKept DEF WatchInv, RenewerDies, rowVars

(* What keeps Gmail's watches and what the renewals hold of them.            *)
LEMMA AnswersOutliveTheRow ==
    ASSUME WatchInv, UNCHANGED << clock, gmailUntil, renewing >>
    PROVE  WatchesEndInTime' /\ AnswersAreKept'
  BY DEF WatchInv, WatchesEndInTime, AnswersAreKept

LEMMA SyncCompletesKeeps ==
    ASSUME WatchInv, SyncCompletes
    PROVE  WatchInv'
<1>1. WatchTypeOK'
  BY DEF WatchInv, WatchTypeOK, SyncCompletes, ErrorCodes
<1>2. RowPromisesNoMore' /\ SyncStateTellsLastSync'
  BY DEF WatchInv, WatchTypeOK, RowPromisesNoMore, SyncStateTellsLastSync, SyncCompletes
<1> QED
  BY <1>1, <1>2, AnswersOutliveTheRow DEF WatchInv, SyncCompletes

LEMMA SyncFailsKeeps ==
    ASSUME WatchInv, SyncFails
    PROVE  WatchInv'
<1>1. rowOps' \in RowColumns /\ rowOps'.syncState \in { "lagging", "failed" }
  <2>1. PICK p \in { "gmail_rate_limited", "gmail_token_refresh_reconnect_required" } :
               rowOps' = TransitionForFailedRun(rowOps, p)
    BY DEF SyncFails
  <2>2. p \in ErrorCodes
    BY DEF ErrorCodes, SyncProblems, TransientProviderProblems, TerminalCredentialProblems
  <2> QED
    BY <2>1, <2>2 DEF WatchInv, WatchTypeOK, RowColumns, TransitionForFailedRun
<1>2. WatchTypeOK'
  BY <1>1 DEF WatchInv, WatchTypeOK, RowColumns, SyncFails
<1>3. RowPromisesNoMore' /\ SyncStateTellsLastSync'
  BY <1>1 DEF WatchInv, RowPromisesNoMore, SyncStateTellsLastSync, SyncFails
<1> QED
  BY <1>2, <1>3, AnswersOutliveTheRow DEF WatchInv, SyncFails

LEMMA ReconnectAsKeeps ==
    ASSUME WatchInv, NEW a \in Accounts, ReconnectAs(a)
    PROVE  WatchInv'
<1>1. WatchTypeOK'
  BY DEF WatchInv, WatchTypeOK, ReconnectAs, ErrorCodes
<1>2. RowPromisesNoMore'
  <2>1. gmailUntil[a] \in Nat /\ clock + WatchTTL \in Nat
    BY WatchAssumption DEF WatchInv, WatchTypeOK
  <2> QED
    BY <2>1 DEF RowPromisesNoMore, ReconnectAs
<1>3. SyncStateTellsLastSync'
  BY DEF SyncStateTellsLastSync, ReconnectAs
<1> QED
  BY <1>1, <1>2, <1>3, AnswersOutliveTheRow DEF WatchInv, ReconnectAs

LEMMA TimePassesKeeps ==
    ASSUME WatchInv, TimePasses
    PROVE  WatchInv'
<1> USE WatchAssumption DEF WatchInv, WatchTypeOK, TimePasses, rowVars
<1>1. WatchTypeOK'
  OBVIOUS
<1>2. WatchesEndInTime' /\ RowPromisesNoMore'
  BY DEF WatchesEndInTime, RowPromisesNoMore
<1>3. AnswersAreKept' /\ SyncStateTellsLastSync'
  BY DEF AnswersAreKept, SyncStateTellsLastSync
<1> QED
  BY <1>1, <1>2, <1>3

(* The invariant of the watch: no answer, and no promise of the row, outlives *)
(* the watch that Gmail keeps for the account that the answer was given for. *)
THEOREM WatchInvariance == WatchSpec => []WatchInv
<1>1. WatchInv /\ [WatchNext]_watchVars => WatchInv'
  <2> SUFFICES ASSUME WatchInv, [WatchNext]_watchVars PROVE WatchInv'
    OBVIOUS
  <2>1. CASE UNCHANGED watchVars
    BY <2>1 DEF watchVars, rowVars, WatchInv, WatchTypeOK, WatchesEndInTime, AnswersAreKept,
       RowPromisesNoMore, SyncStateTellsLastSync
  <2>2. CASE WatchNext
    BY <2>2, ListWatchKeeps, MarkRenewalKeeps, ReadCredentialKeeps, AskGmailKeeps,
       RenewalFailsKeeps, ReadLastErrorKeeps, CompleteRenewalKeeps, FailRenewalKeeps,
       RenewerDiesKeeps, SyncCompletesKeeps, SyncFailsKeeps, ReconnectAsKeeps, TimePassesKeeps
       DEF WatchNext
  <2> QED
    BY <2>1, <2>2
<1> QED
  BY <1>1, WatchInitially, PTL DEF WatchSpec

(* The row, Gmail's watches and every renewal stay well-typed. *)
THEOREM WatchTypeCorrectness == WatchSpec => []WatchTypeOK
<1>1. WatchInv => WatchTypeOK
  BY DEF WatchInv
<1> QED
  BY <1>1, WatchInvariance, PTL

(* A mailbox that Gmail no longer watches is listed by the next renewal job, *)
(* or, when its row was written for the account it had before, within the    *)
(* lifetime of one watch: for any number of jobs and accounts, any problem   *)
(* that ends a renewal, any lifetime of a watch and any window.              *)
THEOREM UnwatchedMailboxIsListedAlways == WatchSpec => []UnwatchedMailboxIsListed
<1>1. WatchInv => UnwatchedMailboxIsListed
  <2> SUFFICES ASSUME WatchInv, rowOps.status = "active", gmailUntil[account] <= clock
               PROVE  NeedsRenewal \/ (strayed /\ rowUntil <= clock + WatchTTL)
    BY DEF UnwatchedMailboxIsListed
  <2>1. clock \in Nat /\ rowUntil \in Nat /\ gmailUntil[account] \in Nat /\ strayed \in BOOLEAN
    BY DEF WatchInv, WatchTypeOK
  <2>2. /\ ~strayed => rowUntil <= gmailUntil[account]
        /\ rowUntil <= clock + WatchTTL
    BY DEF WatchInv, RowPromisesNoMore
  <2> QED
    BY <2>1, <2>2, WatchAssumption DEF NeedsRenewal
<1> QED
  BY <1>1, WatchInvariance, PTL

(* Whatever renewals write over a mailbox's last error, however many of them *)
(* run beside its syncs and reconnects, the sync state goes on telling how   *)
(* its last sync has ended.                                                  *)
THEOREM SyncStateTellsLastSyncAlways == WatchSpec => []SyncStateTellsLastSync
<1>1. WatchInv => SyncStateTellsLastSync
  BY DEF WatchInv
<1> QED
  BY <1>1, WatchInvariance, PTL

-----------------------------------------------------------------------------
(* Connect sessions, keys and the rewrap command. *)

MailboxRows == [ identity : Identities, account : GmailAccounts, ops : OperationalState ]

(* Every mailbox has a row, a credential and a latest connection. *)
RowsAreComplete ==
    /\ DOMAIN mailbox \subseteq MailboxIds
    /\ mailbox \in [ DOMAIN mailbox -> MailboxRows ]
    /\ credential \in [ DOMAIN mailbox -> CredentialRows ]
    /\ granted \in [ DOMAIN mailbox -> Callbacks \cup {OldGrant} ]

SessionRows ==
    [ state : { "none", "open", "expired", "completed" },
      identity : Identities, mailbox : MailboxIds \cup {NoMailbox} ]

CallbackRecords ==
    [ step : { "idle", "exchanging", "completing", "storing", "dispatching", "over" },
      session : Sessions \cup {NoMailbox}, account : GmailAccounts \cup {NoMailbox},
      found : MailboxIds \cup {NoMailbox}, sealed : StoredForms ]

(* A callback that works on a session holds it, and the account from the     *)
(* exchange of its code on.                                                  *)
CallbacksHoldSession ==
    /\ session \in [ Sessions -> SessionRows ]
    /\ callback \in [ Callbacks -> CallbackRecords ]
    /\ \A k \in Callbacks :
         /\ callback[k].step \in { "exchanging", "completing", "storing" } =>
              callback[k].session \in Sessions
         /\ callback[k].step \in { "completing", "storing" } =>
              callback[k].account \in GmailAccounts

KeysInUse == active \in KeyIds /\ active \in ring /\ ring \subseteq KeyIds

(* The command, all of its fields but what it has listed. *)
RewrapRecords(credentials) ==
    [ step : { "idle", "running", "done" }, marks : BOOLEAN, active : KeyIds \cup {NoKey},
      ring : SUBSET KeyIds, listed : {credentials}, unreadable : SUBSET MailboxIds ]

(* While it works, the command has a part of its listing left; its key is    *)
(* the active one, or an older one by now.                                   *)
RewrapHoldsListing ==
    /\ rewrap \in RewrapRecords(rewrap.listed)
    /\ rewrap.listed \in [ DOMAIN rewrap.listed -> CredentialRows ]
    /\ DOMAIN rewrap.listed \subseteq DOMAIN mailbox
    /\ rewrap.step # "running" => DOMAIN rewrap.listed = {}
    /\ rewrap.step # "idle" => rewrap.active \in KeyIds /\ rewrap.active <= active
    /\ lateSealed \subseteq MailboxIds /\ reconnected \subseteq MailboxIds

(* Nobody is asked to connect again before the command has come to his       *)
(* mailbox, and a credential that is no longer the one listed was replaced   *)
(* by a reconnect.                                                           *)
ListedIsCurrent ==
    /\ rewrap.step = "idle" => \A m \in DOMAIN mailbox : mailbox[m].ops.status = "active"
    /\ \A m \in DOMAIN rewrap.listed :
         /\ mailbox[m].ops.status = "active"
         /\ credential[m] = rewrap.listed[m] \/ m \in reconnected

(* RewrapRetiresOldKeys, of a command that may still be at work.             *)
RewrappedSoFar ==
    rewrap.step # "idle" /\ rewrap.active = active =>
        \A m \in DOMAIN mailbox :
            \/ credential[m].stored = Sealed(active)
            \/ m \in rewrap.unreadable \cup lateSealed
            \/ m \in DOMAIN rewrap.listed /\ credential[m] = rewrap.listed[m]

ConnectTypes == RowsAreComplete /\ CallbacksHoldSession /\ KeysInUse /\ RewrapHoldsListing

ConnectInv ==
    ConnectTypes /\ ListedIsCurrent /\ RewrappedSoFar /\ CredentialIsLatest
        /\ MarkedMailboxIsUnreadable

LEMMA IdleIsTyped ==
    ASSUME NEW step \in { "idle", "dispatching", "over", "exchanging" }
    PROVE  /\ Idle(step) \in CallbackRecords
           /\ Idle(step).step = step
           /\ \A s \in Sessions : [ Idle(step) EXCEPT !.session = s ] \in CallbackRecords
  BY DEF Idle, CallbackRecords, StoredForms

LEMMA NewRowIsTyped ==
    ASSUME NEW i \in Identities, NEW g \in GmailAccounts
    PROVE  Row(i, g) \in MailboxRows /\ Row(i, g).ops.status = "active" /\ Row(i, g).account = g
  BY DEF Row, MailboxRows, OperationalState, ErrorCodes

LEMMA NewCredentialIsTyped ==
    ASSUME NEW g \in GmailAccounts, NEW grant \in Callbacks \cup {OldGrant},
           NEW form \in StoredForms
    PROVE  /\ Credential(g, grant, form) \in CredentialRows
           /\ Credential(g, grant, form).grant = grant
           /\ Credential(g, grant, form).account = g
           /\ Credential(g, grant, form).stored = form
  BY DEF Credential, CredentialRows

LEMMA ConnectInitially == ConnectInit => ConnectInv
<1> SUFFICES ASSUME ConnectInit PROVE ConnectInv
  OBVIOUS
<1>1. OldIdentity \in Identities /\ OldAccount \in GmailAccounts
  BY OldMailboxAssumption DEF OldIdentity, OldAccount
<1>2. Row(OldIdentity, OldAccount) \in MailboxRows
      /\ Row(OldIdentity, OldAccount).ops.status = "active"
      /\ Row(OldIdentity, OldAccount).account = OldAccount
  BY <1>1, NewRowIsTyped
<1>3. PICK form \in StoredForms :
         credential = [ m \in {OldMailbox} |-> Credential(OldAccount, OldGrant, form) ]
  BY DEF ConnectInit
<1>4. /\ Credential(OldAccount, OldGrant, form) \in CredentialRows
      /\ Credential(OldAccount, OldGrant, form).grant = OldGrant
      /\ Credential(OldAccount, OldGrant, form).account = OldAccount
  BY <1>1, NewCredentialIsTyped
<1>5. DOMAIN mailbox = {OldMailbox} /\ OldMailbox \in MailboxIds
  BY DEF ConnectInit, MailboxIds
<1>6. RowsAreComplete
  BY <1>2, <1>3, <1>4, <1>5 DEF ConnectInit, RowsAreComplete
<1>7. CallbacksHoldSession
  <2>1. NoSession \in SessionRows
    BY <1>1 DEF NoSession, SessionRows
  <2> QED
    BY <2>1, IdleIsTyped DEF ConnectInit, CallbacksHoldSession
<1>8. KeysInUse
  BY DEF ConnectInit, KeysInUse
<1>9. rewrap.listed = << >> /\ DOMAIN rewrap.listed = {} /\ rewrap.step = "idle"
  BY DEF ConnectInit, NoRewrap
<1>10. RewrapHoldsListing
  <2>1. rewrap \in RewrapRecords(rewrap.listed)
    BY DEF ConnectInit, NoRewrap, RewrapRecords
  <2>2. rewrap.listed \in [ DOMAIN rewrap.listed -> CredentialRows ]
    BY <1>9
  <2>3. lateSealed \subseteq MailboxIds /\ reconnected \subseteq MailboxIds
    BY DEF ConnectInit
  <2> QED
    BY <1>9, <2>1, <2>2, <2>3 DEF RewrapHoldsListing
<1>11. ListedIsCurrent /\ MarkedMailboxIsUnreadable
  BY <1>2, <1>9 DEF ConnectInit, ListedIsCurrent, MarkedMailboxIsUnreadable
<1>12. RewrappedSoFar
  BY <1>9 DEF RewrappedSoFar
<1>13. CredentialIsLatest
  BY <1>2, <1>3, <1>4 DEF ConnectInit, CredentialIsLatest
<1> QED
  BY <1>6, <1>7, <1>8, <1>10, <1>11, <1>12, <1>13 DEF ConnectInv, ConnectTypes

(* What only sessions and callbacks notice. *)
LEMMA CallbackStepKeeps ==
    ASSUME ConnectInv, CallbacksHoldSession',
           UNCHANGED << mailbox, credential, keys, rewrap, granted, lateSealed, reconnected >>
    PROVE  ConnectInv'
<1> USE DEF keys
<1>1. RowsAreComplete' /\ KeysInUse'
  BY DEF ConnectInv, ConnectTypes, RowsAreComplete, KeysInUse
<1>2. RewrapHoldsListing'
  BY DEF ConnectInv, ConnectTypes, RewrapHoldsListing, RewrapRecords
<1>3. ListedIsCurrent'
  BY DEF ConnectInv, ListedIsCurrent
<1>4. RewrappedSoFar'
  BY DEF ConnectInv, RewrappedSoFar
<1>5. CredentialIsLatest'
  BY DEF ConnectInv, CredentialIsLatest
<1>6. MarkedMailboxIsUnreadable'
  BY DEF ConnectInv, MarkedMailboxIsUnreadable
<1> QED
  BY <1>1, <1>2, <1>3, <1>4, <1>5, <1>6 DEF ConnectInv, ConnectTypes

LEMMA SessionStepKeeps ==
    ASSUME ConnectInv, NEW s \in Sessions,
           SessionExpires(s) \/ \E i \in Identities : CreateSession(s, i)
    PROVE  ConnectInv'
<1>1. /\ CallbacksHoldSession
      /\ session' \in [ Sessions -> SessionRows ] /\ callback' = callback
  BY DEF ConnectInv, ConnectTypes, CallbacksHoldSession, SessionExpires, CreateSession, SessionRows
<1>2. CallbacksHoldSession'
  BY <1>1 DEF CallbacksHoldSession
<1> QED
  BY <1>2, CallbackStepKeeps DEF SessionExpires, CreateSession

LEMMA ReceiveCallbackKeeps ==
    ASSUME ConnectInv, NEW k \in Callbacks, NEW s \in Sessions, ReceiveCallback(k, s)
    PROVE  ConnectInv'
<1> DEFINE next ==
      CASE session[s].state = "open"      -> [ Idle("exchanging") EXCEPT !.session = s ]
        [] session[s].state = "expired"   -> Idle("over")
        [] session[s].state = "completed" -> Idle("dispatching")
<1>1. session[s].state \in { "open", "expired", "completed" }
  BY DEF ConnectInv, ConnectTypes, CallbacksHoldSession, ReceiveCallback, SessionRows
<1>2. next \in CallbackRecords
  BY <1>1, IdleIsTyped
<1>3. /\ next.step \in { "exchanging", "over", "dispatching" }
      /\ next.step = "exchanging" => next.session = s
  BY <1>1 DEF Idle
<1>4. callback' = [ callback EXCEPT ![k] = next ] /\ session' = session
  BY DEF ReceiveCallback
<1> HIDE DEF next
<1>5. CallbacksHoldSession'
  BY <1>2, <1>3, <1>4 DEF ConnectInv, ConnectTypes, CallbacksHoldSession
<1> QED
  BY <1>5, CallbackStepKeeps DEF ReceiveCallback

LEMMA ExchangeCodeKeeps ==
    ASSUME ConnectInv, NEW k \in Callbacks, NEW g \in GmailAccounts, ExchangeCode(k, g)
    PROVE  ConnectInv'
<1> DEFINE next == [ callback[k] EXCEPT !.step = "completing", !.account = g,
                                        !.sealed = Sealed(active) ]
<1>1. Sealed(active) \in StoredForms
  BY DEF ConnectInv, ConnectTypes, KeysInUse, StoredForms
<1>2. /\ callback[k] \in CallbackRecords /\ callback[k].step = "exchanging"
      /\ callback[k].session \in Sessions
  BY DEF ConnectInv, ConnectTypes, CallbacksHoldSession, ExchangeCode
<1>3. /\ next \in CallbackRecords /\ next.step = "completing"
      /\ next.session \in Sessions /\ next.account \in GmailAccounts
  BY <1>1, <1>2 DEF CallbackRecords
<1>4. callback' = [ callback EXCEPT ![k] = next ] /\ session' = session
  BY DEF ExchangeCode
<1> HIDE DEF next
<1>5. CallbacksHoldSession'
  BY <1>3, <1>4 DEF ConnectInv, ConnectTypes, CallbacksHoldSession
<1> QED
  BY <1>5, CallbackStepKeeps DEF ExchangeCode

LEMMA FindMailboxKeeps ==
    ASSUME ConnectInv, NEW k \in Callbacks, FindMailbox(k)
    PROVE  ConnectInv'
<1>1. CASE callback' = [ callback EXCEPT ![k] = Idle("dispatching") ]
  <2>1. CallbacksHoldSession'
    BY <1>1, IdleIsTyped DEF ConnectInv, ConnectTypes, CallbacksHoldSession, FindMailbox
  <2> QED
    BY <2>1, CallbackStepKeeps DEF FindMailbox
<1>2. ASSUME NEW m \in MailboxIds \cup {NoMailbox},
             callback' = [ callback EXCEPT ![k].step = "storing", ![k].found = m ]
      PROVE  ConnectInv'
  <2> DEFINE next == [ callback[k] EXCEPT !.step = "storing", !.found = m ]
  <2>1. /\ callback[k] \in CallbackRecords /\ callback[k].session \in Sessions
        /\ callback[k].account \in GmailAccounts
    BY DEF ConnectInv, ConnectTypes, CallbacksHoldSession, FindMailbox
  <2>2. /\ next \in CallbackRecords /\ next.step = "storing"
        /\ next.session \in Sessions /\ next.account \in GmailAccounts
    BY <2>1 DEF CallbackRecords
  <2>3. callback' = [ callback EXCEPT ![k] = next ] /\ session' = session
    BY <1>2 DEF FindMailbox
  <2> HIDE DEF next
  <2>4. CallbacksHoldSession'
    BY <2>2, <2>3 DEF ConnectInv, ConnectTypes, CallbacksHoldSession
  <2> QED
    BY <2>4, CallbackStepKeeps DEF FindMailbox
<1> QED
  BY <1>1, <1>2 DEF FindMailbox, Matches, ConnectInv, ConnectTypes, RowsAreComplete

LEMMA CallbackEndsKeeps ==
    ASSUME ConnectInv, NEW k \in Callbacks, CallbackFails(k) \/ DispatchFirstSync(k)
    PROVE  ConnectInv'
<1>1. callback' = [ callback EXCEPT ![k] = Idle("over") ] /\ session' = session
  BY DEF CallbackFails, DispatchFirstSync
<1>2. CallbacksHoldSession'
  BY <1>1, IdleIsTyped DEF ConnectInv, ConnectTypes, CallbacksHoldSession
<1> QED
  BY <1>2, CallbackStepKeeps DEF CallbackFails, DispatchFirstSync

(* A connection that one of the two unique constraints refuses.              *)
LEMMA RefusedConnectionKeeps ==
    ASSUME ConnectInv, NEW k \in Callbacks, callback[k].step = "storing",
           callback' = [ callback EXCEPT ![k] = Idle("over") ],
           UNCHANGED << session, mailbox, credential, keys, rewrap, granted, lateSealed, reconnected >>
    PROVE  ConnectInv'
<1>1. CallbacksHoldSession'
  BY IdleIsTyped DEF ConnectInv, ConnectTypes, CallbacksHoldSession
<1> QED
  BY <1>1, CallbackStepKeeps

(* The commit of a connection to mailbox m, new or found. *)
LEMMA CommittedConnectionKeeps ==
    ASSUME ConnectInv, NEW k \in Callbacks, callback[k].step = "storing",
           NEW m \in MailboxIds, NEW i \in Identities,
           mailbox' = Set(mailbox, m, Row(i, callback[k].account)),
           credential' = StoreCredential(m, Credential(callback[k].account, k, callback[k].sealed)),
           session' = [ session EXCEPT ![callback[k].session].state = "completed",
                                       ![callback[k].session].mailbox = m ],
           callback' = [ callback EXCEPT ![k] = Idle("dispatching") ],
           granted' = Set(granted, m, k),
           lateSealed' = IF callback[k].sealed = Sealed(active) THEN lateSealed \ {m}
                         ELSE lateSealed \cup {m},
           reconnected' = IF m \in DOMAIN rewrap.listed THEN reconnected \cup {m} ELSE reconnected,
           UNCHANGED << keys, rewrap >>
    PROVE  ConnectInv'
<1> DEFINE c == callback[k]
           row == Row(i, c.account)
           new == Credential(c.account, k, c.sealed)
           ids == DOMAIN mailbox
<1>1. /\ c \in CallbackRecords /\ c.session \in Sessions /\ c.account \in GmailAccounts
      /\ c.sealed \in StoredForms
  BY DEF ConnectInv, ConnectTypes, CallbacksHoldSession, CallbackRecords
<1>2. row \in MailboxRows /\ row.ops.status = "active" /\ row.account = c.account
  BY <1>1, NewRowIsTyped
<1>3. /\ new \in CredentialRows /\ new.grant = k /\ new.account = c.account
      /\ new.stored = c.sealed
  BY <1>1, NewCredentialIsTyped
<1>4. /\ mailbox \in [ ids -> MailboxRows ] /\ credential \in [ ids -> CredentialRows ]
      /\ granted \in [ ids -> Callbacks \cup {OldGrant} ] /\ ids \subseteq MailboxIds
  BY DEF ConnectInv, ConnectTypes, RowsAreComplete
<1>5. /\ mailbox' = Set(mailbox, m, row) /\ credential' = Set(credential, m, new)
      /\ granted' = Set(granted, m, k) /\ active' = active /\ ring' = ring /\ rewrap' = rewrap
  BY DEF StoreCredential, keys
<1> HIDE DEF row, new, c, ids
<1>6. /\ mailbox' \in [ ids \cup {m} -> MailboxRows ] /\ DOMAIN mailbox' = ids \cup {m}
      /\ mailbox'[m] = row /\ \A n \in ids \ {m} : mailbox'[n] = mailbox[n]
  BY <1>2, <1>4, <1>5 DEF Set
<1>7. /\ credential' \in [ ids \cup {m} -> CredentialRows ] /\ credential'[m] = new
      /\ \A n \in ids \ {m} : credential'[n] = credential[n]
  BY <1>3, <1>4, <1>5 DEF Set
<1>8. /\ granted' \in [ ids \cup {m} -> Callbacks \cup {OldGrant} ] /\ granted'[m] = k
      /\ \A n \in ids \ {m} : granted'[n] = granted[n]
  BY <1>4, <1>5 DEF Set
<1>9. RowsAreComplete'
  BY <1>4, <1>6, <1>7, <1>8 DEF RowsAreComplete
<1>10. CallbacksHoldSession'
  <2>1. session' \in [ Sessions -> SessionRows ]
    <3>1. session \in [ Sessions -> SessionRows ]
      BY DEF ConnectInv, ConnectTypes, CallbacksHoldSession
    <3> DEFINE completed == [ session[c.session] EXCEPT !.state = "completed", !.mailbox = m ]
    <3>2. completed \in SessionRows
      BY <1>1, <3>1, ZenonT(60) DEF SessionRows
    <3>3. session' = [ session EXCEPT ![c.session] = completed ]
      BY DEF c
    <3> HIDE DEF completed
    <3> QED
      BY <1>1, <3>1, <3>2, <3>3
  <2> QED
    BY <2>1, IdleIsTyped DEF ConnectInv, ConnectTypes, CallbacksHoldSession
<1>11. KeysInUse'
  BY <1>5 DEF ConnectInv, ConnectTypes, KeysInUse
<1>12. RewrapHoldsListing'
  <2>1. DOMAIN rewrap.listed \subseteq DOMAIN mailbox'
    BY <1>6 DEF ConnectInv, ConnectTypes, RewrapHoldsListing, ids
  <2>2. lateSealed' \subseteq MailboxIds /\ reconnected' \subseteq MailboxIds
    BY DEF ConnectInv, ConnectTypes, RewrapHoldsListing
  <2> QED
    BY <1>5, <2>1, <2>2 DEF ConnectInv, ConnectTypes, RewrapHoldsListing, RewrapRecords
<1>13. \A n \in DOMAIN rewrap.listed : n \in ids
  BY DEF ConnectInv, ConnectTypes, RewrapHoldsListing, ids
<1>14. \A n \in ids \cup {m} : n # m => n \in ids \ {m}
  OBVIOUS
<1>15. ListedIsCurrent'
  BY <1>2, <1>5, <1>6, <1>7, <1>13, <1>14 DEF ConnectInv, ListedIsCurrent, ids
<1>16. RewrappedSoFar'
  <2> SUFFICES ASSUME rewrap.step # "idle", rewrap.active = active, NEW n \in ids \cup {m}
               PROVE  \/ credential'[n].stored = Sealed(active)
                      \/ n \in rewrap.unreadable \cup lateSealed'
                      \/ n \in DOMAIN rewrap.listed /\ credential'[n] = rewrap.listed[n]
    BY <1>5, <1>6 DEF RewrappedSoFar, Sealed
  <2>1. CASE n = m
    BY <1>3, <1>7, <2>1 DEF c
  <2>2. CASE n # m
    <3>1. /\ n \in ids \ {m} /\ credential'[n] = credential[n]
          /\ n \in lateSealed => n \in lateSealed'
      BY <1>7, <2>2
    <3> QED
      BY <3>1 DEF ConnectInv, RewrappedSoFar, ids
  <2> QED
    BY <2>1, <2>2
<1>17. CredentialIsLatest'
  BY <1>2, <1>3, <1>6, <1>7, <1>8, <1>14 DEF ConnectInv, CredentialIsLatest, ids
<1>18. MarkedMailboxIsUnreadable'
  <2> SUFFICES ASSUME NEW n \in ids \cup {m}, mailbox'[n].ops.status = "reconnect_required"
               PROVE  ~CanOpen(credential'[n].stored, rewrap.ring) \/ n \in reconnected'
    BY <1>5, <1>6 DEF MarkedMailboxIsUnreadable, CanOpen
  <2>1. n \in ids \ {m} /\ mailbox'[n] = mailbox[n] /\ credential'[n] = credential[n]
    BY <1>2, <1>6, <1>7
  <2> QED
    BY <2>1 DEF ConnectInv, MarkedMailboxIsUnreadable, ids
<1> QED
  BY <1>9, <1>10, <1>11, <1>12, <1>15, <1>16, <1>17, <1>18 DEF ConnectInv, ConnectTypes

LEMMA StoreConnectionKeeps ==
    ASSUME ConnectInv, NEW k \in Callbacks, StoreConnection(k)
    PROVE  ConnectInv'
<1> DEFINE c == callback[k]
           i == session[c.session].identity
           m == IF c.found = NoMailbox THEN k ELSE c.found
<1>1. c.step = "storing" /\ i \in Identities /\ m \in MailboxIds
  BY DEF ConnectInv, ConnectTypes, CallbacksHoldSession, CallbackRecords, SessionRows,
     StoreConnection, MailboxIds
<1>2. CASE Matches(i, c.account) \subseteq {m}
  BY <1>1, <1>2, CommittedConnectionKeeps DEF StoreConnection
<1>3. CASE ~(Matches(i, c.account) \subseteq {m})
  BY <1>1, <1>3, RefusedConnectionKeeps DEF StoreConnection
<1> QED
  BY <1>2, <1>3

LEMMA KeyStepKeeps ==
    ASSUME ConnectInv, NEW k \in KeyIds, RotateKey(k) \/ RetireKey(k)
    PROVE  ConnectInv'
<1>1. /\ UNCHANGED << session, mailbox, credential, callback, rewrap, granted, lateSealed, reconnected >>
      /\ active' = active \/ active' > active
      /\ active \in Nat /\ active' \in Nat
  BY KeysAssumption DEF RotateKey, RetireKey, ConnectInv, ConnectTypes, KeysInUse
<1>2. RowsAreComplete' /\ CallbacksHoldSession'
  BY <1>1 DEF ConnectInv, ConnectTypes, RowsAreComplete, CallbacksHoldSession
<1>3. KeysInUse'
  BY DEF RotateKey, RetireKey, ConnectInv, ConnectTypes, KeysInUse
<1>4. rewrap.step # "idle" => rewrap.active \in Nat /\ rewrap.active <= active
  BY KeysAssumption DEF ConnectInv, ConnectTypes, RewrapHoldsListing
<1>5. RewrapHoldsListing'
  BY <1>1, <1>4 DEF ConnectInv, ConnectTypes, RewrapHoldsListing, RewrapRecords
<1>6. ListedIsCurrent'
  BY <1>1 DEF ConnectInv, ListedIsCurrent
<1>7. RewrappedSoFar'
  <2>1. CASE active' = active
    BY <1>1, <2>1 DEF ConnectInv, RewrappedSoFar
  <2>2. CASE active' > active
    BY <1>1, <1>4, <2>2 DEF RewrappedSoFar
  <2> QED
    BY <1>1, <2>1, <2>2
<1>8. CredentialIsLatest'
  BY <1>1 DEF ConnectInv, CredentialIsLatest
<1>9. MarkedMailboxIsUnreadable'
  BY <1>1 DEF ConnectInv, MarkedMailboxIsUnreadable
<1> QED
  BY <1>2, <1>3, <1>5, <1>6, <1>7, <1>8, <1>9 DEF ConnectInv, ConnectTypes

LEMMA StartRewrapKeeps ==
    ASSUME ConnectInv, NEW marks \in BOOLEAN, StartRewrap(marks)
    PROVE  ConnectInv'
<1> USE DEF StartRewrap, keys
<1>1. RowsAreComplete' /\ CallbacksHoldSession' /\ KeysInUse'
  BY DEF ConnectInv, ConnectTypes, RowsAreComplete, CallbacksHoldSession, KeysInUse
<1>2. /\ rewrap'.step = "running" /\ rewrap'.listed = credential /\ rewrap'.active = active
      /\ credential \in [ DOMAIN mailbox -> CredentialRows ] /\ DOMAIN mailbox \subseteq MailboxIds
  BY DEF ConnectInv, ConnectTypes, RowsAreComplete
<1>3. RewrapHoldsListing'
  <2>1. active \in KeyIds /\ active <= active /\ ring \subseteq KeyIds
    BY KeysAssumption DEF ConnectInv, ConnectTypes, KeysInUse
  <2>2. rewrap' \in RewrapRecords(rewrap'.listed)
    BY <1>2, <2>1 DEF RewrapRecords
  <2>3. lateSealed' \subseteq MailboxIds /\ reconnected' = {}
    BY DEF ConnectInv, ConnectTypes, RewrapHoldsListing
  <2> QED
    BY <1>2, <2>1, <2>2, <2>3 DEF RewrapHoldsListing
<1>4. \A m \in DOMAIN mailbox : mailbox[m].ops.status = "active"
  BY DEF ConnectInv, ListedIsCurrent
<1>5. ListedIsCurrent'
  BY <1>2, <1>4 DEF ListedIsCurrent
<1>6. RewrappedSoFar'
  BY <1>2 DEF RewrappedSoFar
<1>7. CredentialIsLatest'
  BY DEF ConnectInv, CredentialIsLatest
<1>8. MarkedMailboxIsUnreadable'
  BY <1>4 DEF MarkedMailboxIsUnreadable
<1> QED
  BY <1>1, <1>3, <1>5, <1>6, <1>7, <1>8 DEF ConnectInv, ConnectTypes

LEMMA RewrapEndsKeeps == ConnectInv /\ RewrapEnds => ConnectInv'
<1> SUFFICES ASSUME ConnectInv, RewrapEnds PROVE ConnectInv'
  OBVIOUS
<1> USE DEF RewrapEnds, keys
<1>1. RowsAreComplete' /\ CallbacksHoldSession' /\ KeysInUse'
  BY DEF ConnectInv, ConnectTypes, RowsAreComplete, CallbacksHoldSession, KeysInUse
<1>2. /\ rewrap'.step = "done" /\ rewrap'.listed = rewrap.listed /\ rewrap'.active = rewrap.active
      /\ rewrap'.ring = rewrap.ring /\ rewrap'.unreadable = rewrap.unreadable
      /\ rewrap' \in RewrapRecords(rewrap'.listed)
  BY DEF ConnectInv, ConnectTypes, RewrapHoldsListing, RewrapRecords
<1>3. RewrapHoldsListing'
  BY <1>2 DEF ConnectInv, ConnectTypes, RewrapHoldsListing
<1>4. ListedIsCurrent'
  BY <1>2 DEF ConnectInv, ListedIsCurrent
<1>5. RewrappedSoFar'
  BY <1>2 DEF ConnectInv, RewrappedSoFar
<1>6. CredentialIsLatest'
  BY DEF ConnectInv, CredentialIsLatest
<1>7. MarkedMailboxIsUnreadable'
  BY <1>2 DEF ConnectInv, MarkedMailboxIsUnreadable
<1> QED
  BY <1>1, <1>3, <1>4, <1>5, <1>6, <1>7 DEF ConnectInv, ConnectTypes

LEMMA RewrapOneKeeps ==
    ASSUME ConnectInv, NEW m \in MailboxIds, RewrapOne(m)
    PROVE  ConnectInv'
<1> DEFINE c == rewrap.listed[m]
           rest == [ y \in DOMAIN rewrap.listed \ {m} |-> rewrap.listed[y] ]
<1>1. /\ rewrap.step = "running" /\ m \in DOMAIN rewrap.listed /\ m \in DOMAIN mailbox
      /\ c \in CredentialRows /\ rewrap.active \in KeyIds /\ rewrap.active \in Nat \ {NoKey}
      /\ active \in KeyIds
      /\ mailbox[m].ops.status = "active"
      /\ credential[m] = c \/ m \in reconnected
  BY KeysAssumption DEF ConnectInv, ConnectTypes, KeysInUse, RewrapHoldsListing, ListedIsCurrent, RewrapOne
<1>2. /\ UNCHANGED << session, callback, active, ring, granted, lateSealed, reconnected >>
      /\ \/ /\ Unreadable(c.stored)
            /\ mailbox' = IF rewrap.marks
                          THEN [ mailbox EXCEPT ![m].ops = TransitionForCredentialUnreadable(@) ]
                          ELSE mailbox
            /\ rewrap' = [ rewrap EXCEPT !.listed = rest, !.unreadable = @ \cup {m} ]
            /\ credential' = credential
         \/ /\ ~Unreadable(c.stored)
            /\ credential' = IF NeedsRewrap(c.stored, rewrap.active) /\ IsUnchanged(m)
                             THEN [ credential EXCEPT ![m] =
                                      [ c EXCEPT !.stored = Sealed(rewrap.active) ] ]
                             ELSE credential
            /\ rewrap' = [ rewrap EXCEPT !.listed = rest ]
            /\ mailbox' = mailbox
  BY DEF RewrapOne, keys
<1>3. /\ rest \in [ DOMAIN rewrap.listed \ {m} -> CredentialRows ]
      /\ DOMAIN rest = DOMAIN rewrap.listed \ {m}
      /\ \A n \in DOMAIN rewrap.listed \ {m} : rest[n] = rewrap.listed[n]
  BY DEF ConnectInv, ConnectTypes, RewrapHoldsListing
<1> HIDE DEF rest
<1>4. /\ rewrap'.listed = rest /\ rewrap' \in RewrapRecords(rest)
      /\ rewrap'.step = rewrap.step /\ rewrap'.active = rewrap.active /\ rewrap'.ring = rewrap.ring
      /\ rewrap.unreadable \subseteq rewrap'.unreadable
      /\ Unreadable(c.stored) => m \in rewrap'.unreadable
  <2>1. rewrap \in RewrapRecords(rewrap.listed)
    BY DEF ConnectInv, ConnectTypes, RewrapHoldsListing
  <2>2. CASE rewrap' = [ rewrap EXCEPT !.listed = rest, !.unreadable = @ \cup {m} ]
    BY <2>1, <2>2 DEF RewrapRecords
  <2>3. CASE rewrap' = [ rewrap EXCEPT !.listed = rest ] /\ ~Unreadable(c.stored)
    BY <2>1, <2>3 DEF RewrapRecords
  <2> QED
    BY <1>2, <2>2, <2>3
(* What becomes of the rows. *)
<1>5. /\ mailbox' \in [ DOMAIN mailbox -> MailboxRows ] /\ DOMAIN mailbox' = DOMAIN mailbox
      /\ \A n \in DOMAIN mailbox : mailbox'[n].account = mailbox[n].account
      /\ \A n \in DOMAIN mailbox : n # m => mailbox'[n] = mailbox[n]
      /\ ~Unreadable(c.stored) => mailbox' = mailbox
  <2>1. mailbox \in [ DOMAIN mailbox -> MailboxRows ]
    BY DEF ConnectInv, ConnectTypes, RowsAreComplete
  <2> DEFINE marked == [ mailbox[m] EXCEPT !.ops = TransitionForCredentialUnreadable(@) ]
  <2>2. TransitionForCredentialUnreadable(mailbox[m].ops) \in OperationalState
    BY <1>1, <2>1 DEF MailboxRows, OperationalState, TransitionForCredentialUnreadable, ErrorCodes,
       SyncProblems, TerminalCredentialProblems
  <2>3. marked \in MailboxRows /\ marked.account = mailbox[m].account
    BY <1>1, <2>1, <2>2 DEF MailboxRows
  <2>4. mailbox' = mailbox \/ mailbox' = [ mailbox EXCEPT ![m] = marked ]
    BY <1>2
  <2>5. ~Unreadable(c.stored) => mailbox' = mailbox
    BY <1>2
  <2> HIDE DEF marked
  <2> QED
    BY <1>1, <2>1, <2>3, <2>4, <2>5
<1>6. /\ credential' \in [ DOMAIN mailbox -> CredentialRows ]
      /\ \A n \in DOMAIN mailbox : /\ credential'[n].grant = credential[n].grant
                                   /\ credential'[n].account = credential[n].account
                                   /\ n # m => credential'[n] = credential[n]
      /\ Unreadable(c.stored) => credential' = credential
      /\ ~Unreadable(c.stored) /\ credential[m] = c => credential'[m].stored = Sealed(rewrap.active)
  <2>1. credential \in [ DOMAIN mailbox -> CredentialRows ]
    BY DEF ConnectInv, ConnectTypes, RowsAreComplete
  <2> DEFINE wrapped == [ c EXCEPT !.stored = Sealed(rewrap.active) ]
  <2>2. /\ wrapped \in CredentialRows /\ wrapped.grant = c.grant /\ wrapped.account = c.account
        /\ wrapped.stored = Sealed(rewrap.active)
    <3>1. Sealed(rewrap.active) \in StoredForms
      BY <1>1 DEF StoredForms
    <3> QED
      BY <1>1, <3>1 DEF CredentialRows
  <2>3. \/ credential' = credential
        \/ credential' = [ credential EXCEPT ![m] = wrapped ] /\ credential[m] = c
    BY <1>2 DEF IsUnchanged
  <2>4. Unreadable(c.stored) => credential' = credential
    BY <1>2
  <2>5. ~Unreadable(c.stored) /\ credential[m] = c /\ credential' = credential =>
           credential[m].stored = Sealed(rewrap.active)
    <3> SUFFICES ASSUME ~Unreadable(c.stored), credential[m] = c, credential' = credential
                 PROVE  c.stored = Sealed(rewrap.active)
      OBVIOUS
    <3>1. CASE ~NeedsRewrap(c.stored, rewrap.active)
      <4>1. c.stored \in StoredForms /\ c.stored.kid = rewrap.active
        BY <1>1, <3>1 DEF NeedsRewrap, CredentialRows
      <4> QED
        BY <1>1, <4>1 DEF StoredForms, Plaintext, Sealed, SealedWithoutKid
    <3>2. CASE NeedsRewrap(c.stored, rewrap.active)
      <4>1. credential' = [ credential EXCEPT ![m] = wrapped ]
        BY <1>2, <3>2 DEF IsUnchanged
      <4>2. credential'[m] = wrapped
        BY <1>1, <2>1, <4>1
      <4> QED
        BY <2>2, <4>2
    <3> QED
      BY <3>1, <3>2
  <2> HIDE DEF wrapped, c
  <2> QED
    BY <1>1, <2>1, <2>2, <2>3, <2>4, <2>5
<1>7. RowsAreComplete' /\ CallbacksHoldSession' /\ KeysInUse'
  BY <1>2, <1>5, <1>6 DEF ConnectInv, ConnectTypes, RowsAreComplete, CallbacksHoldSession, KeysInUse
<1>8. RewrapHoldsListing'
  BY <1>1, <1>2, <1>3, <1>4, <1>5 DEF ConnectInv, ConnectTypes, RewrapHoldsListing
<1>9. ListedIsCurrent'
  <2> SUFFICES ASSUME NEW n \in DOMAIN rest
               PROVE  mailbox'[n].ops.status = "active" /\ (credential'[n] = rest[n] \/ n \in reconnected)
    BY <1>1, <1>2, <1>4 DEF ListedIsCurrent
  <2>1. n \in DOMAIN rewrap.listed /\ n # m /\ n \in DOMAIN mailbox /\ rest[n] = rewrap.listed[n]
    BY <1>3 DEF ConnectInv, ConnectTypes, RewrapHoldsListing
  <2> QED
    BY <1>5, <1>6, <2>1 DEF ConnectInv, ListedIsCurrent
<1>10. RewrappedSoFar'
  <2> SUFFICES ASSUME rewrap.active = active, NEW n \in DOMAIN mailbox
               PROVE  \/ credential'[n].stored = Sealed(active)
                      \/ n \in rewrap'.unreadable \cup lateSealed
                      \/ n \in DOMAIN rest /\ credential'[n] = rest[n]
    BY <1>1, <1>2, <1>4, <1>5 DEF RewrappedSoFar, Sealed
  <2>1. \/ credential[n].stored = Sealed(active)
        \/ n \in rewrap.unreadable \cup lateSealed
        \/ n \in DOMAIN rewrap.listed /\ credential[n] = rewrap.listed[n]
    BY <1>1 DEF ConnectInv, RewrappedSoFar
  <2>2. CASE n # m
    BY <1>3, <1>4, <1>6, <2>1, <2>2
  <2>3. CASE n = m
    <3>1. CASE credential'[m] = credential[m]
      BY <1>4, <1>6, <2>1, <2>3, <3>1
    <3>2. CASE credential'[m] # credential[m]
      <4>1. credential[m] = c /\ ~Unreadable(c.stored)
        BY <1>2, <3>2 DEF IsUnchanged
      <4> QED
        BY <1>6, <2>3, <4>1
    <3> QED
      BY <3>1, <3>2
  <2> QED
    BY <2>2, <2>3
<1>11. CredentialIsLatest'
  BY <1>2, <1>5, <1>6 DEF ConnectInv, CredentialIsLatest
<1>12. MarkedMailboxIsUnreadable'
  <2> SUFFICES ASSUME NEW n \in DOMAIN mailbox, mailbox'[n].ops.status = "reconnect_required"
               PROVE  ~CanOpen(credential'[n].stored, rewrap.ring) \/ n \in reconnected
    BY <1>2, <1>4, <1>5 DEF MarkedMailboxIsUnreadable, CanOpen
  <2>1. CASE n # m
    BY <1>5, <1>6, <2>1 DEF ConnectInv, MarkedMailboxIsUnreadable
  <2>2. CASE n = m
    <3>1. Unreadable(c.stored)
      BY <1>1, <1>5, <2>2
    <3> QED
      BY <1>1, <1>6, <2>2, <3>1 DEF Unreadable
  <2> QED
    BY <2>1, <2>2
<1> QED
  BY <1>7, <1>8, <1>9, <1>10, <1>11, <1>12 DEF ConnectInv, ConnectTypes

(* The invariant of credentials and keys: what the command still has to do   *)
(* is as it was listed, or was replaced by a reconnect.                      *)
THEOREM ConnectInvariance == ConnectSpec => []ConnectInv
<1>1. ConnectInv /\ [ConnectNext]_connectVars => ConnectInv'
  <2> SUFFICES ASSUME ConnectInv, [ConnectNext]_connectVars PROVE ConnectInv'
    OBVIOUS
  <2>1. CASE UNCHANGED connectVars
    <3>1. CallbacksHoldSession'
      BY <2>1 DEF connectVars, ConnectInv, ConnectTypes, CallbacksHoldSession
    <3> QED
      BY <2>1, <3>1, CallbackStepKeeps DEF connectVars
  <2>2. CASE ConnectNext
    BY <2>2, SessionStepKeeps, ReceiveCallbackKeeps, ExchangeCodeKeeps, FindMailboxKeeps,
       StoreConnectionKeeps, CallbackEndsKeeps, KeyStepKeeps, StartRewrapKeeps, RewrapOneKeeps,
       RewrapEndsKeeps DEF ConnectNext
  <2> QED
    BY <2>1, <2>2
<1> QED
  BY <1>1, ConnectInitially, PTL DEF ConnectSpec

(* Sessions, rows, credentials, callbacks and the command stay well-typed.   *)
THEOREM ConnectTypeCorrectness == ConnectSpec => []ConnectTypeOK
<1>1. ConnectInv => ConnectTypeOK
  <2> SUFFICES ASSUME ConnectInv PROVE ConnectTypeOK
    OBVIOUS
  <2> USE DEF ConnectInv, ConnectTypes
  <2>1. session \in [ Sessions -> [ state : { "none", "open", "expired", "completed" },
                                    identity : Identities, mailbox : MailboxIds \cup {NoMailbox} ] ]
    BY DEF CallbacksHoldSession, SessionRows
  <2>2. /\ DOMAIN mailbox \subseteq MailboxIds /\ DOMAIN credential = DOMAIN mailbox
        /\ granted \in [ DOMAIN mailbox -> Callbacks \cup {OldGrant} ]
    BY DEF RowsAreComplete
  <2>3. \A m \in DOMAIN mailbox :
          /\ mailbox[m].identity \in Identities /\ mailbox[m].account \in GmailAccounts
          /\ mailbox[m].ops \in OperationalState
          /\ credential[m] \in CredentialRows
    BY DEF RowsAreComplete, MailboxRows
  <2>4. \A k \in Callbacks :
          /\ callback[k].step \in { "idle", "exchanging", "completing", "storing", "dispatching",
                                    "over" }
          /\ callback[k].sealed \in StoredForms
    BY DEF CallbacksHoldSession, CallbackRecords
  <2>5. active \in KeyIds /\ active \in ring /\ ring \subseteq KeyIds
    BY DEF KeysInUse
  <2>6. /\ rewrap.step \in { "idle", "running", "done" } /\ DOMAIN rewrap.listed \subseteq MailboxIds
        /\ lateSealed \subseteq MailboxIds /\ reconnected \subseteq MailboxIds
    BY <2>2 DEF RewrapHoldsListing, RewrapRecords
  <2> QED
    BY <2>1, <2>2, <2>3, <2>4, <2>5, <2>6 DEF ConnectTypeOK
<1> QED
  BY <1>1, ConnectInvariance, PTL

(* The credential of a mailbox is always the one of its latest connection.   *)
THEOREM CredentialIsLatestAlways == ConnectSpec => []CredentialIsLatest
<1>1. ConnectInv => CredentialIsLatest
  BY DEF ConnectInv
<1> QED
  BY <1>1, ConnectInvariance, PTL

(* The command asks for a new consent only where a token cannot be opened,   *)
(* or where the user has given it since the listing.                         *)
THEOREM MarkedMailboxIsUnreadableAlways == ConnectSpec => []MarkedMailboxIsUnreadable
<1>1. ConnectInv => MarkedMailboxIsUnreadable
  BY DEF ConnectInv
<1> QED
  BY <1>1, ConnectInvariance, PTL

(* After the command every token is sealed with its key, if no rotation came *)
(* meanwhile; the exceptions are the ones it names and the late ones.        *)
THEOREM RewrapRetiresOldKeysAlways == ConnectSpec => []RewrapRetiresOldKeys
<1>1. ConnectInv => RewrapRetiresOldKeys
  <2>1. ConnectInv => DOMAIN credential = DOMAIN mailbox /\ (rewrap.step = "done" => DOMAIN rewrap.listed = {})
    BY DEF ConnectInv, ConnectTypes, RowsAreComplete, RewrapHoldsListing
  <2> QED
    BY <2>1 DEF ConnectInv, RewrappedSoFar, RewrapRetiresOldKeys
<1> QED
  BY <1>1, ConnectInvariance, PTL

-----------------------------------------------------------------------------
(* Google's answers. *)

(* Only tokens that Google has issued are stored or held, and who asks for   *)
(* an access token holds one.                                                *)
TokensAreIssued ==
    /\ refresh \notin NoToken => grants[refresh] # "unissued"
    /\ \A o \in Operations :
         /\ calling[o].token \notin NoToken => grants[calling[o].token] # "unissued"
         /\ calling[o].at = "token" => calling[o].token \notin NoToken
         /\ calling[o].at = "watch" => o = "watch"

(* An operation is in trouble only when it is about to record a problem, and *)
(* the problem tells which trouble, as far as the mailbox row tells it.      *)
ProblemTellsTrouble ==
    \A o \in Operations :
        /\ calling[o].at # "failing" => calling[o].trouble = "none"
        /\ calling[o].at = "failing" =>
             /\ calling[o].code \in TerminalCredentialProblems =>
                  calling[o].token \in NoToken \/ grants[calling[o].token] = "revoked"
             /\ o = "sync" =>
                  (calling[o].trouble \in { "throttle", "cursor" } <=> calling[o].code \in LaggingProblems)

GmailInv == GmailTypeOK /\ TokensAreIssued /\ ProblemTellsTrouble

(* What an operation holds, for GmailTypeOK. *)
OperationRecords ==
    [ at : { "idle", "credential", "token", "profile", "list", "baseline", "history",
             "changed", "watch", "done", "failing" },
      token : Tokens \cup NoToken, waiting : SUBSET Messages,
      code : GmailCodes \cup {NoError},
      trouble : { "none", "grant", "throttle", "cursor", "other" } ]

Steps == { "profile", "list", "baseline", "history", "changed", "watch", "done" }

(* The pairs of a status and a body that an answer may be. *)
LEMMA AnswersAre ==
    ASSUME NEW r \in Answered
    PROVE  /\ \/ r.status = 200 /\ r.body \in { "expected", "other", "text" }
              \/ r.status \in { 400, 404 } /\ r.body = "other"
              \/ r.status = 403 /\ r.body \in { "other", "rate_limit" }
              \/ r.status \in { 429, 503 } /\ r.body = "text"
           /\ r # InvalidGrant
  BY DEF Answered, Response, InvalidGrant

(* What an answer means is what becomes of the operation: nothing, a dead    *)
(* grant, a rate limit, or a problem that is neither.                        *)
MeansWhatItSays(o, code, meant, dropped) ==
    /\ code \in GmailCodes \cup {NoError}
    /\ code = NoError => meant = "none"
    /\ code \in TerminalCredentialProblems => dropped
    /\ o = "sync" => (meant \in { "throttle", "cursor" } <=> code \in LaggingProblems)

LEMMA TokenAnswerIsRead ==
    ASSUME NEW o \in Operations, NEW r \in Answered
    PROVE  MeansWhatItSays(o, TokenProblem(o, r), Meant(r, "token"), FALSE)
  BY AnswersAre DEF MeansWhatItSays, TokenProblem, Meant, IsGmailRateLimitedResponse, Unexpected,
     GmailCodes, LaggingProblems, TerminalCredentialProblems, TransientProviderProblems, NoError,
     Operations

LEMMA InvalidGrantIsRead ==
    ASSUME NEW o \in Operations
    PROVE  MeansWhatItSays(o, TokenProblem(o, InvalidGrant), Meant(InvalidGrant, "token"), TRUE)
  BY DEF MeansWhatItSays, TokenProblem, Meant, InvalidGrant, Response, GmailCodes,
     IsGmailRateLimitedResponse,
     LaggingProblems, TerminalCredentialProblems, NoError

LEMMA FetchedAnswerIsRead ==
    ASSUME NEW o \in Operations, NEW r \in Answered, NEW step \in { "profile", "list" },
           NEW failed \in { "gmail_profile_failed", "gmail_message_list_failed" }
    PROVE  MeansWhatItSays(o, FetchProblem(r, failed), Meant(r, step), FALSE)
  BY AnswersAre DEF MeansWhatItSays, FetchProblem, Meant, IsGmailRateLimitedResponse,
     GmailCodes, LaggingProblems, TerminalCredentialProblems, TransientProviderProblems, NoError

LEMMA MessageAnswerIsRead ==
    ASSUME NEW o \in Operations, NEW r \in Answered, NEW step \in { "baseline", "changed" }
    PROVE  MeansWhatItSays(o, MessageProblem(r), Meant(r, step), FALSE)
  BY AnswersAre DEF MeansWhatItSays, MessageProblem, FetchProblem, Meant,
     IsGmailRateLimitedResponse, GmailCodes, LaggingProblems, TerminalCredentialProblems,
     TransientProviderProblems, NoError

LEMMA HistoryAnswerIsRead ==
    ASSUME NEW o \in Operations, NEW r \in Answered
    PROVE  MeansWhatItSays(o, HistoryProblem(r), Meant(r, "history"), FALSE)
  BY AnswersAre DEF MeansWhatItSays, HistoryProblem, FetchProblem, Meant,
     IsGmailRateLimitedResponse, GmailCodes, LaggingProblems, TerminalCredentialProblems,
     TransientProviderProblems, NoError

LEMMA WatchAnswerIsRead ==
    ASSUME NEW r \in Answered
    PROVE  MeansWhatItSays("watch", WatchProblem(r), Meant(r, "watch"), FALSE)
  BY AnswersAre DEF MeansWhatItSays, WatchProblem, FetchProblem, Meant, Unexpected,
     IsGmailRateLimitedResponse, GmailCodes, LaggingProblems, TerminalCredentialProblems,
     TransientProviderProblems, NoError

LEMMA MeantIsTyped ==
    ASSUME NEW r, NEW step
    PROVE  Meant(r, step) \in { "none", "grant", "throttle", "cursor", "other" }
  BY DEF Meant

LEMMA GmailInitially == GmailInit => GmailInv
<1> SUFFICES ASSUME GmailInit PROVE GmailInv
  OBVIOUS
<1>1. GmailTypeOK
  BY DEF GmailInit, GmailTypeOK, Quiet, NoToken, GmailCodes
<1>2. TokensAreIssued
  BY DEF GmailInit, TokensAreIssued, Quiet, NoToken
<1>3. ProblemTellsTrouble
  BY DEF GmailInit, ProblemTellsTrouble, Quiet
<1> QED
  BY <1>1, <1>2, <1>3 DEF GmailInv

(* An operation goes on with a record that keeps the invariant.              *)
LEMMA OperationStepKeeps ==
    ASSUME GmailInv, NEW o \in Operations, NEW next \in OperationRecords,
           calling' = [ calling EXCEPT ![o] = next ],
           UNCHANGED << grants, refresh >>, gmailOps' = gmailOps,
           next.token \notin NoToken => grants[next.token] # "unissued",
           next.at = "token" => next.token \notin NoToken,
           next.at = "watch" => o = "watch",
           next.at # "failing" => next.trouble = "none",
           next.at = "failing" =>
             /\ next.code \in TerminalCredentialProblems =>
                  next.token \in NoToken \/ grants[next.token] = "revoked"
             /\ o = "sync" =>
                  (next.trouble \in { "throttle", "cursor" } <=> next.code \in LaggingProblems)
    PROVE  GmailInv'
<1>1. calling \in [ Operations -> OperationRecords ]
  BY DEF GmailInv, GmailTypeOK, OperationRecords
<1>2. calling' \in [ Operations -> OperationRecords ]
  BY <1>1
<1>3. GmailTypeOK'
  BY <1>2 DEF GmailInv, GmailTypeOK, OperationRecords
<1>4. \A p \in Operations : calling'[p] = IF p = o THEN next ELSE calling[p]
  BY <1>1
<1>5. TokensAreIssued'
  BY <1>4 DEF GmailInv, TokensAreIssued
<1>6. ProblemTellsTrouble'
  BY <1>4 DEF GmailInv, ProblemTellsTrouble
<1> QED
  BY <1>3, <1>5, <1>6 DEF GmailInv

LEMMA TakesKeeps ==
    ASSUME GmailInv, NEW o \in Operations, NEW r, NEW code, NEW next \in Steps,
           NEW fetched \in SUBSET Messages,
           Takes(o, r, code, next, fetched),
           calling[o].at # "failing",
           next = "watch" => o = "watch",
           MeansWhatItSays(o, code, Meant(r, calling[o].at),
                           calling[o].token \notin NoToken /\ grants[calling[o].token] # "honoured")
    PROVE  GmailInv'
<1> DEFINE c == calling[o]
           meant == Meant(r, c.at)
           then == [ c EXCEPT !.at = IF code = NoError THEN next ELSE "failing",
                              !.waiting = IF code = NoError THEN fetched ELSE {},
                              !.code = code,
                              !.trouble = meant ]
<1>1. c \in OperationRecords /\ c.trouble = "none" /\ gmailOps' = gmailOps
      /\ grants \in [ Tokens -> { "unissued", "honoured", "revoked" } ]
  BY DEF GmailInv, GmailTypeOK, OperationRecords, ProblemTellsTrouble, Takes
<1>2. meant \in { "none", "grant", "throttle", "cursor", "other" }
  BY MeantIsTyped
<1>3. calling' = [ calling EXCEPT ![o] = then ]
  <2>1. meant = IF c.trouble = "none" THEN Meant(r, c.at) ELSE c.trouble
    BY <1>1
  <2>2. calling' = [ calling EXCEPT ![o] =
          [ c EXCEPT !.at = IF code = NoError THEN next ELSE "failing",
                     !.waiting = IF code = NoError THEN fetched ELSE {},
                     !.code = code,
                     !.trouble = IF c.trouble = "none" THEN Meant(r, c.at) ELSE c.trouble ] ]
    BY DEF Takes
  <2> HIDE DEF meant
  <2> QED
    BY <2>1, <2>2
<1>4. code \in GmailCodes \cup {NoError} /\ (code = NoError => meant = "none")
      /\ (o = "sync" => (meant \in { "throttle", "cursor" } <=> code \in LaggingProblems))
  BY DEF MeansWhatItSays
<1>5. code \in TerminalCredentialProblems => grants[c.token] = "revoked"
  BY <1>1 DEF MeansWhatItSays, OperationRecords, GmailInv, TokensAreIssued
<1>6. c.token \notin NoToken => grants[c.token] # "unissued"
  BY DEF GmailInv, TokensAreIssued
<1> HIDE DEF c, meant
<1>7. /\ then \in OperationRecords /\ then.token = c.token /\ then.code = code
      /\ then.trouble = meant
      /\ then.at = IF code = NoError THEN next ELSE "failing"
  BY <1>1, <1>2, <1>4 DEF OperationRecords, Steps
<1> HIDE DEF then
<1>8. then.at \in Steps \cup {"failing"} /\ then.at # "token"
  BY <1>7 DEF Steps
<1>9. then.at = "failing" <=> code # NoError
  BY <1>7 DEF Steps
<1>10. UNCHANGED << grants, refresh >>
  BY DEF Takes
<1> QED
  BY <1>1, <1>3, <1>4, <1>5, <1>6, <1>7, <1>8, <1>9, <1>10, OperationStepKeeps

LEMMA QuietIsTyped ==
    /\ Quiet \in OperationRecords /\ Quiet.at = "idle" /\ Quiet.trouble = "none"
    /\ Quiet.token \in NoToken /\ Quiet.code = NoError
  BY DEF Quiet, OperationRecords, NoToken

LEMMA BeginKeeps ==
    ASSUME GmailInv, NEW o \in Operations, Begin(o)
    PROVE  GmailInv'
<1> DEFINE next == [ Quiet EXCEPT !.at = "credential" ]
<1>1. /\ next \in OperationRecords /\ next.at = "credential" /\ next.trouble = "none"
      /\ next.token \in NoToken
  BY QuietIsTyped DEF OperationRecords
<1>2. calling' = [ calling EXCEPT ![o] = next ] /\ UNCHANGED << grants, refresh >>
      /\ gmailOps' = gmailOps
  BY DEF Begin
<1> HIDE DEF next
<1> QED
  BY <1>1, <1>2, OperationStepKeeps

LEMMA ReadRefreshTokenKeeps ==
    ASSUME GmailInv, NEW o \in Operations, ReadRefreshToken(o)
    PROVE  GmailInv'
<1> DEFINE c == calling[o]
           lost == refresh \in NoToken
           problem == CASE refresh = "missing" -> "gmail_mailbox_credentials_missing"
                        [] refresh = "unreadable" -> "gmail_mailbox_credential_unreadable"
                        [] OTHER -> NoError
           read == [ c EXCEPT !.token = refresh,
                              !.at = IF lost THEN "failing" ELSE "token",
                              !.trouble = IF lost THEN "grant" ELSE "none",
                              !.code = problem ]
           unread == [ c EXCEPT !.at = "failing", !.code = "gmail_mailbox_credential_read_failed",
                                !.trouble = "other" ]
<1>1. /\ c \in OperationRecords /\ refresh \in Tokens \cup NoToken
      /\ (refresh \notin NoToken => grants[refresh] # "unissued")
      /\ c.token \notin NoToken => grants[c.token] # "unissued"
  BY DEF GmailInv, GmailTypeOK, OperationRecords, TokensAreIssued
<1>2. UNCHANGED << grants, refresh >> /\ gmailOps' = gmailOps
  BY DEF ReadRefreshToken
<1>3. /\ problem \in GmailCodes \cup {NoError} /\ problem \notin LaggingProblems
      /\ lost <=> problem # NoError
  BY DEF NoToken, GmailCodes, TerminalCredentialProblems, LaggingProblems, NoError
<1>4. calling' = [ calling EXCEPT ![o] = read ] \/ calling' = [ calling EXCEPT ![o] = unread ]
  BY DEF ReadRefreshToken
<1> HIDE DEF c, problem
<1>5. CASE calling' = [ calling EXCEPT ![o] = read ]
  <2>1. /\ read \in OperationRecords /\ read.token = refresh /\ read.code = problem
        /\ read.at = (IF lost THEN "failing" ELSE "token")
        /\ read.trouble = (IF lost THEN "grant" ELSE "none")
    BY <1>1, <1>3 DEF OperationRecords
  <2> HIDE DEF read
  <2> QED
    BY <1>1, <1>2, <1>3, <1>5, <2>1, OperationStepKeeps
<1>6. CASE calling' = [ calling EXCEPT ![o] = unread ]
  <2>1. /\ "gmail_mailbox_credential_read_failed" \in GmailCodes
        /\ "gmail_mailbox_credential_read_failed" \notin TerminalCredentialProblems \cup LaggingProblems
    BY DEF GmailCodes, TerminalCredentialProblems, LaggingProblems
  <2>2. /\ unread \in OperationRecords /\ unread.at = "failing" /\ unread.trouble = "other"
        /\ unread.code = "gmail_mailbox_credential_read_failed" /\ unread.token = c.token
    BY <1>1, <2>1 DEF OperationRecords
  <2> HIDE DEF unread
  <2> QED
    BY <1>1, <1>2, <1>6, <2>1, <2>2, OperationStepKeeps
<1> QED
  BY <1>4, <1>5, <1>6

LEMMA FetchAccessTokenKeeps ==
    ASSUME GmailInv, NEW o \in Operations, FetchAccessToken(o)
    PROVE  GmailInv'
<1> DEFINE live == grants[calling[o].token] = "honoured"
           answers == IF live THEN Answered
                      ELSE {InvalidGrant} \cup { a \in Answered : a.status \in { 429, 503 } }
           nexts == IF o = "watch" THEN {"watch"} ELSE { "profile", "history" }
<1>1. calling[o].at = "token" /\ calling[o].token \notin NoToken
  BY DEF FetchAccessToken, GmailInv, TokensAreIssued
<1>2. PICK r \in answers, next \in nexts : Takes(o, r, TokenProblem(o, r), next, {})
  BY DEF FetchAccessToken
<1>3. next \in Steps /\ (next = "watch" => o = "watch")
  BY DEF Steps
<1>4. r \in Answered \/ (r = InvalidGrant /\ ~live)
  BY Zenon
<1>5. MeansWhatItSays(o, TokenProblem(o, r), Meant(r, "token"), ~live)
  <2>1. CASE r \in Answered
    BY <2>1, TokenAnswerIsRead DEF MeansWhatItSays
  <2>2. CASE r = InvalidGrant /\ ~live
    BY <2>2, InvalidGrantIsRead DEF MeansWhatItSays
  <2> QED
    BY <1>4, <2>1, <2>2
<1>6. MeansWhatItSays(o, TokenProblem(o, r), Meant(r, calling[o].at),
                      calling[o].token \notin NoToken /\ grants[calling[o].token] # "honoured")
  BY <1>1, <1>5 DEF MeansWhatItSays
<1> QED
  BY <1>1, <1>2, <1>3, <1>6, TakesKeeps

LEMMA GetProfileKeeps ==
    ASSUME GmailInv, NEW o \in Operations, GetProfile(o)
    PROVE  GmailInv'
<1>1. PICK r \in Answered : Takes(o, r, FetchProblem(r, "gmail_profile_failed"), "list", {})
  BY DEF GetProfile
<1>2. calling[o].at = "profile"
  BY DEF GetProfile
<1>3. MeansWhatItSays(o, FetchProblem(r, "gmail_profile_failed"), Meant(r, "profile"), FALSE)
  BY FetchedAnswerIsRead
<1> QED
  BY <1>1, <1>2, <1>3, TakesKeeps DEF Steps, MeansWhatItSays

LEMMA ListAllMessagesKeeps ==
    ASSUME GmailInv, NEW o \in Operations, ListAllMessages(o)
    PROVE  GmailInv'
<1>1. PICK r \in Answered, fetched \in SUBSET Messages :
         Takes(o, r, FetchProblem(r, "gmail_message_list_failed"), "baseline", fetched)
  BY DEF ListAllMessages
<1>2. calling[o].at = "list"
  BY DEF ListAllMessages
<1>3. MeansWhatItSays(o, FetchProblem(r, "gmail_message_list_failed"), Meant(r, "list"), FALSE)
  BY FetchedAnswerIsRead
<1> QED
  BY <1>1, <1>2, <1>3, TakesKeeps DEF Steps, MeansWhatItSays

LEMMA ListHistoryKeeps ==
    ASSUME GmailInv, NEW o \in Operations, ListHistory(o)
    PROVE  GmailInv'
<1>1. PICK r \in Answered, fetched \in SUBSET Messages :
         Takes(o, r, HistoryProblem(r), "changed", fetched)
  BY DEF ListHistory
<1>2. calling[o].at = "history"
  BY DEF ListHistory
<1>3. MeansWhatItSays(o, HistoryProblem(r), Meant(r, "history"), FALSE)
  BY HistoryAnswerIsRead
<1> QED
  BY <1>1, <1>2, <1>3, TakesKeeps DEF Steps, MeansWhatItSays

LEMMA GetMessageKeeps ==
    ASSUME GmailInv, NEW o \in Operations, NEW m \in Messages, GetMessage(o, m)
    PROVE  GmailInv'
<1>1. PICK r \in Answered :
         Takes(o, r, MessageProblem(r), calling[o].at, calling[o].waiting \ {m})
  BY DEF GetMessage
<1>2. calling[o].at \in { "baseline", "changed" } /\ calling[o].waiting \ {m} \subseteq Messages
  BY DEF GetMessage, GmailInv, GmailTypeOK
<1>3. MeansWhatItSays(o, MessageProblem(r), Meant(r, calling[o].at), FALSE)
  BY <1>2, MessageAnswerIsRead
<1> QED
  BY <1>1, <1>2, <1>3, TakesKeeps DEF Steps, MeansWhatItSays

LEMMA WatchMailboxKeeps ==
    ASSUME GmailInv, NEW o \in Operations, WatchMailbox(o)
    PROVE  GmailInv'
<1>1. PICK r \in Answered : Takes(o, r, WatchProblem(r), "done", {})
  BY DEF WatchMailbox
<1>2. calling[o].at = "watch" /\ o = "watch"
  BY DEF WatchMailbox, GmailInv, TokensAreIssued
<1>3. MeansWhatItSays(o, WatchProblem(r), Meant(r, "watch"), FALSE)
  BY <1>2, WatchAnswerIsRead
<1> QED
  BY <1>1, <1>2, <1>3, TakesKeeps DEF Steps, MeansWhatItSays

LEMMA AllFetchedKeeps ==
    ASSUME GmailInv, NEW o \in Operations, AllFetched(o)
    PROVE  GmailInv'
<1> DEFINE next == [ calling[o] EXCEPT !.at = IF calling[o].at = "baseline" THEN "history" ELSE "done" ]
<1>1. /\ calling[o] \in OperationRecords /\ calling[o].trouble = "none"
      /\ calling[o].token \notin NoToken => grants[calling[o].token] # "unissued"
  BY DEF GmailInv, GmailTypeOK, OperationRecords, ProblemTellsTrouble, TokensAreIssued, AllFetched
<1>2. /\ next \in OperationRecords /\ next.at \in { "history", "done" } /\ next.trouble = "none"
      /\ next.token = calling[o].token
  BY <1>1 DEF OperationRecords
<1>3. calling' = [ calling EXCEPT ![o] = next ] /\ UNCHANGED << grants, refresh >>
      /\ gmailOps' = gmailOps
  BY DEF AllFetched
<1> HIDE DEF next
<1> QED
  BY <1>1, <1>2, <1>3, OperationStepKeeps

LEMMA RequestBreaksKeeps ==
    ASSUME GmailInv, NEW o \in Operations, RequestBreaks(o)
    PROVE  GmailInv'
<1> DEFINE next == [ calling[o] EXCEPT !.at = "failing", !.waiting = {},
                                       !.code = Unexpected(o), !.trouble = "other" ]
<1>1. /\ Unexpected(o) \in GmailCodes
      /\ Unexpected(o) \notin TerminalCredentialProblems \cup LaggingProblems
  BY DEF Unexpected, GmailCodes, TransientProviderProblems, TerminalCredentialProblems,
     LaggingProblems
<1>2. /\ calling[o] \in OperationRecords
      /\ calling[o].token \notin NoToken => grants[calling[o].token] # "unissued"
  BY DEF GmailInv, GmailTypeOK, OperationRecords, TokensAreIssued
<1>3. /\ next \in OperationRecords /\ next.at = "failing" /\ next.trouble = "other"
      /\ next.code = Unexpected(o) /\ next.token = calling[o].token
  BY <1>1, <1>2 DEF OperationRecords
<1>4. calling' = [ calling EXCEPT ![o] = next ] /\ UNCHANGED << grants, refresh >>
      /\ gmailOps' = gmailOps
  BY DEF RequestBreaks
<1> HIDE DEF next
<1> QED
  BY <1>1, <1>2, <1>3, <1>4, OperationStepKeeps

(* The end of an operation, whatever it records. *)
LEMMA OperationEndKeeps ==
    ASSUME GmailInv, NEW o \in Operations, Succeed(o) \/ RecordProblem(o) \/ OperationDies(o)
    PROVE  GmailInv'
<1> DEFINE Ops == [ status : { "active", "reconnect_required" },
                    syncState : { "initializing", "healthy", "lagging", "failed" },
                    lastError : GmailCodes \cup {NoError} ]
<1>1. gmailOps \in Ops /\ calling[o].code \in GmailCodes \cup {NoError}
  BY DEF GmailInv, GmailTypeOK
<1>2. gmailOps' \in Ops
  BY <1>1 DEF Succeed, RecordProblem, OperationDies, TransitionForFailedRun,
     TransitionForWatchRenewalFailure
<1>3. calling' = [ calling EXCEPT ![o] = Quiet ] /\ UNCHANGED << grants, refresh >>
  BY DEF Succeed, RecordProblem, OperationDies
<1>4. calling \in [ Operations -> OperationRecords ]
  BY DEF GmailInv, GmailTypeOK, OperationRecords
<1>5. calling' \in [ Operations -> OperationRecords ]
      /\ \A p \in Operations : calling'[p] = IF p = o THEN Quiet ELSE calling[p]
  BY <1>3, <1>4, QuietIsTyped
<1>6. GmailTypeOK'
  BY <1>2, <1>3, <1>5 DEF GmailInv, GmailTypeOK, OperationRecords
<1>7. TokensAreIssued'
  BY <1>3, <1>5, QuietIsTyped DEF GmailInv, TokensAreIssued
<1>8. ProblemTellsTrouble'
  BY <1>3, <1>5, QuietIsTyped DEF GmailInv, ProblemTellsTrouble
<1> QED
  BY <1>6, <1>7, <1>8 DEF GmailInv

LEMMA OthersKeepGmail ==
    ASSUME GmailInv, (\E t \in Tokens : Revoke(t) \/ ConnectAgain(t)) \/ KeyIsRetired
    PROVE  GmailInv'
<1> USE DEF GmailInv, Revoke, ConnectAgain, KeyIsRetired
<1>1. GmailTypeOK'
  <2>1. NoError \in GmailCodes \cup {NoError} /\ "unreadable" \in NoToken
    BY DEF NoToken
  <2> QED
    BY <2>1 DEF GmailTypeOK
<1>2. TokensAreIssued'
  BY DEF GmailTypeOK, TokensAreIssued, NoToken
<1>3. ProblemTellsTrouble'
  BY DEF GmailTypeOK, ProblemTellsTrouble
<1> QED
  BY <1>1, <1>2, <1>3

(* The invariant of Google's answers: an operation that asks for a new       *)
(* consent had no token or one that was dropped, a throttled one says so.    *)
THEOREM GmailInvariance == GmailSpec => []GmailInv
<1>1. GmailInv /\ [GmailNext]_gmailVars => GmailInv'
  <2> SUFFICES ASSUME GmailInv, [GmailNext]_gmailVars PROVE GmailInv'
    OBVIOUS
  <2>1. CASE UNCHANGED gmailVars
    BY <2>1 DEF gmailVars, GmailInv, GmailTypeOK, TokensAreIssued, ProblemTellsTrouble
  <2>2. CASE GmailNext
    BY <2>2, BeginKeeps, ReadRefreshTokenKeeps, FetchAccessTokenKeeps, GetProfileKeeps,
       ListAllMessagesKeeps, ListHistoryKeeps, AllFetchedKeeps, WatchMailboxKeeps,
       RequestBreaksKeeps, OperationEndKeeps, GetMessageKeeps, OthersKeepGmail DEF GmailNext
  <2> QED
    BY <2>1, <2>2
<1> QED
  BY <1>1, GmailInitially, PTL DEF GmailSpec

(* Tokens, the mailbox row and both operations stay well-typed. *)
THEOREM GmailTypeCorrectness == GmailSpec => []GmailTypeOK
<1>1. GmailInv => GmailTypeOK
  BY DEF GmailInv
<1> QED
  BY <1>1, GmailInvariance, PTL

(* The end of an operation is where it is done or fails: no other step lets  *)
(* it rest and changes the mailbox row.                                      *)
LEMMA RestingIsAnEnd ==
    ASSUME GmailInv, GmailNext, NEW o \in Operations,
           calling'[o].at = "idle", calling[o].at \in { "done", "failing" }, gmailOps' # gmailOps
    PROVE  Succeed(o) \/ RecordProblem(o)
<1> USE DEF GmailInv, GmailTypeOK, Operations
<1>1. CASE \E p \in Operations :
              Begin(p) \/ ReadRefreshToken(p) \/ AllFetched(p) \/ RequestBreaks(p) \/ OperationDies(p)
  BY <1>1 DEF Begin, ReadRefreshToken, AllFetched, RequestBreaks, OperationDies
<1>2. CASE \E p \in Operations :
              \/ FetchAccessToken(p) \/ GetProfile(p) \/ ListAllMessages(p) \/ ListHistory(p)
              \/ WatchMailbox(p) \/ \E m \in Messages : GetMessage(p, m)
  BY <1>2, ZenonT(60) DEF FetchAccessToken, GetProfile, ListAllMessages, ListHistory, WatchMailbox,
     GetMessage, Takes
<1>3. CASE \E p \in Operations : p # o /\ (Succeed(p) \/ RecordProblem(p))
  BY <1>3 DEF Succeed, RecordProblem
<1>4. CASE (\E t \in Tokens : Revoke(t) \/ ConnectAgain(t)) \/ KeyIsRetired
  BY <1>4 DEF Revoke, ConnectAgain, KeyIsRetired
<1> QED
  BY <1>1, <1>2, <1>3, <1>4 DEF GmailNext

(* Whatever Google answers, in whatever order, and whatever becomes of the   *)
(* grant meanwhile: the row asks for a new consent, is healthy or lags only  *)
(* for what really was the trouble.                                          *)
THEOREM VerdictFollowsGoogleAlways == GmailSpec => VerdictFollowsGoogle
<1> DEFINE Verdict ==
      \A o \in Operations :
          LET c == calling[o] IN
          calling'[o].at = "idle" /\ c.at \in { "done", "failing" } /\ gmailOps' # gmailOps =>
             /\ gmailOps'.status # gmailOps.status =>
                   /\ gmailOps'.status = "reconnect_required"
                   /\ c.token \in NoToken \/ grants[c.token] = "revoked"
             /\ c.at = "done" => c.trouble = "none"
             /\ o = "sync" /\ c.trouble \in { "throttle", "cursor" } =>
                   gmailOps'.syncState = "lagging"
             /\ gmailOps'.syncState = "lagging" /\ gmailOps.syncState # "lagging" =>
                   c.trouble \in { "throttle", "cursor" }
<1>1. GmailInv /\ [GmailNext]_gmailVars => [Verdict]_gmailVars
  <2> SUFFICES ASSUME GmailInv, GmailNext, NEW o \in Operations,
                      calling'[o].at = "idle", calling[o].at \in { "done", "failing" },
                      gmailOps' # gmailOps
               PROVE  /\ gmailOps'.status # gmailOps.status =>
                           /\ gmailOps'.status = "reconnect_required"
                           /\ calling[o].token \in NoToken \/ grants[calling[o].token] = "revoked"
                      /\ calling[o].at = "done" => calling[o].trouble = "none"
                      /\ o = "sync" /\ calling[o].trouble \in { "throttle", "cursor" } =>
                           gmailOps'.syncState = "lagging"
                      /\ gmailOps'.syncState = "lagging" /\ gmailOps.syncState # "lagging" =>
                           calling[o].trouble \in { "throttle", "cursor" }
    BY DEF gmailVars
  <2>1. gmailOps \in [ status : { "active", "reconnect_required" },
                       syncState : { "initializing", "healthy", "lagging", "failed" },
                       lastError : GmailCodes \cup {NoError} ]
    BY DEF GmailInv, GmailTypeOK
  <2>2. CASE Succeed(o)
    BY <2>1, <2>2 DEF Succeed, GmailInv, ProblemTellsTrouble
  <2>3. CASE RecordProblem(o)
    <3>1. calling[o].at = "failing"
      BY <2>3 DEF RecordProblem
    <3>2. /\ calling[o].code \in TerminalCredentialProblems =>
               calling[o].token \in NoToken \/ grants[calling[o].token] = "revoked"
          /\ o = "sync" =>
               (calling[o].trouble \in { "throttle", "cursor" } <=> calling[o].code \in LaggingProblems)
      BY <3>1 DEF GmailInv, ProblemTellsTrouble
    <3>3. CASE o = "sync"
      <4>1. gmailOps' = TransitionForFailedRun(gmailOps, calling[o].code)
        BY <2>3, <3>3 DEF RecordProblem
      <4> QED
        BY <2>1, <3>1, <3>2, <3>3, <4>1 DEF TransitionForFailedRun
    <3>4. CASE o # "sync"
      <4>1. gmailOps' = TransitionForWatchRenewalFailure(gmailOps, calling[o].code)
        BY <2>3, <3>4 DEF RecordProblem
      <4> QED
        BY <2>1, <3>1, <3>2, <3>4, <4>1 DEF TransitionForWatchRenewalFailure
    <3> QED
      BY <3>3, <3>4
  <2> QED
    BY <2>2, <2>3, RestingIsAnEnd
<1> QED
  BY <1>1, GmailInvariance, PTL DEF GmailSpec, VerdictFollowsGoogle

=============================================================================
