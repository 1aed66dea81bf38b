---------------------------- MODULE WatchRenewal ----------------------------
(***************************************************************************)
(* The Gmail watch of ONE mailbox row: renewal jobs, each a chain of a     *)
(* listing, a mark, the read of the credential, a call of Gmail with it    *)
(* and a completion that reads the row before it writes it, beside syncs   *)
(* and reconnects that write the same row.  The listing's FOR UPDATE SKIP  *)
(* LOCKED ends with its statement, so that two jobs may well renew the     *)
(* same mailbox.                                                           *)
(***************************************************************************)
EXTENDS Naturals, MailboxOperationalState

CONSTANTS
    Renewers,      \* concurrent renewals of the mailbox
    Accounts,      \* Gmail accounts that a reconnect may choose
    WatchProblems, \* how Gmail may refuse a renewal
    WatchTTL,      \* how long Gmail keeps a watch (seven days)
    RenewalWindow, \* renewalWindowMs (24 hours)
    WatchMaxTime   \* bound: the clock stops here

ASSUME WatchAssumption ==
    /\ WatchTTL \in Nat \ {0} /\ RenewalWindow \in Nat /\ WatchMaxTime \in Nat
    /\ Accounts # {}

VARIABLES
    clock,
    gmailUntil, \* Gmail: the end of every account's watch, 0 when there is none
    account,    \* mailboxes.email_address
    rowOps,     \* mailboxes: status, sync_state, last_error
    rowWatch,   \* mailboxes.watch_state
    rowUntil,   \* mailboxes.watch_expiration_at, 0 when null
    renewing,   \* every renewal: where it stands, when it began, what it holds
    lastSync,   \* history: how the last sync since the last connect has ended
    strayed     \* history: watch_expiration_at comes from another account's watch

rowVars == << account, rowOps, rowWatch, rowUntil >>
watchVars == << clock, gmailUntil, rowVars, renewing, lastSync, strayed >>

IsWatchProblem(code) == code \in WatchCodes

ASSUME WatchProblemsAssumption == WatchProblems \subseteq WatchRenewalProblems

NoAccount == "no account"

AtRest == [ step |-> "idle", began |-> 0, held |-> NoAccount, until |-> 0, clears |-> FALSE,
            problem |-> NoError ]

WatchTypeOK ==
    /\ clock \in Nat /\ gmailUntil \in [ Accounts -> Nat ]
    /\ account \in Accounts
    /\ rowOps \in [ status : { "active", "reconnect_required" },
                    syncState : { "initializing", "healthy", "lagging", "failed" },
                    lastError : ErrorCodes ]
    /\ rowWatch \in { "active", "expiring", "expired", "unhealthy" }
    /\ rowUntil \in Nat
    /\ renewing \in [ Renewers ->
           [ step : { "idle", "listed", "marked", "credential", "watched", "clearing", "failing" },
             began : Nat, held : Accounts \cup {NoAccount}, until : Nat, clears : BOOLEAN,
             problem : WatchProblems \cup {NoError} ] ]
    /\ lastSync \in { "none", "completed", "failed" } /\ strayed \in BOOLEAN

(* A mailbox as completeMailboxConnectSession leaves it. *)
WatchInit ==
    /\ clock = 1
    /\ gmailUntil = [ a \in Accounts |-> 0 ]
    /\ account \in Accounts
    /\ rowOps = [ status |-> "active", syncState |-> "initializing", lastError |-> NoError ]
    /\ rowWatch = "expired" /\ rowUntil = 0
    /\ renewing = [ j \in Renewers |-> AtRest ]
    /\ lastSync = "none" /\ strayed = FALSE

-----------------------------------------------------------------------------

ToStep(j, from, to) ==
    /\ renewing[j].step = from
    /\ renewing' = [ renewing EXCEPT ![j].step = to ]

(* listMailboxWatchesNeedingRenewal's WHERE clause. *)
NeedsRenewal ==
    /\ rowOps.status = "active"
    /\ \/ rowUntil = 0
       \/ rowUntil <= clock + RenewalWindow
       \/ rowWatch \in { "expired", "expiring", "unhealthy" }

ListWatch(j) ==
    /\ renewing[j].step = "idle"
    /\ NeedsRenewal
    /\ renewing' = [ renewing EXCEPT ![j] = [ AtRest EXCEPT !.step = "listed", !.began = clock ] ]
    /\ UNCHANGED << clock, gmailUntil, rowVars, lastSync, strayed >>

(* markMailboxWatchRenewalStarted compares with the time the job began.      *)
MarkRenewal(j) ==
    /\ ToStep(j, "listed", "marked")
    /\ rowWatch' = IF rowUntil # 0 /\ rowUntil <= renewing[j].began
                   THEN "expired" ELSE "expiring"
    /\ UNCHANGED << clock, gmailUntil, account, rowOps, rowUntil, lastSync, strayed >>

(* renewMailboxWatch reads the stored credential, which is that of the       *)
(* account the row has now.                                                  *)
ReadCredential(j) ==
    /\ renewing[j].step = "marked"
    /\ renewing' = [ renewing EXCEPT ![j].step = "credential", ![j].held = account ]
    /\ UNCHANGED << clock, gmailUntil, rowVars, lastSync, strayed >>

(* It exchanges the token and asks: Gmail watches the account of the token.  *)
AskGmail(j) ==
    /\ renewing[j].step = "credential"
    /\ renewing' = [ renewing EXCEPT ![j] = [ AtRest EXCEPT !.step = "watched",
                                                            !.held = renewing[j].held,
                                                            !.until = clock + WatchTTL ] ]
    /\ gmailUntil' = [ gmailUntil EXCEPT ![renewing[j].held] = clock + WatchTTL ]
    /\ UNCHANGED << clock, rowVars, lastSync, strayed >>

(* There is no credential to read, or the exchange or the call fails.        *)
RenewalFails(j, problem) ==
    /\ renewing[j].step \in { "marked", "credential" }
    /\ renewing' = [ renewing EXCEPT ![j] = [ AtRest EXCEPT !.step = "failing",
                                                            !.began = renewing[j].began,
                                                            !.problem = problem ] ]
    /\ UNCHANGED << clock, gmailUntil, rowVars, lastSync, strayed >>

(* completeMailboxWatchRenewal's first statement. *)
ReadLastError(j) ==
    /\ renewing[j].step = "watched"
    /\ renewing' = [ renewing EXCEPT ![j].step = "clearing",
                                     ![j].clears = IsWatchProblem(rowOps.lastError) ]
    /\ UNCHANGED << clock, gmailUntil, rowVars, lastSync, strayed >>

(* Mutant: a watch is taken to last from its completion on. *)
LastsFromNow(j) == clock + WatchTTL

(* Gmail's answer, as it was given. *)
LastsAsGmailSaid(j) == renewing[j].until

(* Mutant: with the error gone, the mailbox is taken for healthy. *)
ClearedAndHealthy == [ rowOps EXCEPT !.lastError = NoError, !.syncState = "healthy" ]

ErrorCleared == [ rowOps EXCEPT !.lastError = NoError ]

(* Its second statement, by id: whatever happened to the row meanwhile. *)
CompleteRenewal(j) ==
    /\ renewing[j].step = "clearing"
    /\ rowOps' = IF renewing[j].clears THEN ErrorCleared ELSE rowOps
    /\ rowWatch' = "active"
    /\ rowUntil' = LastsAsGmailSaid(j)
    /\ strayed' = (renewing[j].held # account)
    /\ renewing' = [ renewing EXCEPT ![j] = AtRest ]
    /\ UNCHANGED << clock, gmailUntil, account, lastSync >>

(* failMailboxWatchRenewal: whatever the last error was, it is replaced.     *)
FailRenewal(j) ==
    /\ renewing[j].step = "failing"
    /\ rowOps' = TransitionForWatchRenewalFailure(rowOps, renewing[j].problem)
    /\ rowWatch' = IF rowUntil # 0 /\ rowUntil <= renewing[j].began
                   THEN "expired" ELSE "unhealthy"
    /\ renewing' = [ renewing EXCEPT ![j] = AtRest ]
    /\ UNCHANGED << clock, gmailUntil, account, rowUntil, lastSync, strayed >>

RenewerDies(j) ==
    /\ renewing[j].step # "idle"
    /\ renewing' = [ renewing EXCEPT ![j] = AtRest ]
    /\ UNCHANGED << clock, gmailUntil, rowVars, lastSync, strayed >>

-----------------------------------------------------------------------------
(* Others. *)

(* finalizeMailboxSyncCommit; a sync that was running while a renewal lost   *)
(* the consent still commits.                                                *)
SyncCompletes ==
    /\ rowOps' = [ rowOps EXCEPT !.lastError = NoError, !.syncState = "healthy" ]
    /\ lastSync' = "completed"
    /\ UNCHANGED << clock, gmailUntil, account, rowWatch, rowUntil, renewing, strayed >>

(* completeSyncRun.  The recovery of a stuck execution and the end of the    *)
(* retries of a dispatch write what a transient problem writes here.         *)
SyncFails ==
    /\ \E problem \in { "gmail_rate_limited", "gmail_token_refresh_reconnect_required" } :
          rowOps' = TransitionForFailedRun(rowOps, problem)
    /\ lastSync' = "failed"
    /\ UNCHANGED << clock, gmailUntil, account, rowWatch, rowUntil, renewing, strayed >>

(* completeConnectSession on an existing row; the account may be another one *)
(* (the row is found by its external id), and Gmail goes on watching the old *)
(* one.                                                                      *)
ReconnectAs(a) ==
    /\ account' = a
    /\ rowOps' = [ status |-> "active", syncState |-> "initializing", lastError |-> NoError ]
    /\ rowWatch' = "expired" /\ rowUntil' = 0
    /\ lastSync' = "none" /\ strayed' = FALSE
    /\ UNCHANGED << clock, gmailUntil, renewing >>

TimePasses ==
    /\ clock < WatchMaxTime
    /\ clock' = clock + 1
    /\ UNCHANGED << gmailUntil, rowVars, renewing, lastSync, strayed >>

WatchNext ==
    \/ \E j \in Renewers :
         \/ ListWatch(j) \/ MarkRenewal(j) \/ ReadCredential(j) \/ AskGmail(j)
         \/ ReadLastError(j) \/ CompleteRenewal(j) \/ FailRenewal(j) \/ RenewerDies(j)
         \/ \E p \in WatchProblems : RenewalFails(j, p)
    \/ SyncCompletes \/ SyncFails
    \/ \E a \in Accounts : ReconnectAs(a)
    \/ TimePasses

WatchSpec == WatchInit /\ [][WatchNext]_watchVars

-----------------------------------------------------------------------------

(* A mailbox that Gmail no longer watches is found by the next renewal job,  *)
(* however jobs, syncs and reconnects interleave and wherever jobs die: the  *)
(* row promises no watch that is not there.  Only a renewal that has held    *)
(* the token of an account that was then replaced leaves such a promise, and *)
(* that promise runs out within the lifetime of one watch.                   *)
UnwatchedMailboxIsListed ==
    rowOps.status = "active" /\ gmailUntil[account] <= clock =>
        NeedsRenewal \/ (strayed /\ rowUntil <= clock + WatchTTL)

(* A failed renewal replaces the error of a failed sync by its own, and the  *)
(* next completion, or one that has read the row before, wipes either: the   *)
(* error column may forget a failed sync.  The sync state does not.  A       *)
(* mailbox whose last sync failed never looks healthy, and one whose last    *)
(* sync completed looks ill only when its consent is lost.                   *)
SyncStateTellsLastSync ==
    /\ lastSync = "failed" => rowOps.syncState \in { "lagging", "failed" }
    /\ lastSync = "completed" /\ rowOps.status = "active" => rowOps.syncState = "healthy"

=============================================================================
