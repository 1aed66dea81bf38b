----------------------- MODULE MailboxOperationalState -----------------------
(***************************************************************************)
(* The operational columns of a mailbox row (status, sync state, last      *)
(* error) and the transitions that packages/core/src/                      *)
(* mailbox-operational-state.ts computes for them.  A transition maps the  *)
(* columns before it to the columns after it: a field the TypeScript       *)
(* object leaves out keeps its value.  Only the code of the last error is  *)
(* kept; its message and timestamp are wording.                            *)
(***************************************************************************)

NoError == "no_error"

(* The codes that ask for a new OAuth consent. *)
TerminalCredentialProblems ==
    { "gmail_mailbox_credentials_missing",
      "gmail_mailbox_credential_unreadable",
      "gmail_token_refresh_reconnect_required" }

(* What the Gmail adapter may raise besides a credential problem. *)
TransientProviderProblems ==
    { "gmail_history_cursor_invalid", "gmail_rate_limited", "gmail_sync_failed" }

(* The codes that start with gmail_watch_. *)
WatchCodes ==
    { "gmail_watch_renewal_failed", "gmail_watch_topic_missing", "gmail_watch_response_invalid" }

(* Whatever ends the renewal of a watch, as MailboxWatchProvider raises it.  *)
WatchRenewalProblems ==
    WatchCodes \cup TerminalCredentialProblems
        \cup { "gmail_rate_limited", "gmail_token_refresh_failed", "gmail_oauth_config_missing",
               "gmail_mailbox_credential_read_failed" }

LaggingProblems ==
    { "gmail_history_cursor_invalid", "mailbox_cursor_regressed", "gmail_rate_limited" }

SyncProblems ==
    TerminalCredentialProblems \cup TransientProviderProblems
        \cup { "mailbox_cursor_regressed", "mailbox_sync_lease_lost" }

ErrorCodes ==
    SyncProblems \cup WatchRenewalProblems
        \cup { NoError, "mailbox_sync_dispatch_retry_exhausted",
               "stuck_mailbox_execution_recovered" }

OperationalState ==
    [ status    : {"active", "reconnect_required"},
      syncState : {"initializing", "healthy", "lagging", "failed"},
      lastError : ErrorCodes ]

(* Mutant: the problem code is recorded as the outcome. *)
UnclassifiedOutcome(problem) == problem

(* classifyAcquiredExecutionFailure: the outcome a sync run is closed with. *)
OutcomeOf(problem) ==
    IF problem \in TerminalCredentialProblems THEN "reconnect_required"
    ELSE IF problem = "mailbox_sync_lease_lost" THEN "lease_lost"
    ELSE "failed_after_lease_acquired"

(* Mutant: the failure is recorded and the sync state left alone. *)
TransitionKeepingSyncState(ops, problem) == [ ops EXCEPT !.lastError = problem ]

(* transitionForCompletedSyncRun, for a run closed with a problem. *)
TransitionForFailedRun(ops, problem) ==
    [ ops EXCEPT
        !.lastError = problem,
        !.status    = IF problem \in TerminalCredentialProblems
                      THEN "reconnect_required" ELSE @,
        !.syncState = IF problem \in LaggingProblems THEN "lagging" ELSE "failed" ]

(* transitionForDispatchRetryExhausted. *)
TransitionForDispatchRetryExhausted(ops) ==
    [ ops EXCEPT !.lastError = "mailbox_sync_dispatch_retry_exhausted",
                 !.syncState = "failed" ]

(* transitionForStuckExecutionRecovery. *)
TransitionForStuckExecutionRecovery(ops) ==
    [ ops EXCEPT !.lastError = "stuck_mailbox_execution_recovered",
                 !.syncState = "lagging" ]

(* transitionForCredentialUnreadable. *)
TransitionForCredentialUnreadable(ops) ==
    [ ops EXCEPT !.lastError = "gmail_mailbox_credential_unreadable",
                 !.status = "reconnect_required",
                 !.syncState = "failed" ]

(* Mutant: the sync state of a lost credential is written into the status. *)
TransitionToFailedStatus(ops, problem) ==
    [ ops EXCEPT
        !.lastError = problem,
        !.status    = IF problem \in TerminalCredentialProblems THEN "failed" ELSE @ ]

(* transitionForWatchRenewalFailure, for what concerns these columns. *)
TransitionForWatchRenewalFailure(ops, problem) ==
    [ ops EXCEPT
        !.lastError = problem,
        !.status    = IF problem \in TerminalCredentialProblems
                      THEN "reconnect_required" ELSE @,
        !.syncState = IF problem \in TerminalCredentialProblems THEN "failed" ELSE @ ]

=============================================================================
