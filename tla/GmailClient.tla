----------------------------- MODULE GmailClient -----------------------------
(***************************************************************************)
(* What the Gmail adapter makes of Google's answers: a sync and a watch    *)
(* renewal of ONE mailbox, each a chain of HTTP requests begun from a      *)
(* credential it read once, beside a user who revokes the grant and        *)
(* connects again.  A problem ends the chain, is classified, and is        *)
(* recorded on the mailbox whatever became of the credential meanwhile.    *)
(* Messages are fetched all at once, and the first problem wins.           *)
(***************************************************************************)
EXTENDS Naturals, MailboxOperationalState

CONSTANTS
    Tokens,   \* the refresh tokens that Google issues
    Messages  \* the messages of the mailbox

VARIABLES
    grants,     \* Google: what became of every refresh token
    refresh,    \* gmail_mailbox_credentials: a token, or why there is none
    gmailOps,   \* mailboxes: status, sync_state, last_error
    calling     \* the two operations: their next request, what they hold

gmailVars == << grants, refresh, gmailOps, calling >>

Operations == { "sync", "watch" }
NoToken == { "missing", "unreadable" }

(* A response is a status and what its body is to the code that reads it:    *)
(* the expected object, another JSON value, an OAuth error invalid_grant, a  *)
(* list of errors with a rate-limit reason, or no JSON.                      *)
Response(status, body) == [ status |-> status, body |-> body ]

Answered == { Response(200, "expected"), Response(200, "other"), Response(200, "text"),
              Response(400, "other"), Response(403, "other"),
              Response(403, "rate_limit"), Response(404, "other"), Response(429, "text"),
              Response(503, "text") }

(* Google's refusal of a dead refresh token. *)
InvalidGrant == Response(400, "invalid_grant")

GmailCodes ==
    TerminalCredentialProblems \cup TransientProviderProblems \cup
        { "gmail_mailbox_credential_read_failed", "gmail_token_refresh_failed",
          "gmail_profile_failed", "gmail_message_list_failed", "gmail_message_failed",
          "gmail_history_failed", "gmail_watch_renewal_failed" }

Quiet == [ at |-> "idle", token |-> "missing", waiting |-> {}, code |-> NoError,
           trouble |-> "none" ]

GmailTypeOK ==
    /\ grants \in [ Tokens -> { "unissued", "honoured", "revoked" } ]
    /\ refresh \in Tokens \cup NoToken
    /\ gmailOps \in [ status : { "active", "reconnect_required" },
                      syncState : { "initializing", "healthy", "lagging", "failed" },
                      lastError : GmailCodes \cup {NoError} ]
    /\ calling \in [ Operations ->
           [ at : { "idle", "credential", "token", "profile", "list", "baseline", "history",
                    "changed", "watch", "done", "failing" },
             token : Tokens \cup NoToken, waiting : SUBSET Messages,
             code : GmailCodes \cup {NoError},
             trouble : { "none", "grant", "throttle", "cursor", "other" } ] ]

GmailInit ==
    /\ refresh \in Tokens \cup {"missing"}
    /\ grants = [ t \in Tokens |-> IF t = refresh THEN "honoured" ELSE "unissued" ]
    /\ gmailOps = [ status |-> "active", syncState |-> "initializing", lastError |-> NoError ]
    /\ calling = [ o \in Operations |-> Quiet ]

-----------------------------------------------------------------------------
(* Problems. *)

(* isGmailRateLimitedResponse. *)
IsGmailRateLimitedResponse(r) == r.status = 429 \/ (r.status = 403 /\ r.body = "rate_limit")

(* What any other exception becomes, at the end of the chain. *)
Unexpected(o) == IF o = "sync" THEN "gmail_sync_failed" ELSE "gmail_watch_renewal_failed"

(* Mutant: Google's refusal of any token request is taken for a revoked grant. *)
RefusedMeansRevoked(o, r) ==
    IF r.status = 200 /\ r.body = "expected" THEN NoError
    ELSE IF IsGmailRateLimitedResponse(r) THEN "gmail_rate_limited"
    ELSE IF r.status \in 400 .. 499 THEN "gmail_token_refresh_reconnect_required"
    ELSE "gmail_token_refresh_failed"

(* fetchAccessToken: the body is looked at first, whatever the status; a     *)
(* body that is no JSON throws, and only of a success.                       *)
TokenProblem(o, r) ==
    CASE r.status # 200 /\ r.body = "invalid_grant" -> "gmail_token_refresh_reconnect_required"
      [] r.status # 200 /\ IsGmailRateLimitedResponse(r) -> "gmail_rate_limited"
      [] r.status = 200 /\ r.body = "expected" -> NoError
      [] r.status = 200 /\ r.body = "text" -> Unexpected(o)
      [] OTHER -> "gmail_token_refresh_failed"

(* A GET of the Gmail API: a body that is no JSON reads as null, and the     *)
(* parser refuses it.  failed stands for both gmail_..._fetch_failed and     *)
(* gmail_..._response_invalid, which nothing tells apart.                    *)
FetchProblem(r, failed) ==
    CASE IsGmailRateLimitedResponse(r) -> "gmail_rate_limited"
      [] r.status = 200 /\ r.body = "expected" -> NoError
      [] OTHER -> failed

(* getMessage: a message that is gone by now is no problem. *)
MessageProblem(r) == IF r.status = 404 THEN NoError ELSE FetchProblem(r, "gmail_message_failed")

(* listGmailHistoryPages. *)
HistoryProblem(r) ==
    IF r.status = 404 THEN "gmail_history_cursor_invalid" ELSE FetchProblem(r, "gmail_history_failed")

(* postJson reads the body of every answer, so that a throttle without JSON  *)
(* is an unexpected error and no rate limit.                                 *)
WatchProblem(r) ==
    IF r.body = "text" THEN Unexpected("watch")
    ELSE FetchProblem(r, "gmail_watch_renewal_failed")

(* History: what Google's answer r meant to an operation, whatever the code  *)
(* makes of it.                                                              *)
Meant(r, at) ==
    CASE r = InvalidGrant -> "grant"
      [] r.status = 200 /\ r.body = "expected" -> "none"
      [] r.status = 404 /\ at \in { "baseline", "changed" } -> "none"
      [] r.status = 404 /\ at = "history" -> "cursor"
      [] r.status = 429 \/ r.body = "rate_limit" -> "throttle"
      [] OTHER -> "other"

-----------------------------------------------------------------------------
(* The operations. *)

(* A sync under the mailbox's lease, or a renewal: both of active mailboxes. *)
Begin(o) ==
    /\ calling[o].at = "idle"
    /\ gmailOps.status = "active"
    /\ calling' = [ calling EXCEPT ![o] = [ Quiet EXCEPT !.at = "credential" ] ]
    /\ UNCHANGED << grants, refresh, gmailOps >>

(* getGmailMailboxCredential, with the failures of its caller. *)
ReadRefreshToken(o) ==
    /\ calling[o].at = "credential"
    /\ \/ calling' = [ calling EXCEPT ![o] =
             [ @ EXCEPT !.token = refresh,
                        !.at = IF refresh \in NoToken THEN "failing" ELSE "token",
                        !.trouble = IF refresh \in NoToken THEN "grant" ELSE "none",
                        !.code = CASE refresh = "missing" -> "gmail_mailbox_credentials_missing"
                                   [] refresh = "unreadable" -> "gmail_mailbox_credential_unreadable"
                                   [] OTHER -> NoError ] ]
       \/ calling' = [ calling EXCEPT ![o] =
             [ @ EXCEPT !.at = "failing", !.code = "gmail_mailbox_credential_read_failed",
                        !.trouble = "other" ] ]
    /\ UNCHANGED << grants, refresh, gmailOps >>

(* Operation o has the answer r to the request it is at, which is the        *)
(* problem code or else leads to the next one.                               *)
Takes(o, r, code, next, fetched) ==
    /\ calling' = [ calling EXCEPT ![o] =
          [ @ EXCEPT !.at = IF code = NoError THEN next ELSE "failing",
                     !.waiting = IF code = NoError THEN fetched ELSE {},
                     !.code = code,
                     !.trouble = IF calling[o].trouble = "none" THEN Meant(r, calling[o].at)
                                 ELSE calling[o].trouble ] ]
    /\ UNCHANGED << grants, refresh, gmailOps >>

(* A stored cursor goes straight to the history; none asks for a baseline.   *)
FetchAccessToken(o) ==
    /\ calling[o].at = "token"
    /\ \E r \in IF grants[calling[o].token] = "honoured" THEN Answered
                ELSE {InvalidGrant} \cup { a \in Answered : a.status \in { 429, 503 } } :
         \E next \in IF o = "watch" THEN {"watch"} ELSE { "profile", "history" } :
            Takes(o, r, TokenProblem(o, r), next, {})

GetProfile(o) ==
    /\ calling[o].at = "profile"
    /\ \E r \in Answered : Takes(o, r, FetchProblem(r, "gmail_profile_failed"), "list", {})

(* The last page of a listing or of the history; an earlier one that fails   *)
(* ends the operation as the last one does.                                  *)
ListAllMessages(o) ==
    /\ calling[o].at = "list"
    /\ \E r \in Answered, fetched \in SUBSET Messages :
          Takes(o, r, FetchProblem(r, "gmail_message_list_failed"), "baseline", fetched)

ListHistory(o) ==
    /\ calling[o].at = "history"
    /\ \E r \in Answered, fetched \in SUBSET Messages :
          Takes(o, r, HistoryProblem(r), "changed", fetched)

(* Promise.all: in any order, and the rest is left to itself after the first *)
(* problem.                                                                  *)
GetMessage(o, m) ==
    /\ calling[o].at \in { "baseline", "changed" }
    /\ m \in calling[o].waiting
    /\ \E r \in Answered :
          Takes(o, r, MessageProblem(r), calling[o].at, calling[o].waiting \ {m})

AllFetched(o) ==
    /\ calling[o].at \in { "baseline", "changed" }
    /\ calling[o].waiting = {}
    /\ calling' = [ calling EXCEPT ![o].at = IF @ = "baseline" THEN "history" ELSE "done" ]
    /\ UNCHANGED << grants, refresh, gmailOps >>

(* watchMailbox. *)
WatchMailbox(o) ==
    /\ calling[o].at = "watch"
    /\ \E r \in Answered : Takes(o, r, WatchProblem(r), "done", {})

(* fetch rejects: no answer at all. *)
RequestBreaks(o) ==
    /\ calling[o].at \notin { "idle", "credential", "done", "failing" }
    /\ calling' = [ calling EXCEPT ![o].at = "failing", ![o].waiting = {},
                                   ![o].code = Unexpected(o), ![o].trouble = "other" ]
    /\ UNCHANGED << grants, refresh, gmailOps >>

(* finalizeMailboxSyncCommit; a renewal clears an error of its own kind only. *)
Succeed(o) ==
    /\ calling[o].at = "done"
    /\ gmailOps' = IF o = "sync"
                   THEN [ gmailOps EXCEPT !.syncState = "healthy", !.lastError = NoError ]
                   ELSE [ gmailOps EXCEPT !.lastError =
                             IF @ = "gmail_watch_renewal_failed" THEN NoError ELSE @ ]
    /\ calling' = [ calling EXCEPT ![o] = Quiet ]
    /\ UNCHANGED << grants, refresh >>

(* completeAcquiredExecutionFailure, failMailboxWatchRenewal. *)
RecordProblem(o) ==
    /\ calling[o].at = "failing"
    /\ gmailOps' = IF o = "sync" THEN TransitionForFailedRun(gmailOps, calling[o].code)
                   ELSE TransitionForWatchRenewalFailure(gmailOps, calling[o].code)
    /\ calling' = [ calling EXCEPT ![o] = Quiet ]
    /\ UNCHANGED << grants, refresh >>

OperationDies(o) ==
    /\ calling[o].at # "idle"
    /\ calling' = [ calling EXCEPT ![o] = Quiet ]
    /\ UNCHANGED << grants, refresh, gmailOps >>

-----------------------------------------------------------------------------
(* The user, Google, and the operator who retires a key. *)

Revoke(t) ==
    /\ grants[t] = "honoured"
    /\ grants' = [ grants EXCEPT ![t] = "revoked" ]
    /\ UNCHANGED << refresh, gmailOps, calling >>

ConnectAgain(t) ==
    /\ grants[t] = "unissued"
    /\ grants' = [ grants EXCEPT ![t] = "honoured" ]
    /\ refresh' = t
    /\ gmailOps' = [ status |-> "active", syncState |-> "initializing", lastError |-> NoError ]
    /\ UNCHANGED calling

KeyIsRetired ==
    /\ refresh \in Tokens
    /\ refresh' = "unreadable"
    /\ UNCHANGED << grants, gmailOps, calling >>

GmailNext ==
    \/ \E o \in Operations :
         \/ Begin(o) \/ ReadRefreshToken(o) \/ FetchAccessToken(o) \/ GetProfile(o)
         \/ ListAllMessages(o) \/ ListHistory(o) \/ AllFetched(o) \/ WatchMailbox(o)
         \/ RequestBreaks(o) \/ Succeed(o) \/ RecordProblem(o) \/ OperationDies(o)
         \/ \E m \in Messages : GetMessage(o, m)
    \/ \E t \in Tokens : Revoke(t) \/ ConnectAgain(t)
    \/ KeyIsRetired

GmailSpec == GmailInit /\ [][GmailNext]_gmailVars

-----------------------------------------------------------------------------

(* A user is asked to connect again only by an operation that had no         *)
(* credential it could use, or whose token Google had really dropped, never  *)
(* for a throttle, an outage or a garbled answer.  The credential an         *)
(* operation held may have been replaced by then: that verdict stands.  A    *)
(* mailbox is healthy only after a sync none of whose requests went wrong,   *)
(* and a throttle or a cursor that is gone leaves it lagging, not failed.    *)
VerdictFollowsGoogle ==
    [][ \A o \in Operations :
          LET c == calling[o] IN
          calling'[o].at = "idle" /\ c.at \in { "done", "failing" } /\ gmailOps' # gmailOps =>
             /\ gmailOps'.status # gmailOps.status =>
                   /\ gmailOps'.status = "reconnect_required"
                   /\ c.token \in NoToken \/ grants[c.token] = "revoked"
             /\ c.at = "done" => c.trouble = "none"
             /\ o = "sync" /\ c.trouble \in { "throttle", "cursor" } =>
                   gmailOps'.syncState = "lagging"
             /\ gmailOps'.syncState = "lagging" /\ gmailOps.syncState # "lagging" =>
                   c.trouble \in { "throttle", "cursor" } ]_gmailVars

=============================================================================
