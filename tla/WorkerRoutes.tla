---------------------------- MODULE WorkerRoutes ----------------------------
(***************************************************************************)
(* The internal HTTP routes of the worker, for ONE message that Pub/Sub,   *)
(* Cloud Tasks or Cloud Scheduler sends to one of them: authorization,     *)
(* decoding, the processor, and the status by which the sender knows       *)
(* whether to send the message again.  A sender may send it again while an *)
(* earlier request is still being worked on.                               *)
(***************************************************************************)
EXTENDS Naturals

CONSTANTS
    Pushes,   \* bound: requests with the message
    MaxPushes \* max_delivery_attempts of the subscription, of a queue, of a schedule

ASSUME PushesAssumption == MaxPushes \in Nat \ {0}

VARIABLES
    mode,    \* MAILMON_ASYNC_TRANSPORT_MODE
    route,   \* the route that the message is sent to now
    body,    \* the form of its body
    fate,    \* what the sender knows
    tried,   \* answers the sender has counted on this route
    posting, \* where every request stands, and whether its token is trusted
    handled, \* history: the routes whose processor has succeeded
    untrusted \* history: a processor has run for a request without trusted token

routeVars == << mode, route, body, fate, tried, posting, handled, untrusted >>

RouteNames == { "sync", "dead letter", "gmail push", "delivery", "control job" }
Bodies == { "direct", "envelope", "envelope without data", "envelope with other data",
            "other JSON", "empty", "no JSON" }
IdTokens == { "missing", "invalid", "other audience", "unverified email", "other account", "trusted" }
NoRequest(at) == [ at |-> at, to |-> "sync", token |-> "missing", status |-> 0 ]

RouteTypeOK ==
    /\ mode \in { "local", "gcp" }
    /\ route \in RouteNames /\ body \in Bodies
    /\ fate \in { "unacknowledged", "acknowledged", "given up" }
    /\ tried \in 0..MaxPushes
    /\ posting \in [ Pushes -> [ at : { "unsent", "sent", "authorized", "decoded", "answered", "over" },
                                 to : RouteNames, token : IdTokens, status : { 0, 200, 202, 400, 401, 403, 404, 500, 502 } ] ]
    /\ handled \subseteq RouteNames /\ untrusted \in BOOLEAN

(* Outside local mode startWorkerHttpRuntime insists on internal auth.       *)
(* Cloud Tasks and Cloud Scheduler send JSON, Pub/Sub an envelope; the body  *)
(* of an envelope is whatever was published.  A dead letter begins as one    *)
(* when the limit was reached before.                                        *)
RouteInit ==
    /\ mode \in { "local", "gcp" }
    /\ route \in RouteNames /\ body \in Bodies
    /\ fate = "unacknowledged" /\ tried = 0
    /\ posting = [ p \in Pushes |-> NoRequest("unsent") ]
    /\ handled = {} /\ untrusted = FALSE

-----------------------------------------------------------------------------

(* authorizeInternalRequest: 0 stands for a pass.  The verifier throws on a  *)
(* token for another audience, which answers as an invalid one does.         *)
AuthorizationStatus(token) ==
    IF mode = "local" \/ token = "trusted" THEN 0
    ELSE IF token \in { "missing", "invalid", "other audience" } THEN 401 ELSE 403

(* decodeMailboxSyncWorkerRequest takes both forms; dead letters and pushes  *)
(* must be envelopes, deliveries and control jobs must not.                  *)
Decodes(to) ==
    \/ body = "direct" /\ to \in { "sync", "delivery", "control job" }
    \/ body = "envelope" /\ to \in { "sync", "dead letter", "gmail push" }

(* Local mode takes Gmail pushes and does nothing. *)
AcceptedUnseen(to) == mode = "local" /\ to = "gmail push"

(* Mutant: what cannot be decoded is dropped on every route. *)
AcceptInvalid(to) == 200

(* An invalid dead letter is logged and dropped, there is nowhere to keep it.*)
InvalidStatus(to) == IF to = "dead letter" THEN 200 ELSE 400

SuccessStatus(to) == IF to = "gmail push" THEN 202 ELSE 200

(* Whatever the problem, a dead letter fails with a server error. *)
ProblemStatus(to, status) == IF to = "dead letter" /\ status < 500 THEN 500 ELSE status

Acknowledges(status) == status \in 200..299

-----------------------------------------------------------------------------

Push(p, token) ==
    /\ fate = "unacknowledged" /\ posting[p].at = "unsent"
    /\ posting' = [ posting EXCEPT ![p] = [ @ EXCEPT !.at = "sent", !.to = route, !.token = token ] ]
    /\ UNCHANGED << mode, route, body, fate, tried, handled, untrusted >>

Answer(p, status) ==
    posting' = [ posting EXCEPT ![p] = [ @ EXCEPT !.at = "answered", !.status = status ] ]

Authorize(p) ==
    /\ posting[p].at = "sent"
    /\ IF AuthorizationStatus(posting[p].token) = 0
       THEN posting' = [ posting EXCEPT ![p].at = "authorized" ]
       ELSE Answer(p, AuthorizationStatus(posting[p].token))
    /\ UNCHANGED << mode, route, body, fate, tried, handled, untrusted >>

(* The precondition, readJsonRequest and decode. *)
Decode(p) ==
    /\ posting[p].at = "authorized"
    /\ IF AcceptedUnseen(posting[p].to) THEN Answer(p, 202)
       ELSE IF body = "no JSON" THEN Answer(p, 500)
       ELSE IF Decodes(posting[p].to) THEN posting' = [ posting EXCEPT ![p].at = "decoded" ]
       ELSE Answer(p, InvalidStatus(posting[p].to))
    /\ UNCHANGED << mode, route, body, fate, tried, handled, untrusted >>

RunsProcessor(p) ==
    /\ posting[p].at = "decoded"
    /\ untrusted' = (untrusted \/ (mode # "local" /\ posting[p].token # "trusted"))
    /\ UNCHANGED << mode, route, body, fate, tried >>

ProcessorSucceeds(p) ==
    /\ RunsProcessor(p)
    /\ handled' = handled \cup {posting[p].to}
    /\ Answer(p, SuccessStatus(posting[p].to))

(* It fails with a problem, or with anything else. *)
ProcessorFails(p, status) ==
    /\ RunsProcessor(p)
    /\ Answer(p, ProblemStatus(posting[p].to, status))
    /\ UNCHANGED handled

RequestDies(p) ==
    /\ posting[p].at \in { "sent", "authorized", "decoded" }
    /\ Answer(p, 500)
    /\ UNCHANGED << mode, route, body, fate, tried, handled, untrusted >>

(* The sender sees the status.  After its last try the subscription of sync  *)
(* wake-ups hands the message to the dead-letter topic, a queue or a         *)
(* schedule drops it; the other subscriptions go on (this one stops at the   *)
(* bound).                                                                   *)
SenderSees(p) ==
    /\ posting[p].at = "answered"
    /\ posting' = [ posting EXCEPT ![p] = NoRequest("over") ]
    /\ IF fate # "unacknowledged" \/ posting[p].to # route THEN UNCHANGED << route, fate, tried >>
       ELSE IF Acknowledges(posting[p].status)
            THEN fate' = "acknowledged" /\ UNCHANGED << route, tried >>
       ELSE IF tried + 1 < MaxPushes THEN tried' = tried + 1 /\ UNCHANGED << route, fate >>
       ELSE IF route = "sync" THEN route' = "dead letter" /\ tried' = 0 /\ UNCHANGED fate
       ELSE fate' = "given up" /\ UNCHANGED << route, tried >>
    /\ UNCHANGED << mode, body, handled, untrusted >>

(* The answer does not reach the sender in time, and the message is sent     *)
(* again.                                                                    *)
AnswerIsLost(p) ==
    /\ posting[p].at = "answered"
    /\ posting' = [ posting EXCEPT ![p] = NoRequest("over") ]
    /\ UNCHANGED << mode, route, body, fate, tried, handled, untrusted >>

RouteNext ==
    \E p \in Pushes :
        \/ \E token \in IdTokens : Push(p, token)
        \/ Authorize(p) \/ Decode(p) \/ ProcessorSucceeds(p) \/ RequestDies(p)
        \/ \E status \in { 404, 500, 502 } : ProcessorFails(p, status)
        \/ SenderSees(p) \/ AnswerIsLost(p)

RouteSpec == RouteInit /\ [][RouteNext]_routeVars

-----------------------------------------------------------------------------

(* A message that its sender forgets was handled by the processor of its     *)
(* route, at the request of a trusted sender, however requests overlap and   *)
(* answers get lost.  Two messages are dropped on purpose: an undecodable    *)
(* dead letter, and a Gmail push in local mode.                              *)
AcknowledgedWasHandled ==
    /\ ~untrusted
    /\ fate = "acknowledged" =>
         \/ route \in handled
         \/ route = "dead letter" /\ ~Decodes(route)
         \/ AcceptedUnseen(route)

=============================================================================
