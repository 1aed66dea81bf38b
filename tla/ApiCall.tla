------------------------------ MODULE ApiCall ------------------------------
(***************************************************************************)
(* Calls of the SDK to the public API over a network that loses requests   *)
(* and answers.  The SDK sends a request again after a connection error, a *)
(* timeout or a 5XX answer, POST requests too; the API has no idempotency  *)
(* key, and the request sent before may still be under way.  What a second *)
(* request finds of the first one is up to the unique constraints.         *)
(***************************************************************************)
EXTENDS Naturals

CONSTANTS
    Calls,      \* calls of SDK functions
    Asks,       \* what a call may ask for, a set of records (see ApiTypeOK)
    Workspaces, \* workspaces, each with one API key
    Names,      \* URLs, mailboxes to subscribe, windows to replay
    MaxElapsed  \* maxElapsedTime, in waits

Creating == { "session", "endpoint", "subscription", "replay" }
Reading == { "mailbox", "observability", "message", "thread", "stored replay" }
Operator == "operator" \* stands for a call where an operator's command made a row
Requests == 1 .. MaxElapsed + 2

ASSUME MaxElapsedAssumption == MaxElapsed \in Nat
ASSUME CallsAssumption == Operator \notin Calls

(* fault: what is wrong with a request.  The SDK checks the types of its     *)
(* input; the API validates the body first, then the authorization header,   *)
(* and the range of a replay at last.                                        *)
ASSUME AsksAssumption ==
    Asks \subseteq [ kind : Creating \cup Reading, workspace : Workspaces,
                     owner : Workspaces, names : SUBSET Names,
                     fault : { "none", "input", "body", "no key", "range" } ]

VARIABLES
    ask,     \* what every call asks for
    phase,   \* where the SDK's retry loop stands
    sent,    \* requests the call has sent
    elapsed, \* waits between them
    expired, \* the call's timeout signal has fired
    reply,   \* what the request sent last has come back with
    answer,  \* what the caller has got
    serving, \* where the API stands with every request
    made,    \* rows, each with the request that made it
    ended,   \* the replays among them that are completed
    revoked  \* workspaces whose key is revoked

client == << phase, sent, elapsed, expired, reply, answer >>
api == << serving, made, ended, revoked >>
apiVars == << ask, client, api >>

Statuses == { "200", "201", "400", "401", "404", "409", "500" }
Failures == { "unreachable" } \* a connection error or a timeout
Nothing == "nothing"
NoAnswer == [ status |-> Nothing, as |-> Nothing ]

(* A function of the SDK: input, request, retries, and in the end what it    *)
(* takes for its result and for a problem with code and detail.  Any other   *)
(* answer becomes an error that only tells the status: a conflict over an    *)
(* endpoint's URL is one.                                                    *)
Function(result, problems) == [ result |-> result, problems |-> problems ]

MailboxesCreateConnectSession == Function("201", {"400"})
WebhookEndpointsCreate == Function("201", {"400"})
WebhookEndpointsCreateSubscription == Function("201", { "400", "404" })
ReplaysCreate == Function("201", { "400", "409" })
MailboxesGetById == Function("200", { "400", "404" })
MailboxesGetObservability == Function("200", { "400", "404" })
MessagesGetById == Function("200", { "400", "404" })
ThreadsGetById == Function("200", { "400", "404" })
ReplaysGetById == Function("200", { "400", "404" })

FunctionOf(kind) ==
    CASE kind = "session"       -> MailboxesCreateConnectSession
      [] kind = "endpoint"      -> WebhookEndpointsCreate
      [] kind = "subscription"  -> WebhookEndpointsCreateSubscription
      [] kind = "replay"        -> ReplaysCreate
      [] kind = "mailbox"       -> MailboxesGetById
      [] kind = "observability" -> MailboxesGetObservability
      [] kind = "message"       -> MessagesGetById
      [] kind = "thread"        -> ThreadsGetById
      [] kind = "stored replay" -> ReplaysGetById

ApiTypeOK ==
    /\ ask \in [ Calls -> Asks ]
    /\ phase \in [ Calls -> { "ready", "waiting", "failed", "done" } ]
    /\ sent \in [ Calls -> {0} \cup Requests ]
    /\ elapsed \in [ Calls -> 0 .. MaxElapsed + 1 ]
    /\ expired \in [ Calls -> BOOLEAN ]
    /\ reply \in [ Calls -> Statuses \cup Failures \cup {Nothing} ]
    /\ answer \in [ Calls -> {NoAnswer} \cup
         [ status : Statuses \cup Failures \cup { "aborted", "invalid" },
           as : { "result", "problem", "error" } ] ]
    /\ serving \in [ Calls -> [ Requests -> { "none", "arrived", "admitted", "over" } ] ]
    /\ made \subseteq [ kind : Creating, workspace : Workspaces, name : Names,
                        call : Calls \cup {Operator}, request : {0} \cup Requests ]
    /\ ended \subseteq made
    /\ revoked \subseteq Workspaces

ApiInit ==
    /\ ask \in [ Calls -> Asks ]
    /\ phase = [ c \in Calls |-> "ready" ]
    /\ sent = [ c \in Calls |-> 0 ] /\ elapsed = [ c \in Calls |-> 0 ]
    /\ expired = [ c \in Calls |-> FALSE ]
    /\ reply = [ c \in Calls |-> Nothing ] /\ answer = [ c \in Calls |-> NoAnswer ]
    /\ serving = [ c \in Calls |-> [ n \in Requests |-> "none" ] ]
    /\ made = {} /\ ended = {} /\ revoked = {}

-----------------------------------------------------------------------------
(* The SDK. *)

(* match, and what stands for a status when there is none. *)
Told(c, status) ==
    LET function == FunctionOf(ask[c].kind) IN
      [ status |-> status,
        as |-> IF status = function.result THEN "result"
               ELSE IF status \in function.problems THEN "problem" ELSE "error" ]

Ends(c, status) ==
    /\ phase' = [ phase EXCEPT ![c] = "done" ]
    /\ answer' = [ answer EXCEPT ![c] = Told(c, status) ]
    /\ reply' = [ reply EXCEPT ![c] = Nothing ]
    /\ elapsed' = [ elapsed EXCEPT ![c] = 0 ] /\ expired' = [ expired EXCEPT ![c] = FALSE ]

(* safeParse refuses input of the wrong type, or a value outside an enum.    *)
RefuseInput(c) ==
    /\ phase[c] = "ready" /\ ask[c].fault = "input"
    /\ Ends(c, "invalid")
    /\ UNCHANGED << ask, sent, api >>

(* One timeout signal serves all requests of a call: once it has fired, each *)
(* further one fails before it is sent.                                      *)
Send(c) ==
    /\ phase[c] = "ready" /\ ask[c].fault # "input"
    /\ IF expired[c]
       THEN /\ phase' = [ phase EXCEPT ![c] = "failed" ]
            /\ reply' = [ reply EXCEPT ![c] = "unreachable" ]
            /\ UNCHANGED << sent, serving >>
       ELSE /\ phase' = [ phase EXCEPT ![c] = "waiting" ]
            /\ reply' = [ reply EXCEPT ![c] = Nothing ]
            /\ sent' = [ sent EXCEPT ![c] = @ + 1 ]
            /\ serving' = [ serving EXCEPT ![c][sent[c] + 1] = "arrived" ]
    /\ UNCHANGED << ask, elapsed, expired, answer, made, ended, revoked >>

(* The request or its answer is lost; the API may be at work on it still.    *)
ConnectionBreaks(c) ==
    /\ phase[c] = "waiting"
    /\ phase' = [ phase EXCEPT ![c] = "failed" ]
    /\ reply' = [ reply EXCEPT ![c] = "unreachable" ]
    /\ UNCHANGED << ask, sent, elapsed, expired, answer, api >>

TimeoutFires(c) ==
    /\ phase[c] \in { "waiting", "failed" } /\ ~expired[c]
    /\ expired' = [ expired EXCEPT ![c] = TRUE ]
    /\ IF phase[c] = "waiting"
       THEN /\ phase' = [ phase EXCEPT ![c] = "failed" ]
            /\ reply' = [ reply EXCEPT ![c] = "unreachable" ]
       ELSE UNCHANGED << phase, reply >>
    /\ UNCHANGED << ask, sent, elapsed, answer, api >>

(* The caller's own signal: a permanent error. *)
Abort(c) ==
    /\ phase[c] = "waiting"
    /\ Ends(c, "aborted")
    /\ UNCHANGED << ask, sent, api >>

(* isRetryableResponse, of what the API answers. *)
Retryable(status) == status = "500"

Receive(c) ==
    /\ phase[c] = "waiting" /\ reply[c] # Nothing
    /\ IF Retryable(reply[c])
       THEN /\ phase' = [ phase EXCEPT ![c] = "failed" ]
            /\ UNCHANGED << reply, answer, elapsed, expired >>
       ELSE Ends(c, reply[c])
    /\ UNCHANGED << ask, sent, api >>

(* retryBackoff. *)
Wait(c) ==
    /\ phase[c] = "failed" /\ elapsed[c] <= MaxElapsed
    /\ elapsed' = [ elapsed EXCEPT ![c] = @ + 1 ]
    /\ phase' = [ phase EXCEPT ![c] = "ready" ]
    /\ UNCHANGED << ask, sent, expired, reply, answer, api >>

GiveUp(c) ==
    /\ phase[c] = "failed" /\ elapsed[c] > MaxElapsed
    /\ Ends(c, reply[c])
    /\ UNCHANGED << ask, sent, api >>

-----------------------------------------------------------------------------
(* The API. *)

Answers(c, n, status) ==
    /\ serving' = [ serving EXCEPT ![c][n] = "over" ]
    /\ reply' = IF phase[c] = "waiting" /\ sent[c] = n
                THEN [ reply EXCEPT ![c] = status ] ELSE reply

(* The validator is a middleware: it refuses a body before anybody asks for  *)
(* the key.                                                                  *)
BodyIsValid(c) == ask[c].fault # "body"

(* getWorkspaceForApiKey. *)
KeyIsKnown(c) == ask[c].workspace \notin revoked

(* The validator, then the authentication. *)
Admit(c, n) ==
    /\ serving[c][n] = "arrived"
    /\ IF ~BodyIsValid(c) \/ ask[c].fault = "no key" THEN Answers(c, n, "400")
       ELSE IF ~KeyIsKnown(c) THEN Answers(c, n, "401")
       ELSE /\ serving' = [ serving EXCEPT ![c][n] = "admitted" ]
            /\ UNCHANGED reply
    /\ UNCHANGED << ask, phase, sent, elapsed, expired, answer, made, ended, revoked >>

(* The rows that a request names are looked up in the workspace of its key.  *)
RefersToOthers(c) == ask[c].owner # ask[c].workspace

(* Mutant: the constraint leaves the workspace out. *)
SameInAnyWorkspace(c) ==
    { m \in made \ ended : m.kind = ask[c].kind /\ m.name \in ask[c].names }

(* What the unique constraints, and the exclusion constraint of active       *)
(* replays, hold against the creation.                                       *)
Existing(c) ==
    IF ask[c].kind = "session" THEN {}
    ELSE { m \in made \ ended :
             /\ m.kind = ask[c].kind /\ m.workspace = ask[c].workspace
             /\ m.name \in ask[c].names }

NewRows(c, n, names) ==
    { [ kind |-> ask[c].kind, workspace |-> ask[c].workspace, name |-> x,
        call |-> c, request |-> n ] : x \in names }

(* Mutant: ON CONFLICT DO NOTHING, and what is missing is inserted.          *)
InsertMissing(c, n) ==
    made \cup NewRows(c, n, ask[c].names \ { m.name : m \in Existing(c) })

(* All rows of a request, or none: a row that is missing in the result of    *)
(* the INSERT rolls its transaction back.                                    *)
Insert(c, n) == IF Existing(c) = {} THEN made \cup NewRows(c, n, ask[c].names) ELSE made

AnswersOnly(c, n, status) == Answers(c, n, status) /\ UNCHANGED made

Creates(c, n) ==
    /\ made' = Insert(c, n)
    /\ Answers(c, n, IF Existing(c) = {} THEN "201" ELSE "409")

CreateConnectSession(c, n) == ask[c].kind = "session" /\ Creates(c, n)

CreateWebhookEndpoint(c, n) == ask[c].kind = "endpoint" /\ Creates(c, n)

CreateSubscription(c, n) ==
    /\ ask[c].kind = "subscription"
    /\ IF RefersToOthers(c) THEN AnswersOnly(c, n, "404") ELSE Creates(c, n)

(* The range is parsed here, not in the schema of the body. *)
CreateReplay(c, n) ==
    /\ ask[c].kind = "replay"
    /\ IF ask[c].fault = "range" THEN AnswersOnly(c, n, "400")
       ELSE IF RefersToOthers(c) THEN AnswersOnly(c, n, "404")
       ELSE Creates(c, n)

Get(c, n) ==
    /\ ask[c].kind \in Reading
    /\ AnswersOnly(c, n, IF RefersToOthers(c) THEN "404" ELSE "200")

Handle(c, n) ==
    /\ serving[c][n] = "admitted"
    /\ \/ CreateConnectSession(c, n) \/ CreateWebhookEndpoint(c, n)
       \/ CreateSubscription(c, n) \/ CreateReplay(c, n)
       \/ Get(c, n)
    /\ UNCHANGED << ask, phase, sent, elapsed, expired, answer, ended, revoked >>

(* A statement fails, or the instance dies. *)
ApiFails(c, n) ==
    /\ serving[c][n] \in { "arrived", "admitted" }
    /\ Answers(c, n, "500")
    /\ UNCHANGED << ask, phase, sent, elapsed, expired, answer, made, ended, revoked >>

(* A control job dispatches a replay. *)
ReplayIsCompleted(m) ==
    /\ m \in made \ ended /\ m.kind = "replay"
    /\ ended' = ended \cup {m}
    /\ UNCHANGED << ask, client, serving, made, revoked >>

(* ensureLocalReplayWebhookEndpoint: an upsert, which leaves an endpoint with *)
(* the same URL in place, with another secret.  Bound: once, and for a URL    *)
(* that a call asks for.                                                      *)
PrepareLocalReplay(c, x) ==
    /\ ask[c].kind = "endpoint" /\ x \in ask[c].names
    /\ \A m \in made : m.call # Operator
    /\ Existing(c) = {}
    /\ made' = made \cup { [ kind |-> "endpoint", workspace |-> ask[c].workspace, name |-> x,
                             call |-> Operator, request |-> 0 ] }
    /\ UNCHANGED << ask, client, serving, ended, revoked >>

(* Bound: one key. *)
RevokeKeyOf(w) ==
    /\ revoked = {}
    /\ revoked' = {w}
    /\ UNCHANGED << ask, client, serving, made, ended >>

ApiNext ==
    \/ \E c \in Calls :
         \/ RefuseInput(c) \/ Send(c) \/ ConnectionBreaks(c) \/ TimeoutFires(c) \/ Abort(c) \/ Receive(c)
         \/ Wait(c) \/ GiveUp(c)
         \/ \E x \in Names : PrepareLocalReplay(c, x)
         \/ \E n \in Requests : Admit(c, n) \/ Handle(c, n) \/ ApiFails(c, n)
    \/ \E m \in made : ReplayIsCompleted(m)
    \/ \E w \in Workspaces : RevokeKeyOf(w)

ApiSpec == ApiInit /\ [][ApiNext]_apiVars

-----------------------------------------------------------------------------

MadeBy(c) == { m \in made : m.call = c }

(* However requests of a call overlap, and those of another call with them:  *)
(* it creates an endpoint once, all of its subscriptions once or none, and a *)
(* replay again only when the one it created before is completed.  Only of   *)
(* connect sessions there may be one for every request.                      *)
CallCreatesOnce ==
    \A c \in Calls :
        /\ \A m, n \in MadeBy(c) \ ended :
             m.kind # "session" /\ m.name = n.name => m = n
        /\ { m.name : m \in MadeBy(c) } \in { {}, ask[c].names }

(* What the caller is told agrees with what its requests have done: a result *)
(* is what the last of them made, or read in its own workspace, a refusal    *)
(* made nothing, and a conflict is with another call or with an earlier      *)
(* request of its own.  After a connection error or a timeout it knows       *)
(* nothing.                                                                  *)
AnswerTellsWhatHappened ==
    \A c \in Calls :
      LET mine == { m \in MadeBy(c) : m.request = sent[c] }
          status == answer[c].status IN
        /\ answer[c].as = "result" =>
             IF ask[c].kind \in Creating
             THEN { << m.name, m.workspace >> : m \in mine } = ask[c].names \X {ask[c].workspace}
             ELSE ask[c].owner = ask[c].workspace
        /\ status \in { "400", "404", "invalid" } => MadeBy(c) = {}
        /\ status \in { "401", "409", "500" } => mine = {}
        /\ status = "409" =>
             \E m \in made \ mine : /\ m.kind = ask[c].kind /\ m.workspace = ask[c].workspace
                                    /\ m.name \in ask[c].names

=============================================================================
