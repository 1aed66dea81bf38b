--------------------------- MODULE MCControlPlane ---------------------------
(***************************************************************************)
(* One run for the parts of the control plane that share no state at the   *)
(* level their modules model: a behaviour is a behaviour of ONE of them,   *)
(* chosen at the start, while the rest stay as they are.  The states are   *)
(* the sum, not the product, of the states of the parts.                   *)
(***************************************************************************)
EXTENDS Replay, EndpointHealth, WatchRenewal, ConnectSession, Paging, ApiCall, WorkerRoutes,
        GmailClient, WebhookSignature

CONSTANTS w1, w2, n1, n2

VARIABLE part

partVars == << part, replayVars, healthVars, watchVars, connectVars, pagingVars, apiVars,
               routeVars, gmailVars, signatureVars >>

Asked(kind, workspace, owner, names) ==
    [ kind |-> kind, workspace |-> workspace, owner |-> owner, names |-> names, fault |-> "none" ]

(* Overlapping requests of both workspaces, one of them naming a resource of *)
(* the other, one that the SDK refuses and two that the API refuses.  The    *)
(* functions that read take the same answers: one stands for them.           *)
MCAsks == { Asked("session", w1, w1, {n1}), Asked("endpoint", w1, w1, {n1}),
            Asked("endpoint", w2, w2, {n1}), Asked("subscription", w1, w1, {n1, n2}),
            Asked("subscription", w1, w1, {n2}), Asked("replay", w1, w1, {n1}),
            Asked("replay", w1, w2, {n1}),
            [ Asked("session", w1, w1, {n1}) EXCEPT !.fault = "body" ],
            [ Asked("endpoint", w1, w1, {n1}) EXCEPT !.fault = "input" ],
            [ Asked("replay", w1, w1, {n1}) EXCEPT !.fault = "range" ] }
          \cup { Asked("mailbox", w1, w1, {}), Asked("mailbox", w1, w2, {}) }

MCSkews == -4 .. 4

-----------------------------------------------------------------------------

(* The parts that are not chosen keep some value in what their Init leaves   *)
(* open; of what is equal up to a permutation of model values, the first     *)
(* account, token and secret are taken.                                      *)
AnyOf(S) == CHOOSE x \in S : TRUE

(* Calls that may get in each other's way: of one kind, the first one of w1, *)
(* the others well formed.                                                   *)
Rivals(first, asks) ==
    /\ \A c \in Calls : asks[c].kind = first.kind
    /\ \A c \in Calls \ {AnyOf(Calls)} : asks[c].fault = "none"
    /\ first.workspace = w1 /\ first.owner = w1
    /\ first.kind = "subscription" => first.names = Names

PartInit ==
    /\ part \in { "replay", "health", "watch", "connect", "paging", "api", "route", "gmail",
                  "signature" }
    /\ ReplayInit
    /\ part # "replay" =>
          window = [ r \in Replays |-> [ start |-> AnyOf(Times), end |-> AnyOf(Times) ] ]
    /\ HealthInit /\ (part # "health" => outcome = [ c \in Completions |-> "delivered" ])
    /\ WatchInit /\ account = AnyOf(Accounts)
    /\ ConnectInit
    /\ credential[OldMailbox].stored = SealedWithoutKid(active)
    /\ PagingInit
    /\ part # "paging" => /\ resource = "messages" /\ limit = AnyOf(Limits)
                          /\ stored = [ r \in Rows |-> Absent ]
    /\ ApiInit
    /\ IF part = "api" THEN Rivals(ask[AnyOf(Calls)], ask)
       ELSE ask = [ c \in Calls |-> AnyOf(Asks) ]
    /\ RouteInit /\ (part # "route" => mode = "gcp" /\ route = "sync" /\ body = "direct")
    /\ GmailInit /\ refresh \in IF part = "gmail" THEN { "missing", AnyOf(Tokens) } ELSE {"missing"}
    /\ SignatureInit /\ secretOf = AnyOf(Secrets) /\ (part # "signature" => skew = 0)

UnchangedBut(p) ==
    /\ UNCHANGED part
    /\ IF p = "replay" THEN TRUE ELSE UNCHANGED replayVars
    /\ IF p = "health" THEN TRUE ELSE UNCHANGED healthVars
    /\ IF p = "watch" THEN TRUE ELSE UNCHANGED watchVars
    /\ IF p = "connect" THEN TRUE ELSE UNCHANGED connectVars
    /\ IF p = "paging" THEN TRUE ELSE UNCHANGED pagingVars
    /\ IF p = "api" THEN TRUE ELSE UNCHANGED apiVars
    /\ IF p = "route" THEN TRUE ELSE UNCHANGED routeVars
    /\ IF p = "gmail" THEN TRUE ELSE UNCHANGED gmailVars
    /\ IF p = "signature" THEN TRUE ELSE UNCHANGED signatureVars

PartNext ==
    \/ part = "replay" /\ UnchangedBut("replay") /\ ReplayNext
    \/ part = "health" /\ UnchangedBut("health") /\ HealthNext
    \/ part = "watch" /\ UnchangedBut("watch") /\ WatchNext
    \/ part = "connect" /\ UnchangedBut("connect") /\ ConnectNext
    \/ part = "paging" /\ UnchangedBut("paging") /\ PagingNext
    \/ part = "api" /\ UnchangedBut("api") /\ ApiNext
    \/ part = "route" /\ UnchangedBut("route") /\ RouteNext
    \/ part = "gmail" /\ UnchangedBut("gmail") /\ GmailNext
    \/ part = "signature" /\ UnchangedBut("signature") /\ SignatureNext

(* The VIEW of the run: the rest never changes, and need not be hashed.      *)
PartView ==
    CASE part = "replay"    -> << part, replayVars >>
      [] part = "health"    -> << part, healthVars >>
      [] part = "watch"     -> << part, watchVars >>
      [] part = "connect"   -> << part, connectVars >>
      [] part = "paging"    -> << part, pagingVars >>
      [] part = "api"       -> << part, apiVars >>
      [] part = "route"     -> << part, routeVars >>
      [] part = "gmail"     -> << part, gmailVars >>
      [] part = "signature" -> << part, signatureVars >>

PartSpec == PartInit /\ [][PartNext]_partVars

(* The type invariant of the part that moves. *)
PartTypeOK ==
    CASE part = "replay"    -> ReplayTypeOK
      [] part = "health"    -> HealthTypeOK
      [] part = "watch"     -> WatchTypeOK
      [] part = "connect"   -> ConnectTypeOK
      [] part = "paging"    -> PagingTypeOK
      [] part = "api"       -> ApiTypeOK
      [] part = "route"     -> RouteTypeOK
      [] part = "gmail"     -> GmailTypeOK
      [] part = "signature" -> SignatureTypeOK

=============================================================================
