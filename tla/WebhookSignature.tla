-------------------------- MODULE WebhookSignature --------------------------
(***************************************************************************)
(* The signature of a webhook delivery, from the worker that signs to the  *)
(* SDK helper that verifies: the attempts of ONE delivery, hours after the *)
(* event if need be, over a network that delays and repeats them, to a     *)
(* receiver whose clock is off and whose framework may have parsed or      *)
(* rewritten the body before the helper sees it.  Both clocks tick several *)
(* times a second; the signature knows whole seconds.                      *)
(***************************************************************************)
EXTENDS Integers, FiniteSets

CONSTANTS
    Secrets,        \* the signing secrets of the endpoints of a receiver
    TicksPerSecond, \* 1000
    Tolerance,      \* DEFAULT_TOLERANCE_SECONDS (300)
    Skews,          \* by how many ticks the receiver's clock may be ahead
    MaxAttempts,    \* bound: attempts of the delivery
    LastTick        \* bound: the worker's clock stops here

ASSUME SignatureAssumption ==
    /\ Secrets # {} /\ TicksPerSecond \in Nat \ {0} /\ Tolerance \in Nat /\ MaxAttempts \in Nat
    /\ Skews \subseteq Int /\ LastTick \in Nat

VARIABLES
    tick,      \* the worker's clock, at 0 when the event was emitted
    skew,      \* the receiver's clock, minus that
    secretOf,  \* the endpoint's webhook_endpoints.signing_secret
    underway,  \* the requests sent so far: the network keeps and repeats them
    verdict    \* the last call of verifySignature, and what it was of

signatureVars == << tick, skew, secretOf, underway, verdict >>

Seconds(t) == t \div TicksPerSecond

(* What the receiver hands to the helper as the request's body. *)
Payloads == { "raw", "rewritten", "parsed" }

(* The header: as it was sent, stripped by a proxy, or not of the form       *)
(* t=...,v1=...                                                              *)
Headers == { "sent", "stripped", "malformed" }

NotVerified == [ accepted |-> FALSE, payload |-> "raw", header |-> "sent", with |-> "nobody",
                 apart |-> 0 ]

SignatureTypeOK ==
    /\ tick \in 0 .. LastTick /\ skew \in Skews
    /\ secretOf \in Secrets
    /\ underway \subseteq [ t : Nat, v1 : [ secret : Secrets, t : Nat, body : {"raw"} ],
                            at : 0 .. LastTick ]
    /\ verdict \in [ accepted : BOOLEAN, payload : Payloads, header : Headers,
                     with : Secrets \cup {"nobody"}, apart : Nat ]

SignatureInit ==
    /\ tick = 0 /\ skew \in Skews /\ secretOf \in Secrets
    /\ underway = {}
    /\ verdict = NotVerified

-----------------------------------------------------------------------------

(* The HMAC over the timestamp and the body: equal only for equal inputs. *)
Hmac(secret, t, body) == [ secret |-> secret, t |-> t, body |-> body ]

(* Mutant: the signature is of the event's emission, like the event's body. *)
StampOfEvent == Seconds(0)

(* Math.floor(Date.parse(attemptedAt) / 1000). *)
StampOfAttempt == Seconds(tick)

(* buildWebhookDeliveryHttpRequest: every attempt is signed anew. *)
SendAttempt ==
    /\ Cardinality(underway) < MaxAttempts
    /\ underway' = underway \cup
          { [ t |-> StampOfAttempt, v1 |-> Hmac(secretOf, StampOfAttempt, "raw"), at |-> tick ] }
    /\ UNCHANGED << tick, skew, secretOf, verdict >>

(* assertTimestampWithinTolerance. *)
WithinTolerance(t, now) == now - t <= Tolerance /\ t - now <= Tolerance

(* verifySignature throws, or returns true. *)
VerifySignature(payload, header, r, secret) ==
    /\ payload # "parsed"
    /\ header = "sent"
    /\ WithinTolerance(r.t, Seconds(tick + skew))
    /\ r.v1 = Hmac(secret, r.t, payload)

Distance(x, y) == IF x < y THEN y - x ELSE x - y

(* A request arrives, for the first time or again. *)
ReceiveDelivery ==
    \E r \in underway, payload \in Payloads, header \in Headers, secret \in Secrets :
        /\ verdict' = [ accepted |-> VerifySignature(payload, header, r, secret),
                        payload |-> payload, header |-> header, with |-> secret,
                        apart |-> Distance(tick + skew, r.at) ]
        /\ UNCHANGED << tick, skew, secretOf, underway >>

Ticks ==
    /\ tick < LastTick
    /\ tick' = tick + 1
    /\ UNCHANGED << skew, secretOf, underway, verdict >>

SignatureNext == SendAttempt \/ ReceiveDelivery \/ Ticks

SignatureSpec == SignatureInit /\ [][SignatureNext]_signatureVars

-----------------------------------------------------------------------------

(* A request the worker sent is accepted however old the event is, by a      *)
(* receiver with the endpoint's secret and the untouched body, as long as    *)
(* its clock and the worker's at the attempt are no further apart than the   *)
(* tolerance; and nothing else is, up to the second that rounding loses.     *)
GenuineIsAccepted ==
    verdict.with # "nobody" =>
       LET untouched == /\ verdict.payload = "raw" /\ verdict.header = "sent"
                        /\ verdict.with = secretOf
       IN  /\ untouched /\ verdict.apart <= Tolerance * TicksPerSecond => verdict.accepted
           /\ verdict.accepted =>
                 untouched /\ verdict.apart < (Tolerance + 1) * TicksPerSecond

=============================================================================
