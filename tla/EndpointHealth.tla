--------------------------- MODULE EndpointHealth ---------------------------
(***************************************************************************)
(* The health columns of ONE webhook endpoint, which the completions of    *)
(* different deliveries keep: after the fenced update of its delivery row, *)
(* a completion reads the endpoint's counter without locking it and writes *)
(* it back.  READ COMMITTED lets two of them interleave between the two.   *)
(***************************************************************************)
EXTENDS Naturals, FiniteSets

CONSTANT Completions \* attempts that are completed, each of a delivery of its own

ASSUME CompletionsAssumption == IsFiniteSet(Completions)

VARIABLES
    outcome,   \* how each attempt ended
    step,      \* where each completion stands
    counted,   \* the counter as a completion read it
    failures,  \* webhook_endpoints.consecutive_delivery_failures
    health,    \* webhook_endpoints.delivery_state
    streak,    \* history: failures since the last success, in the order of the writes
    overlapped \* history: a write came between a completion's read and its write

endpoint == << failures, health >>
healthVars == << outcome, step, counted, endpoint, streak, overlapped >>

HealthTypeOK ==
    /\ outcome \in [ Completions -> { "delivered", "pending", "failed" } ]
    /\ step \in [ Completions -> { "completing", "counting", "done" } ]
    /\ counted \in [ Completions -> Nat ]
    /\ failures \in Nat /\ health \in { "healthy", "degraded", "failing" }
    /\ streak \in Nat /\ overlapped \in BOOLEAN

HealthInit ==
    /\ outcome \in [ Completions -> { "delivered", "pending", "failed" } ]
    /\ step = [ c \in Completions |-> "completing" ]
    /\ counted = [ c \in Completions |-> 0 ]
    /\ failures = 0 /\ health = "healthy"
    /\ streak = 0 /\ overlapped = FALSE

(* The delivery row is updated, and the endpoint read. *)
ReadCounter(c) ==
    /\ step[c] = "completing"
    /\ step' = [ step EXCEPT ![c] = "counting" ]
    /\ counted' = [ counted EXCEPT ![c] = failures ]
    /\ UNCHANGED << outcome, endpoint, streak, overlapped >>

(* Mutant: the second failure makes an endpoint failing. *)
HealthAfterFewer(n) == IF n = 0 THEN "healthy" ELSE IF n >= 2 THEN "failing" ELSE "degraded"

HealthAfter(n) == IF n = 0 THEN "healthy" ELSE IF n >= 3 THEN "failing" ELSE "degraded"

(* Mutant: a delivery is no reason to start counting afresh. *)
CountsOn(c) == IF outcome[c] = "delivered" THEN counted[c] ELSE counted[c] + 1

(* A delivery to be retried counts like one that is given up. *)
CountAfter(c) == IF outcome[c] = "delivered" THEN 0 ELSE counted[c] + 1

WriteHealth(c) ==
    /\ step[c] = "counting"
    /\ step' = [ step EXCEPT ![c] = "done" ]
    /\ failures' = CountAfter(c)
    /\ health' = HealthAfter(CountAfter(c))
    /\ counted' = [ counted EXCEPT ![c] = 0 ]
    /\ streak' = IF outcome[c] = "delivered" THEN 0 ELSE streak + 1
    /\ overlapped' = (overlapped \/ \E d \in Completions \ {c} : step[d] = "counting")
    /\ UNCHANGED outcome

HealthNext == \E c \in Completions : ReadCounter(c) \/ WriteHealth(c)

HealthSpec == HealthInit /\ [][HealthNext]_healthVars

-----------------------------------------------------------------------------

(* Completions that do not overlap count the consecutive failures exactly,   *)
(* and the state follows the counter: the third one makes it failing.        *)
CountsConsecutiveFailures ==
    ~overlapped => /\ failures = streak
                   /\ health = "failing" <=> streak >= 3
                   /\ health = "healthy" <=> streak = 0

(* However completions overlap, the counter is no higher than the failures   *)
(* there have been: an endpoint is failing only after three of them.         *)
FailingTakesThreeFailures ==
    LET failed == { c \in Completions : step[c] = "done" /\ outcome[c] # "delivered" } IN
      /\ failures <= Cardinality(failed)
      /\ health = "failing" => Cardinality(failed) >= 3

=============================================================================
