--------------------------- MODULE WebhookDelivery ---------------------------
(***************************************************************************)
(* One webhook delivery: the row for one (mailbox event, endpoint) pair,   *)
(* the Cloud Tasks queue that wakes workers up for it, the workers that    *)
(* attempt it, the recovery job and replays.                               *)
(*                                                                         *)
(* Time is kept as what the code compares it for: whether next_attempt_at  *)
(* has passed (due) and whether the processing timeout of the current      *)
(* claim has (stale).  A task is named by its delivery and its notBefore;  *)
(* what matters of the name is whether the row is still waiting for it     *)
(* (next: next_attempt_at of a pending row, the end of the processing      *)
(* timeout of a claimed one) or not (other).  Start times identify claims: *)
(* a new one differs from those the workers still remember.                *)
(***************************************************************************)
EXTENDS Naturals

CONSTANTS
    Workers,     \* concurrent executions of runWebhookDelivery
    MaxAttempts, \* DEFAULT_WEBHOOK_DELIVERY_MAX_ATTEMPTS
    Starts,      \* start times of attempts, enough for one never to be used twice at once
    MaxReplays,  \* bound: replays that select the event
    MaxFaults    \* bound: crashes, stalls, and tasks or calls that are lost

Jobs == { "creator", "replay", "recovery" }

ASSUME WorkersAssumption == Workers # {} /\ Workers \cap Jobs = {}
ASSUME AttemptsAssumption == MaxAttempts \in Nat \ {0}
ASSUME StartsAssumption == Starts \subseteq Nat \ {0}
ASSUME FaultsAssumption == MaxReplays \in Nat /\ MaxFaults \in Nat

VARIABLES
    state,      \* webhook_deliveries.state, "absent" before the row exists
    attempts,   \* attempt_count
    stamp,      \* processing_started_at, 0 when null
    due,        \* next_attempt_at has passed
    stale,      \* processing_started_at is older than the processing timeout
    tasks,      \* names of the tasks in the queue
    remembered, \* Cloud Tasks has, or had a while ago, a task of the next name
    asks,       \* the name everyone is about to schedule a task under
    creator,    \* the sync execution that committed the event
    wpc,        \* where every worker stands
    claim,      \* the attempt count and start of every worker's claim
    answer,     \* how the endpoint answered every worker
    replays, faults,
    accepted    \* history: the endpoint took the event since the row was armed

row == << state, attempts, stamp, due, stale >>
queue == << tasks, remembered >>
worker == << wpc, claim, answer >>
vars == << row, queue, asks, creator, worker, replays, faults, accepted >>

Names == { "next", "other" }
Schedulers == Jobs \cup Workers
NoClaim == [ count |-> 0, start |-> 0 ]

TypeOK ==
    /\ state \in { "absent", "pending", "processing", "delivered", "failed" }
    /\ attempts \in Nat /\ stamp \in Starts \cup {0}
    /\ due \in BOOLEAN /\ stale \in BOOLEAN
    /\ tasks \subseteq Names /\ remembered \in BOOLEAN
    /\ asks \in [ Schedulers -> Names \cup {"none"} ]
    /\ creator \in { "committed", "over" }
    /\ wpc \in [ Workers -> { "idle", "sending", "answered", "rescheduling" } ]
    /\ claim \in [ Workers -> [ count : Nat, start : Starts \cup {0} ] ]
    /\ answer \in [ Workers -> { "none", "delivered", "retryable", "fatal" } ]
    /\ replays \in 0..MaxReplays /\ faults \in 0..MaxFaults
    /\ accepted \in BOOLEAN

(* applyMailboxSyncCommit has inserted the event; nothing else knows of it.  *)
Init ==
    /\ state = "absent" /\ attempts = 0 /\ stamp = 0
    /\ due = FALSE /\ stale = FALSE
    /\ tasks = {} /\ remembered = FALSE
    /\ asks = [ a \in Schedulers |-> "none" ]
    /\ creator = "committed"
    /\ wpc = [ w \in Workers |-> "idle" ]
    /\ claim = [ w \in Workers |-> NoClaim ]
    /\ answer = [ w \in Workers |-> "none" ]
    /\ replays = 0 /\ faults = 0 /\ accepted = FALSE

-----------------------------------------------------------------------------

Fault ==
    /\ faults < MaxFaults
    /\ faults' = faults + 1

(* A name the row no longer waits for. *)
Past(n) == IF n = "next" THEN "other" ELSE n

(* The row waits for another time now, so that the task it was waiting for   *)
(* and those about to be scheduled for the old time are tasks like others.   *)
WaitForNewTime ==
    /\ tasks' = { Past(n) : n \in tasks }
    /\ remembered' = FALSE

(* The row becomes pending with no attempts, to be attempted at once. *)
ArmRow(a) ==
    /\ state' = "pending" /\ attempts' = 0 /\ stamp' = 0
    /\ due' = TRUE /\ stale' = FALSE
    /\ WaitForNewTime
    /\ asks' = [ b \in Schedulers |-> IF b = a THEN "next" ELSE Past(asks[b]) ]
    /\ accepted' = FALSE

(* scheduleWebhookDelivery.  Cloud Tasks refuses a name it remembers, and    *)
(* the refusal is taken for success.                                         *)
Schedule(n, queued) ==
    /\ tasks' = IF n = "next" /\ remembered THEN queued ELSE queued \cup {n}
    /\ remembered' = (remembered \/ n = "next")

(* A request is answered 200 and Cloud Tasks deletes its task; of tasks with *)
(* other names there may be more.                                            *)
WithoutTask(n, queued) ==
    IF n = "next" THEN { queued \ {n} } ELSE { queued, queued \ {n} }

(* Nobody is woken up before notBefore. *)
NotBeforeHasPassed(n) ==
    n = "next" => /\ state = "pending" => due
                  /\ state = "processing" => stale

(* Mutant of Claimable: an outcome is no reason not to try again. *)
NotInProgress == state # "processing" \/ stale

(* prepareWebhookDeliveryAttempt's WHERE clause. *)
Claimable ==
    \/ state = "pending" /\ due
    \/ state = "processing" /\ stale

(* Mutant of StillMyClaim: the start of the claim is not compared. *)
SameAttempt(w) ==
    /\ state = "processing"
    /\ attempts = claim[w].count

(* completeWebhookDeliveryAttempt's WHERE clause. *)
StillMyClaim(w) ==
    /\ state = "processing"
    /\ attempts = claim[w].count
    /\ stamp = claim[w].start

(* The worker forgets the request. *)
Rest(w) ==
    /\ wpc' = [ wpc EXCEPT ![w] = "idle" ]
    /\ claim' = [ claim EXCEPT ![w] = NoClaim ]
    /\ answer' = [ answer EXCEPT ![w] = "none" ]

-----------------------------------------------------------------------------
(* Arming the delivery. *)

(* createWebhookDeliveriesForMailboxEvents, after the commit: the insert     *)
(* does nothing if a replay was faster, a task is asked for anyway.          *)
CreateDelivery ==
    /\ creator = "committed"
    /\ creator' = "over"
    /\ IF state = "absent"
       THEN ArmRow("creator")
       ELSE /\ asks' = [ asks EXCEPT !["creator"] = "other" ]
            /\ UNCHANGED << row, queue, accepted >>
    /\ UNCHANGED << worker, replays, faults >>

(* The execution dies between the commit and createWebhookDeliveries...      *)
CreatorDies ==
    /\ creator = "committed"
    /\ creator' = "over"
    /\ Fault
    /\ UNCHANGED << row, queue, asks, worker, replays, accepted >>

(* createWebhookDeliveriesForReplay: the upsert re-arms the row whatever     *)
(* state it is in, an attempt in flight included.                            *)
Replay ==
    /\ replays < MaxReplays
    /\ replays' = replays + 1
    /\ asks["replay"] = "none"
    /\ ArmRow("replay")
    /\ UNCHANGED << creator, worker, faults >>

(* The sync execution, the replay dispatch or the recovery job hands over    *)
(* the task it asks for.                                                     *)
ScheduleAsked(a) ==
    /\ asks[a] # "none"
    /\ Schedule(asks[a], tasks)
    /\ asks' = [ asks EXCEPT ![a] = "none" ]
    /\ UNCHANGED << row, creator, worker, replays, faults, accepted >>

(* Or it does not: its process dies, or the call fails, which is swallowed   *)
(* after a sync, ends a replay, and ends a recovery with the rest of its     *)
(* batch unscheduled.                                                        *)
SchedulingFails(a) ==
    /\ asks[a] # "none"
    /\ asks' = [ asks EXCEPT ![a] = "none" ]
    /\ Fault
    /\ UNCHANGED << row, queue, creator, worker, replays, accepted >>

-----------------------------------------------------------------------------
(* Attempting it. *)

(* Cloud Tasks keeps a task until it is acknowledged, and may dispatch it    *)
(* again meanwhile.                                                          *)
WakeUp(w, n) ==
    /\ wpc[w] = "idle"
    /\ n \in tasks
    /\ NotBeforeHasPassed(n)

(* A start that no worker remembers. *)
IsNew(start) == \A w \in Workers : claim[w].start # start

ClaimAttempt(w, n) ==
    /\ WakeUp(w, n)
    /\ Claimable
    /\ state' = "processing"
    /\ attempts' = attempts + 1
    /\ stamp' \in { t \in Starts : IsNew(t) }
    /\ stale' = FALSE
    /\ WaitForNewTime
    /\ asks' = [ a \in Schedulers |-> Past(asks[a]) ]
    /\ claim' = [ claim EXCEPT ![w] = [ count |-> attempts', start |-> stamp' ] ]
    /\ wpc' = [ wpc EXCEPT ![w] = "sending" ]
    /\ UNCHANGED << due, creator, answer, replays, faults, accepted >>

(* No row to claim: a noop, answered 200. *)
NothingToClaim(w, n) ==
    /\ WakeUp(w, n)
    /\ ~Claimable
    /\ tasks' \in WithoutTask(n, tasks)
    /\ UNCHANGED << row, remembered, asks, creator, worker, replays, faults, accepted >>

(* send, and the classification of its outcome.  A timeout or a transport    *)
(* error says nothing about whether the endpoint took the event.             *)
Send(w) ==
    /\ wpc[w] = "sending"
    /\ wpc' = [ wpc EXCEPT ![w] = "answered" ]
    /\ \/ /\ answer' = [ answer EXCEPT ![w] = "delivered" ]
          /\ accepted' = TRUE
       \/ /\ answer' = [ answer EXCEPT ![w] = "retryable" ]
          /\ accepted' \in {accepted, TRUE}
       \/ /\ answer' = [ answer EXCEPT ![w] = "fatal" ]
          /\ UNCHANGED accepted
    /\ UNCHANGED << row, queue, asks, creator, claim, replays, faults >>

(* Mutant of AttemptsExhausted: one attempt too many. *)
OneAttemptTooMany(count) == count > MaxAttempts

AttemptsExhausted(count) == count >= MaxAttempts

(* Mutant of StateAfter: the status the run reports is stored as the state.  *)
StatusAfter(w) ==
    CASE answer[w] = "delivered" -> "delivered"
      [] answer[w] = "fatal" -> "failed"
      [] answer[w] = "retryable" ->
           IF AttemptsExhausted(claim[w].count) THEN "retry_exhausted" ELSE "pending"

(* Where classifyWebhookDeliveryResponse and -Failure send the row. *)
StateAfter(w) ==
    CASE answer[w] = "delivered" -> "delivered"
      [] answer[w] = "fatal" -> "failed"
      [] answer[w] = "retryable" ->
           IF AttemptsExhausted(claim[w].count) THEN "failed" ELSE "pending"

(* completeWebhookDeliveryAttempt, when the claim is still the row's. *)
CompleteAttempt(w) ==
    /\ wpc[w] = "answered"
    /\ StillMyClaim(w)
    /\ state' = StateAfter(w)
    /\ stamp' = 0 /\ due' = FALSE /\ stale' = FALSE
    /\ remembered' = FALSE
    /\ LET retry == StateAfter(w) = "pending" IN
         /\ asks' = [ a \in Schedulers |->
                        IF retry /\ a = w THEN "next" ELSE Past(asks[a]) ]
         /\ IF retry
            THEN /\ tasks' = { Past(n) : n \in tasks }
                 /\ wpc' = [ wpc EXCEPT ![w] = "rescheduling" ]
                 /\ UNCHANGED << claim, answer >>
            ELSE /\ tasks' \in WithoutTask("other", { Past(n) : n \in tasks })
                 /\ Rest(w)
    /\ UNCHANGED << attempts, creator, replays, faults, accepted >>

(* Otherwise the completion matches no row, and the request is a noop. *)
CompletionFenced(w) ==
    /\ wpc[w] = "answered"
    /\ ~StillMyClaim(w)
    /\ tasks' \in WithoutTask("other", tasks)
    /\ Rest(w)
    /\ UNCHANGED << row, remembered, asks, creator, replays, faults, accepted >>

(* The retry is scheduled, then the request answered. *)
ScheduleRetry(w) ==
    /\ wpc[w] = "rescheduling"
    /\ \E left \in WithoutTask("other", tasks) : Schedule(asks[w], left)
    /\ asks' = [ asks EXCEPT ![w] = "none" ]
    /\ Rest(w)
    /\ UNCHANGED << row, creator, replays, faults, accepted >>

(* continueOnSchedulingFailure: answered 200 with no retry scheduled. *)
RetrySchedulingFails(w) ==
    /\ wpc[w] = "rescheduling"
    /\ Fault
    /\ tasks' \in WithoutTask("other", tasks)
    /\ asks' = [ asks EXCEPT ![w] = "none" ]
    /\ Rest(w)
    /\ UNCHANGED << row, remembered, creator, replays, accepted >>

(* The process dies, or the store fails and the request is answered 500:     *)
(* either way the task is not acknowledged.                                  *)
WorkerStops(w) ==
    /\ wpc[w] # "idle"
    /\ Fault
    /\ asks' = [ asks EXCEPT ![w] = "none" ]
    /\ Rest(w)
    /\ UNCHANGED << row, queue, creator, replays, accepted >>

-----------------------------------------------------------------------------
(* Recovering it: recoverWebhookDeliveryScheduling. *)

(* Mutant of Recoverable: rows left in processing are not looked for. *)
OnlyPending == state = "pending"

Recoverable == state \in { "pending", "processing" }

(* toWebhookDeliveryRecoverySchedule: a pending row is scheduled again for   *)
(* its next_attempt_at, under the same name; a claim for the end of its      *)
(* timeout or, past that, for the time of the recovery, a name never used.   *)
ListForRecovery ==
    /\ asks["recovery"] = "none"
    /\ Recoverable
    /\ asks' = [ asks EXCEPT !["recovery"] =
                    IF state = "processing" /\ stale THEN "other" ELSE "next" ]
    /\ UNCHANGED << row, queue, creator, worker, replays, faults, accepted >>

-----------------------------------------------------------------------------
(* The environment. *)

(* Cloud Tasks gives up a task its retry_config does not let it try again.   *)
DropTask(n) ==
    /\ n \in tasks
    /\ tasks' = tasks \ {n}
    /\ Fault
    /\ UNCHANGED << row, remembered, asks, creator, worker, replays, accepted >>

(* Cloud Tasks forgets the name of a task that is gone. *)
ForgetName ==
    /\ remembered /\ "next" \notin tasks
    /\ remembered' = FALSE
    /\ UNCHANGED << row, tasks, asks, creator, worker, replays, faults, accepted >>

DueArrives ==
    /\ state = "pending" /\ ~due
    /\ due' = TRUE
    /\ UNCHANGED << state, attempts, stamp, stale, queue, asks, creator, worker, replays,
                    faults, accepted >>

(* The processing timeout is six times the sender's: it passes over a worker *)
(* that is still at it only if that worker stalls.                           *)
TimeoutElapses ==
    /\ state = "processing" /\ ~stale
    /\ stale' = TRUE
    /\ IF \E w \in Workers : wpc[w] \in { "sending", "answered" } /\ StillMyClaim(w)
       THEN Fault
       ELSE UNCHANGED faults
    /\ UNCHANGED << state, attempts, stamp, due, queue, asks, creator, worker, replays,
                    accepted >>

-----------------------------------------------------------------------------

Dispatch(w, n) == ClaimAttempt(w, n) \/ NothingToClaim(w, n)

Answering(w) ==
    \/ Send(w) \/ CompleteAttempt(w) \/ CompletionFenced(w) \/ ScheduleRetry(w)

Next ==
    \/ CreateDelivery \/ CreatorDies \/ Replay
    \/ \E a \in Jobs : ScheduleAsked(a) \/ SchedulingFails(a)
    \/ \E w \in Workers, n \in Names : ClaimAttempt(w, n) \/ NothingToClaim(w, n)
    \/ \E w \in Workers : \/ Send(w) \/ CompleteAttempt(w) \/ CompletionFenced(w)
                          \/ ScheduleRetry(w) \/ RetrySchedulingFails(w) \/ WorkerStops(w)
    \/ ListForRecovery
    \/ \E n \in Names : DropTask(n)
    \/ ForgetName \/ DueArrives \/ TimeoutElapses

(* A live process goes on; Cloud Tasks dispatches what is due and forgets    *)
(* old names; the recovery job runs on a schedule; time passes.              *)
Fairness ==
    /\ WF_vars(CreateDelivery)
    /\ \A a \in Jobs : WF_vars(ScheduleAsked(a))
    /\ \A w \in Workers : WF_vars(Answering(w))
    /\ \A n \in Names : WF_vars(\E w \in Workers : Dispatch(w, n))
    /\ WF_vars(ListForRecovery)
    /\ WF_vars(ForgetName)
    /\ WF_vars(DueArrives) /\ WF_vars(TimeoutElapses)

Spec == Init /\ [][Next]_vars /\ Fairness

-----------------------------------------------------------------------------
(* What a delivery promises. *)

Settled == state \in { "delivered", "failed" }

(* A delivery is recorded as delivered only if the endpoint took the event   *)
(* since the row was last armed: an attempt that a replay or a takeover has  *)
(* overtaken never completes the row in place of the attempt that owns it.   *)
DeliveredWasAccepted == state = "delivered" => accepted

(* An outcome stands: duplicate tasks, recovered tasks and late completions  *)
(* leave a delivered or failed row alone until a replay re-arms it.          *)
OutcomeStands == [][Settled /\ state' # state => replays' # replays]_vars

(* The attempts of a delivery are bounded by the limit of five plus one for  *)
(* every crash or stall: takeovers count, and no delivery is sent for ever.  *)
AttemptBudget ==
    /\ attempts <= MaxAttempts + faults
    /\ state = "pending" => attempts < MaxAttempts

(* No task is lost for good: whatever dies, stalls or is dropped, a delivery *)
(* that was armed comes to an outcome, since recovery asks for a new task    *)
(* for what is pending or abandoned.                                         *)
ArmedDeliverySettles == (state \in { "pending", "processing" }) ~> Settled

(* The documentation's at-least-once delivery: an event that is committed    *)
(* gets a delivery row, from which it is then attempted.                     *)
EventGetsADelivery == (creator = "committed") ~> (state # "absent")

(* The documentation's retries: a delivery is given up only after all its    *)
(* attempts, whatever the endpoint answers that is not a 2xx.                *)
FailedAfterAllAttempts == state = "failed" => attempts >= MaxAttempts

=============================================================================
