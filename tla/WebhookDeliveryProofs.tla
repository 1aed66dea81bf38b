------------------------ MODULE WebhookDeliveryProofs ------------------------
(***************************************************************************)
(* Proofs about one webhook delivery, for any number of workers, attempts, *)
(* replays and faults: types, the fencing of attempts, the standing of     *)
(* outcomes and the bound on attempts.  None of them needs fairness.       *)
(***************************************************************************)
EXTENDS WebhookDelivery, TLAPS

-----------------------------------------------------------------------------
(* Types. *)

(* What an answer and a request for a retry say of a worker's place: without *)
(* it, the types of the row and of the queue are not inductive.              *)
WorkerPlaces ==
    \A w \in Workers :
        /\ wpc[w] \in { "idle", "sending" } => answer[w] = "none"
        /\ wpc[w] = "answered" => answer[w] # "none"
        /\ wpc[w] = "rescheduling" => asks[w] # "none"

TypeInv == TypeOK /\ WorkerPlaces

LEMMA InitTyped == Init => TypeInv
<1> SUFFICES ASSUME Init PROVE TypeInv
  OBVIOUS
<1>1. /\ asks \in [ Schedulers -> Names \cup {"none"} ]
      /\ claim \in [ Workers -> [ count : Nat, start : Starts \cup {0} ] ]
      /\ replays \in 0..MaxReplays /\ faults \in 0..MaxFaults
  BY FaultsAssumption DEF Init, NoClaim
<1>2. due \in BOOLEAN /\ stale \in BOOLEAN /\ remembered \in BOOLEAN /\ accepted \in BOOLEAN
  BY DEF Init
<1>3. /\ wpc \in [ Workers -> { "idle", "sending", "answered", "rescheduling" } ]
      /\ answer \in [ Workers -> { "none", "delivered", "retryable", "fatal" } ]
      /\ WorkerPlaces
  BY DEF Init, WorkerPlaces
<1> QED
  BY <1>1, <1>2, <1>3 DEF Init, TypeOK, TypeInv

(* Tasks and requests keep their kinds of names when the row moves on. *)
LEMMA PastTyped ==
    ASSUME NEW n \in Names \cup {"none"}
    PROVE  /\ Past(n) \in Names \cup {"none"}
           /\ n \in Names => Past(n) \in Names
  BY DEF Past, Names

LEMMA ArmTyped ==
    ASSUME TypeOK, NEW a \in Schedulers, ArmRow(a)
    PROVE  /\ state' \in { "absent", "pending", "processing", "delivered", "failed" }
           /\ attempts' \in Nat /\ stamp' \in Starts \cup {0}
           /\ due' \in BOOLEAN /\ stale' \in BOOLEAN
           /\ tasks' \subseteq Names /\ remembered' \in BOOLEAN
           /\ asks' \in [ Schedulers -> Names \cup {"none"} ]
           /\ accepted' \in BOOLEAN
<1>1. tasks' \subseteq Names
  BY PastTyped DEF TypeOK, ArmRow, WaitForNewTime
<1>2. asks' \in [ Schedulers -> Names \cup {"none"} ]
  BY PastTyped DEF TypeOK, ArmRow, Names
<1> QED
  BY <1>1, <1>2 DEF ArmRow, WaitForNewTime

LEMMA StepTyped == TypeInv /\ [Next]_vars => TypeOK'
<1> SUFFICES ASSUME TypeInv, [Next]_vars PROVE TypeOK'
  OBVIOUS
<1> USE DEF row, queue, worker, TypeInv
<1>1. CASE CreateDelivery
  <2>1. "creator" \in Schedulers
    BY DEF Schedulers, Jobs
  <2>2. CASE state = "absent"
    BY <1>1, <2>1, <2>2, ArmTyped DEF CreateDelivery, TypeOK
  <2>3. CASE state # "absent"
    BY <1>1, <2>1, <2>3 DEF CreateDelivery, TypeOK, Names
  <2> QED
    BY <2>2, <2>3
<1>2. CASE CreatorDies
  BY <1>2, FaultsAssumption DEF CreatorDies, Fault, TypeOK
<1>3. CASE Replay
  <2>1. "replay" \in Schedulers
    BY DEF Schedulers, Jobs
  <2>2. replays' \in 0..MaxReplays
    BY <1>3, FaultsAssumption DEF Replay, TypeOK
  <2> QED
    BY <1>3, <2>1, <2>2, ArmTyped DEF Replay, TypeOK
<1>4. ASSUME NEW a \in Jobs, ScheduleAsked(a) PROVE TypeOK'
  BY <1>4 DEF ScheduleAsked, Schedule, TypeOK, Names, Schedulers
<1>5. ASSUME NEW a \in Jobs, SchedulingFails(a) PROVE TypeOK'
  BY <1>5, FaultsAssumption DEF SchedulingFails, Fault, TypeOK, Schedulers
<1>6. ASSUME NEW w \in Workers, NEW n \in Names, ClaimAttempt(w, n) PROVE TypeOK'
  <2>1. tasks' \subseteq Names /\ asks' \in [ Schedulers -> Names \cup {"none"} ]
    BY <1>6, PastTyped DEF ClaimAttempt, WaitForNewTime, TypeOK
  <2>2. attempts' \in Nat /\ stamp' \in Starts
    BY <1>6 DEF ClaimAttempt, TypeOK
  <2>3. claim' \in [ Workers -> [ count : Nat, start : Starts \cup {0} ] ]
    BY <1>6, <2>2 DEF ClaimAttempt, TypeOK
  <2> QED
    BY <1>6, <2>1, <2>2, <2>3 DEF ClaimAttempt, WaitForNewTime, TypeOK
<1>7. ASSUME NEW w \in Workers, NEW n \in Names, NothingToClaim(w, n) PROVE TypeOK'
  BY <1>7 DEF NothingToClaim, WithoutTask, TypeOK
<1>8. ASSUME NEW w \in Workers, Send(w) PROVE TypeOK'
  BY <1>8 DEF Send, TypeOK
<1>9. ASSUME NEW w \in Workers, CompleteAttempt(w) PROVE TypeOK'
  <2>1. tasks' \subseteq Names /\ asks' \in [ Schedulers -> Names \cup {"none"} ]
    BY <1>9, PastTyped DEF CompleteAttempt, WithoutTask, TypeOK, Names
  <2>2. answer[w] \in { "delivered", "retryable", "fatal" }
    BY <1>9 DEF CompleteAttempt, TypeOK, WorkerPlaces
  <2>3. state' \in { "pending", "delivered", "failed" }
    BY <1>9, <2>2 DEF CompleteAttempt, StateAfter
  <2>4. due' \in BOOLEAN /\ stale' \in BOOLEAN /\ remembered' \in BOOLEAN
    BY <1>9 DEF CompleteAttempt
  <2>5. /\ wpc' \in [ Workers -> { "idle", "sending", "answered", "rescheduling" } ]
        /\ claim' \in [ Workers -> [ count : Nat, start : Starts \cup {0} ] ]
        /\ answer' \in [ Workers -> { "none", "delivered", "retryable", "fatal" } ]
    <3>1. CASE StateAfter(w) = "pending"
      BY <1>9, <3>1 DEF CompleteAttempt, TypeOK
    <3>2. CASE StateAfter(w) # "pending"
      BY <1>9, <3>2, SMTT(30) DEF CompleteAttempt, Rest, NoClaim, TypeOK
    <3> QED
      BY <3>1, <3>2
  <2> QED
    BY <1>9, <2>1, <2>3, <2>4, <2>5 DEF CompleteAttempt, TypeOK
<1>10. ASSUME NEW w \in Workers, CompletionFenced(w) PROVE TypeOK'
  BY <1>10 DEF CompletionFenced, WithoutTask, Rest, NoClaim, TypeOK
<1>11. ASSUME NEW w \in Workers, ScheduleRetry(w) PROVE TypeOK'
  <2>1. asks[w] \in Names
    BY <1>11 DEF ScheduleRetry, TypeOK, WorkerPlaces, Schedulers
  <2>2. tasks' \subseteq Names /\ remembered' \in BOOLEAN
    BY <1>11, <2>1 DEF ScheduleRetry, Schedule, WithoutTask, TypeOK
  <2> QED
    BY <1>11, <2>2 DEF ScheduleRetry, Rest, NoClaim, TypeOK
<1>12. ASSUME NEW w \in Workers, RetrySchedulingFails(w) PROVE TypeOK'
  BY <1>12, FaultsAssumption
  DEF RetrySchedulingFails, Fault, WithoutTask, Rest, NoClaim, TypeOK, Schedulers
<1>13. ASSUME NEW w \in Workers, WorkerStops(w) PROVE TypeOK'
  BY <1>13, FaultsAssumption DEF WorkerStops, Fault, Rest, NoClaim, TypeOK, Schedulers
<1>14. CASE ListForRecovery
  BY <1>14 DEF ListForRecovery, TypeOK, Schedulers, Jobs, Names
<1>15. ASSUME NEW n \in Names, DropTask(n) PROVE TypeOK'
  BY <1>15, FaultsAssumption DEF DropTask, Fault, TypeOK
<1>16. CASE ForgetName
  BY <1>16 DEF ForgetName, TypeOK
<1>17. CASE DueArrives
  BY <1>17 DEF DueArrives, TypeOK
<1>18. CASE TimeoutElapses
  BY <1>18, FaultsAssumption DEF TimeoutElapses, Fault, TypeOK
<1>19. CASE UNCHANGED vars
  BY <1>19 DEF vars, TypeOK
<1> QED
  BY <1>1, <1>2, <1>3, <1>4, <1>5, <1>6, <1>7, <1>8, <1>9, <1>10, <1>11, <1>12, <1>13,
     <1>14, <1>15, <1>16, <1>17, <1>18, <1>19 DEF Next

LEMMA StepPlaces == TypeInv /\ [Next]_vars => WorkerPlaces'
<1> SUFFICES ASSUME TypeInv, [Next]_vars, NEW w \in Workers
             PROVE  /\ wpc'[w] \in { "idle", "sending" } => answer'[w] = "none"
                    /\ wpc'[w] = "answered" => answer'[w] # "none"
                    /\ wpc'[w] = "rescheduling" => asks'[w] # "none"
  BY DEF WorkerPlaces
<1> USE WorkersAssumption DEF row, queue, worker, TypeInv, TypeOK, WorkerPlaces
<1>0. w \in Schedulers /\ w \notin Jobs
  BY DEF Schedulers
<1>p. ASSUME NEW n PROVE n # "none" => Past(n) # "none"
  BY DEF Past
<1>1. CASE CreateDelivery
  BY <1>0, <1>p, <1>1 DEF CreateDelivery, ArmRow, Jobs
<1>2. CASE Replay
  BY <1>0, <1>p, <1>2 DEF Replay, ArmRow, Jobs
<1>3. ASSUME NEW a \in Jobs, ScheduleAsked(a) \/ SchedulingFails(a)
      PROVE  UNCHANGED << wpc, answer >> /\ asks'[w] = asks[w]
  BY <1>0, <1>3 DEF ScheduleAsked, SchedulingFails
<1>4. CASE ListForRecovery
  BY <1>0, <1>4 DEF ListForRecovery, Jobs
<1>5. ASSUME NEW v \in Workers, NEW n \in Names, ClaimAttempt(v, n)
      PROVE  /\ wpc'[w] \in { "idle", "sending" } => answer'[w] = "none"
             /\ wpc'[w] = "answered" => answer'[w] # "none"
             /\ wpc'[w] = "rescheduling" => asks'[w] # "none"
  BY <1>0, <1>p, <1>5 DEF ClaimAttempt, WakeUp
<1>6. ASSUME NEW v \in Workers, Send(v)
      PROVE  /\ wpc'[w] \in { "idle", "sending" } => answer'[w] = "none"
             /\ wpc'[w] = "answered" => answer'[w] # "none"
             /\ wpc'[w] = "rescheduling" => asks'[w] # "none"
  BY <1>6 DEF Send
<1>7. ASSUME NEW v \in Workers, CompleteAttempt(v)
      PROVE  /\ wpc'[w] \in { "idle", "sending" } => answer'[w] = "none"
             /\ wpc'[w] = "answered" => answer'[w] # "none"
             /\ wpc'[w] = "rescheduling" => asks'[w] # "none"
  BY <1>0, <1>p, <1>7 DEF CompleteAttempt, Rest
<1>8. ASSUME NEW v \in Workers,
             \/ CompletionFenced(v) \/ ScheduleRetry(v)
             \/ RetrySchedulingFails(v) \/ WorkerStops(v)
      PROVE  /\ wpc'[w] \in { "idle", "sending" } => answer'[w] = "none"
             /\ wpc'[w] = "answered" => answer'[w] # "none"
             /\ wpc'[w] = "rescheduling" => asks'[w] # "none"
  BY <1>0, <1>8 DEF CompletionFenced, ScheduleRetry, RetrySchedulingFails, WorkerStops, Rest
<1>9. CASE UNCHANGED << wpc, answer, asks >>
  BY <1>9
<1> QED
  BY <1>1, <1>2, <1>3, <1>4, <1>5, <1>6, <1>7, <1>8, <1>9
  DEF Next, vars, CreatorDies, NothingToClaim, DropTask, ForgetName, DueArrives,
      TimeoutElapses

LEMMA TypeInvariance == Spec => []TypeInv
<1>1. TypeInv /\ [Next]_vars => TypeInv'
  BY StepTyped, StepPlaces DEF TypeInv
<1> QED
  BY InitTyped, <1>1, PTL DEF Spec

(* Every variable of a delivery keeps its type, whatever dies or is lost.    *)
THEOREM TypeCorrectness == Spec => []TypeOK
<1>1. TypeInv => TypeOK
  BY DEF TypeInv
<1> QED
  BY <1>1, TypeInvariance, PTL

-----------------------------------------------------------------------------
(* The fencing of attempts. *)

(* A worker that is not idle has claimed an attempt, and no two workers      *)
(* remember the same start: a claim that was overtaken cannot match the row. *)
ClaimsDiffer ==
    \A v, w \in Workers :
        /\ wpc[w] # "idle" => claim[w].start # 0
        /\ claim[w].start # 0 /\ v # w => claim[v].start # claim[w].start

(* If the worker that still owns the attempt heard a 2xx, the endpoint took  *)
(* the event since the row was armed.                                        *)
OwnAnswerIsTrue ==
    \A w \in Workers :
        wpc[w] = "answered" /\ answer[w] = "delivered" /\ StillMyClaim(w) => accepted

FenceInv == TypeInv /\ ClaimsDiffer /\ OwnAnswerIsTrue /\ DeliveredWasAccepted

LEMMA InitFenceInv == Init => FenceInv
<1> SUFFICES ASSUME Init PROVE FenceInv
  OBVIOUS
<1>1. TypeInv
  BY InitTyped
<1>2. ClaimsDiffer
  BY DEF Init, ClaimsDiffer, NoClaim
<1> QED
  BY <1>1, <1>2 DEF Init, FenceInv, OwnAnswerIsTrue, DeliveredWasAccepted

LEMMA StepClaimsDiffer == FenceInv /\ [Next]_vars => ClaimsDiffer'
<1> SUFFICES ASSUME FenceInv, [Next]_vars PROVE ClaimsDiffer'
  OBVIOUS
<1> USE StartsAssumption DEF FenceInv, TypeInv, TypeOK, ClaimsDiffer, row, queue, worker
<1>1. ASSUME NEW w \in Workers, NEW n \in Names, ClaimAttempt(w, n) PROVE ClaimsDiffer'
  <2>1. /\ stamp' \in Starts /\ stamp' # 0
        /\ \A v \in Workers : claim[v].start # stamp'
    BY <1>1 DEF ClaimAttempt, IsNew
  <2>2. /\ claim'[w].start = stamp'
        /\ \A v \in Workers \ {w} : claim'[v] = claim[v] /\ wpc'[v] = wpc[v]
    BY <1>1 DEF ClaimAttempt
  <2> QED
    BY <2>1, <2>2
<1>2. ASSUME NEW w \in Workers, Rest(w) PROVE ClaimsDiffer'
  <2>1. /\ claim'[w].start = 0 /\ wpc'[w] = "idle"
        /\ \A v \in Workers \ {w} : claim'[v] = claim[v] /\ wpc'[v] = wpc[v]
    BY <1>2 DEF Rest, NoClaim
  <2> QED
    BY <2>1
<1>3. ASSUME NEW w \in Workers, wpc[w] # "idle", UNCHANGED claim,
             NEW p, wpc' = [ wpc EXCEPT ![w] = p ]
      PROVE  ClaimsDiffer'
  BY <1>3
<1>4. CASE UNCHANGED << wpc, claim >>
  BY <1>4
<1>5. ASSUME NEW w \in Workers, Send(w) PROVE ClaimsDiffer'
  BY <1>3, <1>5 DEF Send
<1>6. ASSUME NEW w \in Workers, CompleteAttempt(w) PROVE ClaimsDiffer'
  BY <1>2, <1>3, <1>6 DEF CompleteAttempt
<1>7. ASSUME NEW w \in Workers,
             \/ CompletionFenced(w) \/ ScheduleRetry(w)
             \/ RetrySchedulingFails(w) \/ WorkerStops(w)
      PROVE  ClaimsDiffer'
  BY <1>2, <1>7 DEF CompletionFenced, ScheduleRetry, RetrySchedulingFails, WorkerStops
<1> QED
  BY <1>1, <1>4, <1>5, <1>6, <1>7
  DEF Next, vars, CreateDelivery, CreatorDies, Replay, ScheduleAsked, SchedulingFails,
      NothingToClaim, ListForRecovery, DropTask, ForgetName, DueArrives, TimeoutElapses

(* Nothing but arming the row forgets that the endpoint took the event, and  *)
(* that takes the attempt in flight away from its worker.                    *)
LEMMA StepFence ==
    FenceInv /\ [Next]_vars => OwnAnswerIsTrue' /\ DeliveredWasAccepted'
<1> SUFFICES ASSUME FenceInv, [Next]_vars PROVE OwnAnswerIsTrue' /\ DeliveredWasAccepted'
  OBVIOUS
<1> USE DEF FenceInv, TypeInv, TypeOK, OwnAnswerIsTrue, DeliveredWasAccepted, StillMyClaim,
            row, queue, worker
<1>1. ASSUME NEW a \in Schedulers, ArmRow(a)
      PROVE  OwnAnswerIsTrue' /\ DeliveredWasAccepted'
  BY <1>1 DEF ArmRow
<1>2. ASSUME NEW w \in Workers, NEW n \in Names, ClaimAttempt(w, n)
      PROVE  OwnAnswerIsTrue' /\ DeliveredWasAccepted'
  BY <1>2 DEF ClaimAttempt, IsNew
<1>3. ASSUME NEW w \in Workers, Send(w) PROVE OwnAnswerIsTrue' /\ DeliveredWasAccepted'
  BY <1>3 DEF Send
<1>4. ASSUME NEW w \in Workers, CompleteAttempt(w)
      PROVE  OwnAnswerIsTrue' /\ DeliveredWasAccepted'
  <2>1. answer[w] \in { "delivered", "retryable", "fatal" }
    BY <1>4 DEF CompleteAttempt, WorkerPlaces
  <2>2. state' # "processing" /\ (state' = "delivered" => answer[w] = "delivered")
    BY <1>4, <2>1 DEF CompleteAttempt, StateAfter
  <2>3. answer[w] = "delivered" => accepted
    BY <1>4 DEF CompleteAttempt
  <2> QED
    BY <1>4, <2>2, <2>3 DEF CompleteAttempt
<1>5. ASSUME NEW w \in Workers, Rest(w), UNCHANGED << row, accepted >>
      PROVE  OwnAnswerIsTrue' /\ DeliveredWasAccepted'
  BY <1>5 DEF Rest
<1>6. CASE UNCHANGED << state, attempts, stamp, worker, accepted >>
  BY <1>6
<1>7. ASSUME NEW w \in Workers,
             \/ CompletionFenced(w) \/ ScheduleRetry(w)
             \/ RetrySchedulingFails(w) \/ WorkerStops(w)
      PROVE  OwnAnswerIsTrue' /\ DeliveredWasAccepted'
  BY <1>5, <1>7 DEF CompletionFenced, ScheduleRetry, RetrySchedulingFails, WorkerStops
<1>8. "creator" \in Schedulers /\ "replay" \in Schedulers
  BY DEF Schedulers, Jobs
<1> QED
  BY <1>1, <1>2, <1>3, <1>4, <1>6, <1>7, <1>8
  DEF Next, vars, CreateDelivery, CreatorDies, Replay, ScheduleAsked, SchedulingFails,
      NothingToClaim, ListForRecovery, DropTask, ForgetName, DueArrives, TimeoutElapses

LEMMA FenceInvariance == Spec => []FenceInv
<1>1. FenceInv /\ [Next]_vars => FenceInv'
  BY StepTyped, StepPlaces, StepClaimsDiffer, StepFence DEF FenceInv, TypeInv
<1> QED
  BY InitFenceInv, <1>1, PTL DEF Spec

(* A delivery recorded as delivered was accepted since the row was armed: an *)
(* attempt that a takeover or a replay has overtaken never completes the row.*)
THEOREM DeliveredWasAcceptedAlways == Spec => []DeliveredWasAccepted
<1>1. FenceInv => DeliveredWasAccepted
  BY DEF FenceInv
<1> QED
  BY <1>1, FenceInvariance, PTL

(* A delivered or failed row is left alone by late tasks and completions,    *)
(* until a replay re-arms it.                                                *)
THEOREM OutcomeStandsAlways == Spec => OutcomeStands
<1>1. TypeInv /\ [Next]_vars => [Settled /\ state' # state => replays' # replays]_vars
  <2> SUFFICES ASSUME TypeInv, Next, Settled, state' # state PROVE replays' # replays
    OBVIOUS
  <2> USE DEF Settled, row
  <2>1. CASE Replay
    BY <2>1 DEF Replay, TypeInv, TypeOK
  <2> QED
    BY <2>1
    DEF Next, CreateDelivery, CreatorDies, ScheduleAsked, SchedulingFails, ClaimAttempt,
        Claimable, NothingToClaim, Send, CompleteAttempt, StillMyClaim, CompletionFenced,
        ScheduleRetry, RetrySchedulingFails, WorkerStops, ListForRecovery, DropTask,
        ForgetName, DueArrives, TimeoutElapses
<1> QED
  BY <1>1, TypeInvariance, PTL DEF Spec, OutcomeStands

-----------------------------------------------------------------------------
(* The bound on attempts. *)

(* A worker that may still complete the attempt that the row is in.          *)
Attempting(w) == wpc[w] \in { "sending", "answered" } /\ StillMyClaim(w)

(* An attempt that has lost its worker, or its time, was paid for by a fault.*)
LostAttemptsArePaid ==
    state = "processing" /\ (stale \/ ~\E w \in Workers : Attempting(w))
        => attempts < MaxAttempts + faults

BudgetInv == FenceInv /\ AttemptBudget /\ LostAttemptsArePaid

LEMMA InitBudgetInv == Init => AttemptBudget /\ LostAttemptsArePaid
  BY AttemptsAssumption DEF Init, AttemptBudget, LostAttemptsArePaid

LEMMA StepBudget == BudgetInv /\ [Next]_vars => AttemptBudget' /\ LostAttemptsArePaid'
<1> SUFFICES ASSUME BudgetInv, [Next]_vars PROVE AttemptBudget' /\ LostAttemptsArePaid'
  OBVIOUS
<1> USE AttemptsAssumption DEF BudgetInv, FenceInv, TypeInv, TypeOK, AttemptBudget, LostAttemptsArePaid,
            row, queue, worker
<1>0. attempts \in Nat /\ faults \in Nat /\ MaxAttempts \in Nat \ {0}
  BY FaultsAssumption
<1> HIDE DEF TypeInv, TypeOK
<1>1. ASSUME NEW a \in Schedulers, ArmRow(a), UNCHANGED faults
      PROVE  AttemptBudget' /\ LostAttemptsArePaid'
  BY <1>0, <1>1 DEF ArmRow
<1>2. ASSUME NEW w \in Workers, NEW n \in Names, ClaimAttempt(w, n)
      PROVE  AttemptBudget' /\ LostAttemptsArePaid'
  <2>1. attempts < MaxAttempts + faults
    BY <1>0, <1>2 DEF ClaimAttempt, Claimable
  <2>2. Attempting(w)' /\ stale' = FALSE
    BY <1>2 DEF ClaimAttempt, Attempting, StillMyClaim, TypeInv, TypeOK
  <2> QED
    BY <1>0, <1>2, <2>1, <2>2 DEF ClaimAttempt
<1>3. ASSUME NEW w \in Workers, CompleteAttempt(w)
      PROVE  AttemptBudget' /\ LostAttemptsArePaid'
  <2>1. answer[w] \in { "delivered", "retryable", "fatal" }
    BY <1>3 DEF CompleteAttempt, TypeInv, TypeOK, WorkerPlaces
  <2>2. state' # "processing" /\ (state' = "pending" => ~AttemptsExhausted(claim[w].count))
    BY <1>3, <2>1 DEF CompleteAttempt, StateAfter
  <2>3. attempts' = claim[w].count /\ attempts' = attempts /\ faults' = faults
    BY <1>3 DEF CompleteAttempt, StillMyClaim
  <2> QED
    BY <1>0, <2>2, <2>3 DEF AttemptsExhausted
<1>4. ASSUME faults' = faults + 1, UNCHANGED << state, attempts >>
      PROVE  AttemptBudget' /\ LostAttemptsArePaid'
  BY <1>0, <1>4
<1>5. ASSUME UNCHANGED << state, attempts, stale, faults >>,
             \A w \in Workers : Attempting(w) => Attempting(w)'
      PROVE  AttemptBudget' /\ LostAttemptsArePaid'
  BY <1>0, <1>5
<1>6. ASSUME NEW w \in Workers, Rest(w), ~Attempting(w), UNCHANGED << row, faults >>
      PROVE  AttemptBudget' /\ LostAttemptsArePaid'
  <2>1. \A v \in Workers : Attempting(v) => Attempting(v)'
    BY <1>6 DEF Rest, Attempting, StillMyClaim, TypeInv, TypeOK
  <2> QED
    BY <1>5, <1>6, <2>1
<1>7. ASSUME NEW w \in Workers, Send(w) PROVE AttemptBudget' /\ LostAttemptsArePaid'
  <2>1. \A v \in Workers : Attempting(v) => Attempting(v)'
    BY <1>7 DEF Send, Attempting, StillMyClaim, TypeInv, TypeOK
  <2> QED
    BY <1>5, <1>7, <2>1 DEF Send
<1>8. ASSUME NEW w \in Workers, CompletionFenced(w) \/ ScheduleRetry(w)
      PROVE  AttemptBudget' /\ LostAttemptsArePaid'
  BY <1>6, <1>8 DEF CompletionFenced, ScheduleRetry, Attempting
<1>9. ASSUME NEW w \in Workers, RetrySchedulingFails(w) \/ WorkerStops(w)
      PROVE  AttemptBudget' /\ LostAttemptsArePaid'
  BY <1>4, <1>9 DEF RetrySchedulingFails, WorkerStops, Fault
<1>10. CASE TimeoutElapses
  <2>1. CASE \E w \in Workers : Attempting(w)
    BY <1>4, <1>10, <2>1 DEF TimeoutElapses, Attempting, Fault
  <2>2. CASE ~\E w \in Workers : Attempting(w)
    BY <1>0, <1>10, <2>2 DEF TimeoutElapses, Attempting, StillMyClaim
  <2> QED
    BY <2>1, <2>2
<1>11. ASSUME UNCHANGED << state, attempts, stamp, stale, worker, faults >>
       PROVE  AttemptBudget' /\ LostAttemptsArePaid'
  BY <1>5, <1>11 DEF Attempting, StillMyClaim
<1>12. ASSUME CreatorDies \/ (\E a \in Jobs : SchedulingFails(a)) \/ (\E n \in Names : DropTask(n))
       PROVE  AttemptBudget' /\ LostAttemptsArePaid'
  BY <1>4, <1>12 DEF CreatorDies, SchedulingFails, DropTask, Fault
<1>13. "creator" \in Schedulers /\ "replay" \in Schedulers
  BY DEF Schedulers, Jobs
<1>14. ASSUME CreateDelivery \/ Replay PROVE AttemptBudget' /\ LostAttemptsArePaid'
  BY <1>1, <1>11, <1>13, <1>14 DEF CreateDelivery, Replay
<1>15. ASSUME \/ \E a \in Jobs : ScheduleAsked(a)
              \/ \E w \in Workers, n \in Names : NothingToClaim(w, n)
              \/ ListForRecovery \/ ForgetName \/ DueArrives \/ UNCHANGED vars
       PROVE  AttemptBudget' /\ LostAttemptsArePaid'
  BY <1>11, <1>15 DEF ScheduleAsked, NothingToClaim, ListForRecovery, ForgetName, DueArrives, vars
<1> QED
  BY <1>2, <1>3, <1>7, <1>8, <1>9, <1>10, <1>12, <1>14, <1>15 DEF Next

(* However its attempts crash, stall or are taken over, a delivery is never  *)
(* attempted more often than the limit plus the faults there were.           *)
THEOREM AttemptBudgetAlways == Spec => []AttemptBudget
<1>1. Init => BudgetInv
  BY InitFenceInv, InitBudgetInv DEF BudgetInv
<1>2. BudgetInv /\ [Next]_vars => BudgetInv'
  BY StepTyped, StepPlaces, StepClaimsDiffer, StepFence, StepBudget
  DEF BudgetInv, FenceInv, TypeInv
<1>3. BudgetInv => AttemptBudget
  BY DEF BudgetInv
<1> QED
  BY <1>1, <1>2, <1>3, PTL DEF Spec

=============================================================================
