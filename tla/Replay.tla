------------------------------- MODULE Replay -------------------------------
(***************************************************************************)
(* Replays of ONE mailbox to ONE endpoint: their creation through the API, *)
(* where overlapping windows are refused, and their dispatch by control    *)
(* jobs, which re-arms and schedules a delivery for every event in the     *)
(* window.                                                                 *)
(*                                                                         *)
(* A creation first reads the active replays and then inserts, in a READ   *)
(* COMMITTED transaction; the exclusion constraint of migration 0013 has   *)
(* the last word, and concurrent inserts may deadlock on it.  A dispatch   *)
(* is a chain of transactions without a way back: nothing calls            *)
(* failReplayDispatch.                                                     *)
(***************************************************************************)
EXTENDS Naturals, FiniteSets

CONSTANTS
    Replays,        \* the creation requests, and the replays they insert
    Times,          \* instants of events and ends of windows
    Dispatches,     \* concurrent dispatches of control jobs
    MaxReplayFaults \* bound: dispatches that die

NoReplay == "no replay"

ASSUME ReplaysAssumption == NoReplay \notin Replays
ASSUME TimesAssumption == Times \subseteq Nat /\ IsFiniteSet(Times)
ASSUME ReplayFaultsAssumption == MaxReplayFaults \in Nat

VARIABLES
    window,   \* start and end of every requested replay
    request,  \* where every creation request stands
    conflict, \* the replay that a refused request is told of
    status,   \* replays.status
    replayed, \* replays.events_replayed
    log,      \* mailbox_events: the instants there is an event at
    target,   \* the replay of every dispatch
    stage,    \* where every dispatch stands
    selected, \* the events a dispatch has selected
    armed,    \* history: events whose delivery the replay has armed
    woken,    \* history: events for whose delivery it has scheduled a task
    rfaults

creation == << window, request, conflict >>
dispatch == << target, stage, selected >>
replayVars == << creation, status, replayed, log, dispatch, armed, woken, rfaults >>

ReplayTypeOK ==
    /\ window \in [ Replays -> [ start : Times, end : Times ] ]
    /\ request \in [ Replays -> { "new", "inserting", "looking", "created", "refused" } ]
    /\ conflict \in [ Replays -> Replays \cup {NoReplay} ]
    /\ status \in [ Replays -> { "none", "queued", "running", "completed" } ]
    /\ replayed \in [ Replays -> Nat ]
    /\ log \subseteq Times
    /\ target \in [ Dispatches -> Replays \cup {NoReplay} ]
    /\ stage \in [ Dispatches -> { "idle", "listed", "prepared", "scheduling" } ]
    /\ selected \in [ Dispatches -> SUBSET Times ]
    /\ armed \in [ Replays -> SUBSET Times ] /\ woken \in [ Replays -> SUBSET Times ]
    /\ rfaults \in 0..MaxReplayFaults

(* validateReplayTimeRange lets a window of one instant pass. *)
ReplayInit ==
    /\ window \in [ Replays -> { w \in [ start : Times, end : Times ] : w.start <= w.end } ]
    /\ request = [ r \in Replays |-> "new" ]
    /\ conflict = [ r \in Replays |-> NoReplay ]
    /\ status = [ r \in Replays |-> "none" ]
    /\ replayed = [ r \in Replays |-> 0 ]
    /\ log = {}
    /\ target = [ d \in Dispatches |-> NoReplay ]
    /\ stage = [ d \in Dispatches |-> "idle" ]
    /\ selected = [ d \in Dispatches |-> {} ]
    /\ armed = [ r \in Replays |-> {} ] /\ woken = [ r \in Replays |-> {} ]
    /\ rfaults = 0

-----------------------------------------------------------------------------
(* Creation. *)

(* Both ends belong to a window: tstzrange(start_time, end_time, '[]').      *)
Overlap(r, s) ==
    /\ window[r].start <= window[s].end
    /\ window[s].start <= window[r].end

Active(r) == status[r] \in { "queued", "running" }

(* Mutant: a replay that runs already is no conflict. *)
QueuedOverlapping(r) == { s \in Replays \ {r} : status[s] = "queued" /\ Overlap(r, s) }

(* Mutant: any active replay is named as the conflict. *)
ActiveOthers(r) == { s \in Replays \ {r} : Active(s) }

Conflicting(r) == { s \in Replays \ {r} : Active(s) /\ Overlap(r, s) }

Refuse(r, s) ==
    /\ request' = [ request EXCEPT ![r] = "refused" ]
    /\ conflict' = [ conflict EXCEPT ![r] = s ]

(* The transaction's SELECT: a conflict that is committed is answered.       *)
CheckForConflict(r) ==
    /\ request[r] = "new"
    /\ IF Conflicting(r) = {}
       THEN request' = [ request EXCEPT ![r] = "inserting" ] /\ UNCHANGED conflict
       ELSE \E s \in Conflicting(r) : Refuse(r, s)
    /\ UNCHANGED << window, status, replayed, log, dispatch, armed, woken, rfaults >>

(* The INSERT, which the exclusion constraint lets pass or not. *)
InsertReplay(r) ==
    /\ request[r] = "inserting"
    /\ IF Conflicting(r) = {}
       THEN /\ status' = [ status EXCEPT ![r] = "queued" ]
            /\ request' = [ request EXCEPT ![r] = "created" ]
       ELSE /\ request' = [ request EXCEPT ![r] = "looking" ]
            /\ UNCHANGED status
    /\ UNCHANGED << window, conflict, replayed, log, dispatch, armed, woken, rfaults >>

(* Two inserts wait for each other, and PostgreSQL ends this one. *)
InsertDeadlocks(r) ==
    /\ request[r] = "inserting"
    /\ \E s \in Replays \ {r} : request[s] = "inserting" /\ Overlap(r, s)
    /\ request' = [ request EXCEPT ![r] = "looking" ]
    /\ UNCHANGED << window, conflict, status, replayed, log, dispatch, armed, woken, rfaults >>

(* findCommittedConflict, and its retries after a race. *)
FindConflict(r) ==
    /\ request[r] = "looking"
    /\ \E s \in Conflicting(r) : Refuse(r, s)
    /\ UNCHANGED << window, status, replayed, log, dispatch, armed, woken, rfaults >>

(* None is found: the conflict is reported all the same, with the id the     *)
(* replay would have had.                                                    *)
GiveUpOnConflict(r) ==
    /\ request[r] = "looking"
    /\ Conflicting(r) = {}
    /\ Refuse(r, r)
    /\ UNCHANGED << window, status, replayed, log, dispatch, armed, woken, rfaults >>

-----------------------------------------------------------------------------
(* Dispatch. *)

InWindow(r) == { e \in log : window[r].start <= e /\ e <= window[r].end }

Rests(d) ==
    /\ stage' = [ stage EXCEPT ![d] = "idle" ]
    /\ target' = [ target EXCEPT ![d] = NoReplay ]
    /\ selected' = [ selected EXCEPT ![d] = {} ]

(* A sync commits an event. *)
EventHappens(e) ==
    /\ e \notin log
    /\ log' = log \cup {e}
    /\ UNCHANGED << creation, status, replayed, dispatch, armed, woken, rfaults >>

(* listReplayDispatchTargets: no lock, so that jobs may list the same one.   *)
ListReplay(d, r) ==
    /\ stage[d] = "idle"
    /\ status[r] = "queued"
    /\ stage' = [ stage EXCEPT ![d] = "listed" ]
    /\ target' = [ target EXCEPT ![d] = r ]
    /\ UNCHANGED << creation, status, replayed, log, selected, armed, woken, rfaults >>

(* Mutant of StillQueued: the listing is trusted. *)
StillActive(r) == Active(r)

StillQueued(r) == status[r] = "queued"

(* prepareReplayDispatch: the conditional update decides who dispatches it.  *)
PrepareReplay(d) ==
    /\ stage[d] = "listed"
    /\ IF StillQueued(target[d])
       THEN /\ status' = [ status EXCEPT ![target[d]] = "running" ]
            /\ selected' = [ selected EXCEPT ![d] = InWindow(target[d]) ]
            /\ stage' = [ stage EXCEPT ![d] = "prepared" ]
            /\ UNCHANGED target
       ELSE Rests(d) /\ UNCHANGED status
    /\ UNCHANGED << creation, replayed, log, armed, woken, rfaults >>

(* createWebhookDeliveriesForReplay. *)
ArmReplayed(d) ==
    /\ stage[d] = "prepared"
    /\ armed' = [ armed EXCEPT ![target[d]] = @ \cup selected[d] ]
    /\ stage' = [ stage EXCEPT ![d] = "scheduling" ]
    /\ UNCHANGED << creation, status, replayed, log, target, selected, woken, rfaults >>

Unscheduled(d) == selected[d] \ woken[target[d]]

ScheduleReplayed(d, e) ==
    /\ stage[d] = "scheduling"
    /\ e \in Unscheduled(d)
    /\ woken' = [ woken EXCEPT ![target[d]] = @ \cup {e} ]
    /\ UNCHANGED << creation, status, replayed, log, dispatch, armed, rfaults >>

(* Mutant: the replay is completed beside its schedules, not after them.     *)
CompleteEarly(d) ==
    /\ stage[d] = "scheduling"
    /\ status' = [ status EXCEPT ![target[d]] = "completed" ]
    /\ replayed' = [ replayed EXCEPT ![target[d]] = Cardinality(selected[d]) ]
    /\ Rests(d)
    /\ UNCHANGED << creation, log, armed, woken, rfaults >>

CompleteReplay(d) ==
    /\ stage[d] = "scheduling"
    /\ Unscheduled(d) = {}
    /\ IF status[target[d]] = "running"
       THEN /\ status' = [ status EXCEPT ![target[d]] = "completed" ]
            /\ replayed' = [ replayed EXCEPT ![target[d]] = Cardinality(selected[d]) ]
       ELSE UNCHANGED << status, replayed >>
    /\ Rests(d)
    /\ UNCHANGED << creation, log, armed, woken, rfaults >>

(* The worker dies, or a call fails and ends the job: what is prepared stays *)
(* running.                                                                  *)
DispatchDies(d) ==
    /\ stage[d] # "idle"
    /\ rfaults < MaxReplayFaults
    /\ rfaults' = rfaults + 1
    /\ Rests(d)
    /\ UNCHANGED << creation, status, replayed, log, armed, woken >>

ReplayNext ==
    \/ \E r \in Replays :
         CheckForConflict(r) \/ InsertReplay(r) \/ InsertDeadlocks(r)
             \/ FindConflict(r) \/ GiveUpOnConflict(r)
    \/ \E e \in Times : EventHappens(e)
    \/ \E d \in Dispatches :
         \/ \E r \in Replays : ListReplay(d, r)
         \/ PrepareReplay(d) \/ ArmReplayed(d) \/ CompleteReplay(d) \/ DispatchDies(d)
         \/ \E e \in Times : ScheduleReplayed(d, e)

ReplaySpec == ReplayInit /\ [][ReplayNext]_replayVars

-----------------------------------------------------------------------------

WorkedOn(r) == { d \in Dispatches : target[d] = r /\ stage[d] \in { "prepared", "scheduling" } }

(* Two active replays never overlap, however their creations interleave: the *)
(* check in the transaction is not what ensures it.                          *)
ReplaysDoNotOverlap ==
    \A r, s \in Replays : r # s /\ Active(r) /\ Active(s) => ~Overlap(r, s)

(* A refused request is told of a replay that overlaps it and was created,   *)
(* or, after a race whose winner it does not find, of itself.                *)
ConflictOverlaps ==
    \A r \in Replays : request[r] = "refused" =>
        /\ Overlap(r, conflict[r])
        /\ (conflict[r] = r \/ status[conflict[r]] # "none")
        /\ status[r] = "none"

(* A running replay is worked on by one dispatch; only one that died leaves  *)
(* a replay running that nobody works on, and that then stays so and blocks  *)
(* its window.                                                               *)
RunningReplayIsWorkedOn ==
    /\ \A r \in Replays : Cardinality(WorkedOn(r)) <= 1
    /\ Cardinality({ r \in Replays : status[r] = "running" /\ WorkedOn(r) = {} }) <= rfaults

(* A completed replay has armed and scheduled a delivery for as many events  *)
(* as it says it has replayed, all of them in its window.                    *)
CompletedReplayIsSent ==
    \A r \in Replays : status[r] = "completed" =>
        /\ woken[r] = armed[r]
        /\ Cardinality(woken[r]) = replayed[r]
        /\ \A e \in woken[r] : window[r].start <= e /\ e <= window[r].end

=============================================================================
