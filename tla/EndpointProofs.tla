--------------------------- MODULE EndpointProofs ---------------------------
(***************************************************************************)
(* Proofs about what concerns a webhook endpoint besides its deliveries:   *)
(* the health that its deliveries keep, the signature of its requests and  *)
(* the replays to it.  They hold for any number of completions, attempts,  *)
(* replays and dispatches, any tolerance and any clocks.                   *)
(***************************************************************************)
EXTENDS Replay, EndpointHealth, WebhookSignature, FiniteSetTheorems, TLAPS

-----------------------------------------------------------------------------
(* The health of an endpoint. *)

(* The completions that have counted a failure. *)
CountedFailures == { c \in Completions : step[c] = "done" /\ outcome[c] # "delivered" }

(* The state is the counter's, and the counter, as well as what a completion *)
(* has read of it, is no higher than the failures counted.                   *)
CountersAreBacked ==
    /\ health = HealthAfter(failures)
    /\ failures <= Cardinality(CountedFailures)
    /\ \A c \in Completions : step[c] = "counting" => counted[c] <= Cardinality(CountedFailures)

(* As long as no write came between a read and its write, what was read is   *)
(* still what is stored.                                                     *)
ReadsAreCurrent ==
    ~overlapped => /\ failures = streak
                   /\ \A c \in Completions : step[c] = "counting" => counted[c] = failures

HealthInv == HealthTypeOK /\ CountersAreBacked /\ ReadsAreCurrent

LEMMA CountedFailuresAreFinite ==
    /\ IsFiniteSet(CountedFailures)
    /\ Cardinality(CountedFailures) \in Nat
<1>1. CountedFailures \in SUBSET Completions
  BY DEF CountedFailures
<1> QED
  BY <1>1, CompletionsAssumption, FS_Subset, FS_CardinalityType

LEMMA HealthInitially == HealthInit => HealthInv
<1> SUFFICES ASSUME HealthInit PROVE HealthInv
  OBVIOUS
<1>1. HealthTypeOK /\ ReadsAreCurrent
  BY DEF HealthInit, HealthTypeOK, ReadsAreCurrent
<1>2. CountersAreBacked
  BY CountedFailuresAreFinite DEF HealthInit, CountersAreBacked, HealthAfter
<1> QED
  BY <1>1, <1>2 DEF HealthInv

LEMMA ReadCounterKeeps ==
    ASSUME HealthInv, NEW c \in Completions, ReadCounter(c)
    PROVE  HealthInv'
<1> USE DEF HealthInv, HealthTypeOK, ReadCounter, endpoint
<1>1. CountedFailures' = CountedFailures
  BY DEF CountedFailures
<1>2. HealthTypeOK'
  OBVIOUS
<1>3. CountersAreBacked'
  BY <1>1 DEF CountersAreBacked, HealthAfter
<1>4. ReadsAreCurrent'
  BY DEF ReadsAreCurrent
<1> QED
  BY <1>2, <1>3, <1>4

LEMMA WriteHealthKeeps ==
    ASSUME HealthInv, NEW c \in Completions, WriteHealth(c)
    PROVE  HealthInv'
<1> USE DEF HealthInv, HealthTypeOK, WriteHealth
<1>1. HealthTypeOK'
  BY DEF CountAfter, HealthAfter
<1>2. Cardinality(CountedFailures)' =
         IF outcome[c] = "delivered" THEN Cardinality(CountedFailures)
         ELSE Cardinality(CountedFailures) + 1
  <2>1. CountedFailures' = IF outcome[c] = "delivered" THEN CountedFailures
                           ELSE CountedFailures \cup {c}
    BY DEF CountedFailures
  <2>2. c \notin CountedFailures
    BY DEF CountedFailures
  <2> QED
    BY <2>1, <2>2, CountedFailuresAreFinite, FS_AddElement
<1>3. CountersAreBacked'
  BY <1>2, CountedFailuresAreFinite DEF CountersAreBacked, CountAfter
<1>4. ReadsAreCurrent'
  BY DEF ReadsAreCurrent, CountAfter
<1> QED
  BY <1>1, <1>3, <1>4

(* The invariant of a shared counter that nobody locks: it is never higher   *)
(* than the failures behind it, and exact while no two completions overlap.  *)
THEOREM HealthInvariance == HealthSpec => []HealthInv
<1>1. HealthInv /\ [HealthNext]_healthVars => HealthInv'
  <2> SUFFICES ASSUME HealthInv, [HealthNext]_healthVars PROVE HealthInv'
    OBVIOUS
  <2>1. CASE UNCHANGED healthVars
    BY <2>1 DEF healthVars, endpoint, HealthInv, HealthTypeOK, CountersAreBacked, ReadsAreCurrent,
       CountedFailures, HealthAfter
  <2> QED
    BY <2>1, ReadCounterKeeps, WriteHealthKeeps DEF HealthNext
<1> QED
  BY <1>1, HealthInitially, PTL DEF HealthSpec

(* The health columns and every completion stay well-typed. *)
THEOREM HealthTypeCorrectness == HealthSpec => []HealthTypeOK
<1>1. HealthInv => HealthTypeOK
  BY DEF HealthInv
<1> QED
  BY <1>1, HealthInvariance, PTL

(* Completions that do not overlap count the consecutive failures exactly,   *)
(* for any number of them and in any order.                                  *)
THEOREM CountsConsecutiveFailuresAlways == HealthSpec => []CountsConsecutiveFailures
<1>1. HealthInv => CountsConsecutiveFailures
  BY DEF HealthInv, HealthTypeOK, CountersAreBacked, ReadsAreCurrent, HealthAfter,
     CountsConsecutiveFailures
<1> QED
  BY <1>1, HealthInvariance, PTL

(* However completions overlap, an endpoint is failing only after three      *)
(* failures.                                                                 *)
THEOREM FailingTakesThreeFailuresAlways == HealthSpec => []FailingTakesThreeFailures
<1>1. HealthInv => FailingTakesThreeFailures
  BY CountedFailuresAreFinite DEF HealthInv, HealthTypeOK, CountersAreBacked, HealthAfter,
     FailingTakesThreeFailures, CountedFailures
<1> QED
  BY <1>1, HealthInvariance, PTL

-----------------------------------------------------------------------------
(* The signature of a request. *)

(* Whole seconds lose less than one of their ticks. *)
LEMMA SecondsRoundDown ==
    ASSUME NEW x \in Int
    PROVE  /\ Seconds(x) \in Int
           /\ Seconds(x) * TicksPerSecond <= x
           /\ x < (Seconds(x) + 1) * TicksPerSecond
BY SignatureAssumption DEF Seconds

(* Two instants no further apart than a number of seconds are that close in  *)
(* whole seconds, too.                                                       *)
LEMMA CloseInSeconds ==
    ASSUME NEW x \in Int, NEW y \in Int, NEW n \in Nat, x - y <= n * TicksPerSecond
    PROVE  Seconds(x) - Seconds(y) <= n
<1> DEFINE p == Seconds(x)
           q == Seconds(y)
           k == TicksPerSecond
<1>1. p \in Int /\ q \in Int /\ k \in Nat \ {0}
  BY SecondsRoundDown, SignatureAssumption
<1>2. p * k <= x /\ y < (q + 1) * k
  BY SecondsRoundDown
<1> SUFFICES ASSUME p >= q + n + 1 PROVE FALSE
  BY <1>1
<1> HIDE DEF p, q, k
<1>3. p * k >= (q + n + 1) * k
  BY <1>1
<1>4. (q + n + 1) * k = (q + 1) * k + n * k
  BY <1>1
<1>5. /\ p * k \in Int /\ (q + 1) * k \in Int /\ n * k \in Int
  BY <1>1
<1>6. x - y <= n * k
  BY DEF k
<1> QED
  BY <1>2, <1>3, <1>4, <1>5, <1>6

(* And conversely, up to the second that rounding loses. *)
LEMMA CloseInTicks ==
    ASSUME NEW x \in Int, NEW y \in Int, NEW n \in Nat, Seconds(x) - Seconds(y) <= n
    PROVE  x - y < (n + 1) * TicksPerSecond
<1> DEFINE p == Seconds(x)
           q == Seconds(y)
           k == TicksPerSecond
<1>1. p \in Int /\ q \in Int /\ k \in Nat \ {0}
  BY SecondsRoundDown, SignatureAssumption
<1>2. q * k <= y /\ x < (p + 1) * k
  BY SecondsRoundDown
<1>3. p + 1 <= q + n + 1
  BY <1>1
<1> HIDE DEF p, q, k
<1>4. (p + 1) * k <= (q + n + 1) * k
  BY <1>1, <1>3
<1>5. (q + n + 1) * k = q * k + (n + 1) * k
  BY <1>1
<1>6. (p + 1) * k \in Int /\ q * k \in Int /\ (n + 1) * k \in Int
  BY <1>1
<1> QED
  BY <1>2, <1>4, <1>5, <1>6 DEF k

(* A request carries the second of its attempt, signed with the secret of    *)
(* the endpoint over the body that was sent.                                 *)
SignedAtAttempt ==
    \A r \in underway : /\ r.t = Seconds(r.at)
                        /\ r.v1 = Hmac(secretOf, r.t, "raw")

SignatureInv == SignatureTypeOK /\ SignedAtAttempt /\ GenuineIsAccepted

LEMMA SignatureInitially == SignatureInit => SignatureInv
BY SignatureAssumption
DEF SignatureInit, SignatureInv, SignatureTypeOK, SignedAtAttempt, GenuineIsAccepted, NotVerified,
    Payloads, Headers

LEMMA SendAttemptKeeps ==
    ASSUME SignatureInv, SendAttempt
    PROVE  SignatureInv'
<1> USE DEF SignatureInv, SignatureTypeOK, SendAttempt
<1>1. tick \in Int /\ tick >= 0 /\ StampOfAttempt \in Nat
  BY SignatureAssumption DEF StampOfAttempt, Seconds
<1>2. SignatureTypeOK'
  BY <1>1 DEF Hmac
<1>3. SignedAtAttempt'
  BY <1>1 DEF SignedAtAttempt, StampOfAttempt, Hmac
<1>4. GenuineIsAccepted'
  BY DEF GenuineIsAccepted
<1> QED
  BY <1>2, <1>3, <1>4

LEMMA ReceiveDeliveryKeeps ==
    ASSUME SignatureInv, ReceiveDelivery
    PROVE  SignatureInv'
<1> USE DEF SignatureInv, SignatureTypeOK
<1>1. PICK r \in underway, payload \in Payloads, header \in Headers, secret \in Secrets :
        /\ verdict' = [ accepted |-> VerifySignature(payload, header, r, secret),
                        payload |-> payload, header |-> header, with |-> secret,
                        apart |-> Distance(tick + skew, r.at) ]
        /\ UNCHANGED << tick, skew, secretOf, underway >>
  BY DEF ReceiveDelivery
<1> DEFINE now == tick + skew
<1>2. now \in Int /\ r.at \in Int /\ TicksPerSecond \in Nat /\ Tolerance \in Nat
  BY SignatureAssumption
<1>3. /\ Distance(now, r.at) \in Nat
      /\ Distance(now, r.at) >= now - r.at /\ Distance(now, r.at) >= r.at - now
      /\ Distance(now, r.at) \in { now - r.at, r.at - now }
  BY <1>2 DEF Distance
<1>4. r.t = Seconds(r.at) /\ r.v1 = Hmac(secretOf, r.t, "raw")
  BY DEF SignedAtAttempt
<1>5. SignatureTypeOK'
  BY <1>1, <1>3 DEF VerifySignature
<1>6. SignedAtAttempt'
  BY <1>1 DEF SignedAtAttempt
<1>7. VerifySignature(payload, header, r, secret) <=>
         /\ payload = "raw" /\ header = "sent" /\ secret = secretOf
         /\ WithinTolerance(Seconds(r.at), Seconds(now))
  BY <1>4 DEF VerifySignature, Hmac, Payloads
<1>8. ASSUME Distance(now, r.at) <= Tolerance * TicksPerSecond
      PROVE  WithinTolerance(Seconds(r.at), Seconds(now))
  <2>1. now - r.at <= Tolerance * TicksPerSecond /\ r.at - now <= Tolerance * TicksPerSecond
    BY <1>2, <1>3, <1>8
  <2> QED
    BY <1>2, <2>1, CloseInSeconds DEF WithinTolerance
<1>9. ASSUME WithinTolerance(Seconds(r.at), Seconds(now))
      PROVE  Distance(now, r.at) < (Tolerance + 1) * TicksPerSecond
  <2>1. /\ now - r.at < (Tolerance + 1) * TicksPerSecond
        /\ r.at - now < (Tolerance + 1) * TicksPerSecond
    BY <1>2, <1>9, CloseInTicks DEF WithinTolerance
  <2> QED
    BY <1>3, <2>1
<1>10. GenuineIsAccepted'
  <2> HIDE DEF now
  <2>1. /\ verdict'.payload = payload /\ verdict'.header = header /\ verdict'.with = secret
        /\ verdict'.accepted = VerifySignature(payload, header, r, secret)
        /\ verdict'.apart = Distance(now, r.at) /\ secretOf' = secretOf
    BY <1>1 DEF now
  <2> QED
    BY <1>7, <1>8, <1>9, <2>1 DEF GenuineIsAccepted
<1> QED
  BY <1>5, <1>6, <1>10

LEMMA TicksKeeps ==
    ASSUME SignatureInv, Ticks
    PROVE  SignatureInv'
<1> USE DEF SignatureInv, Ticks
<1>1. SignatureTypeOK'
  BY SignatureAssumption DEF SignatureTypeOK
<1>2. SignedAtAttempt' /\ GenuineIsAccepted'
  BY DEF SignedAtAttempt, GenuineIsAccepted
<1> QED
  BY <1>1, <1>2

(* Every request under way is signed with the second of its own attempt.     *)
THEOREM SignatureInvariance == SignatureSpec => []SignatureInv
<1>1. SignatureInv /\ [SignatureNext]_signatureVars => SignatureInv'
  <2> SUFFICES ASSUME SignatureInv, [SignatureNext]_signatureVars PROVE SignatureInv'
    OBVIOUS
  <2>1. CASE UNCHANGED signatureVars
    BY <2>1 DEF signatureVars, SignatureInv, SignatureTypeOK, SignedAtAttempt, GenuineIsAccepted
  <2> QED
    BY <2>1, SendAttemptKeeps, ReceiveDeliveryKeeps, TicksKeeps DEF SignatureNext
<1> QED
  BY <1>1, SignatureInitially, PTL DEF SignatureSpec

(* The clocks, the requests and the verdict stay well-typed. *)
THEOREM SignatureTypeCorrectness == SignatureSpec => []SignatureTypeOK
<1>1. SignatureInv => SignatureTypeOK
  BY DEF SignatureInv
<1> QED
  BY <1>1, SignatureInvariance, PTL

(* For any tolerance, any resolution and skew of the clocks, a request with  *)
(* the endpoint's secret and an untouched body is accepted within the        *)
(* tolerance, and no other is, up to the second that rounding loses.         *)
THEOREM GenuineIsAcceptedAlways == SignatureSpec => []GenuineIsAccepted
<1>1. SignatureInv => GenuineIsAccepted
  BY DEF SignatureInv
<1> QED
  BY <1>1, SignatureInvariance, PTL

-----------------------------------------------------------------------------
(* Replays. *)

WindowsAreIntervals == \A r \in Replays : window[r].start <= window[r].end

(* A row appears with its creation, and until then nothing else does. *)
RowsAreCreated ==
    \A r \in Replays : /\ status[r] # "none" <=> request[r] = "created"
                       /\ request[r] = "refused" => conflict[r] \in Replays
                       /\ status[r] \in { "none", "queued" } => armed[r] = {} /\ woken[r] = {}

DispatchHasTarget == \A d \in Dispatches : stage[d] # "idle" => target[d] \in Replays

(* A dispatch that is past its conditional update has the replay for itself, *)
(* and the replay is running.                                                *)
PreparedIsExclusive ==
    /\ \A r \in Replays : \A d \in WorkedOn(r) : status[r] = "running"
    /\ \A r \in Replays : \A c, d \in WorkedOn(r) : c = d

(* What it has selected is all in the window, and what it has armed and      *)
(* scheduled so far is selected.                                             *)
SelectionIsKept ==
    \A r \in Replays : \A d \in WorkedOn(r) :
        /\ IsFiniteSet(selected[d])
        /\ \A e \in selected[d] : window[r].start <= e /\ e <= window[r].end
        /\ armed[r] = IF stage[d] = "prepared" THEN {} ELSE selected[d]
        /\ woken[r] \subseteq armed[r]

(* Running replays that nobody works on any more. *)
Abandoned == { r \in Replays : status[r] = "running" /\ WorkedOn(r) = {} }

AbandonedByFaults == IsFiniteSet(Abandoned) /\ Cardinality(Abandoned) <= rfaults

ReplayInv ==
    /\ ReplayTypeOK
    /\ WindowsAreIntervals /\ RowsAreCreated /\ DispatchHasTarget
    /\ PreparedIsExclusive /\ SelectionIsKept /\ AbandonedByFaults
    /\ ReplaysDoNotOverlap /\ ConflictOverlaps /\ CompletedReplayIsSent

(* The parts that only speak of the dispatches and of the rows they work on. *)
DispatchedInv ==
    /\ WindowsAreIntervals /\ DispatchHasTarget
    /\ PreparedIsExclusive /\ SelectionIsKept /\ AbandonedByFaults
    /\ ReplaysDoNotOverlap /\ CompletedReplayIsSent

LEMMA OverlapIsSymmetric ==
    ASSUME NEW r \in Replays, NEW s \in Replays
    PROVE  Overlap(r, s) <=> Overlap(s, r)
BY DEF Overlap

LEMMA ReplayInitially == ReplayInit => ReplayInv
<1> SUFFICES ASSUME ReplayInit PROVE ReplayInv
  OBVIOUS
<1> USE DEF ReplayInit
<1>1. ReplayTypeOK
  BY ReplayFaultsAssumption DEF ReplayTypeOK
<1>2. WindowsAreIntervals /\ RowsAreCreated /\ DispatchHasTarget
  BY DEF WindowsAreIntervals, RowsAreCreated, DispatchHasTarget
<1>3. PreparedIsExclusive /\ SelectionIsKept
  BY DEF PreparedIsExclusive, SelectionIsKept, WorkedOn
<1>4. AbandonedByFaults
  <2>1. Abandoned = {}
    BY DEF Abandoned
  <2> QED
    BY <2>1, FS_EmptySet DEF AbandonedByFaults
<1>5. ReplaysDoNotOverlap /\ ConflictOverlaps /\ CompletedReplayIsSent
  BY DEF ReplaysDoNotOverlap, Active, ConflictOverlaps, CompletedReplayIsSent
<1> QED
  BY <1>1, <1>2, <1>3, <1>4, <1>5 DEF ReplayInv

(* As long as no row and no dispatch changes, neither do these parts. *)
LEMMA DispatchInvStays ==
    ASSUME ReplayInv, UNCHANGED << window, status, replayed, dispatch, armed, woken, rfaults >>
    PROVE  DispatchedInv'
<1> USE DEF ReplayInv, dispatch
<1>1. \A r \in Replays : WorkedOn(r)' = WorkedOn(r)
  BY DEF WorkedOn
<1>2. Abandoned' = Abandoned
  BY <1>1 DEF Abandoned
<1>3. WindowsAreIntervals' /\ DispatchHasTarget' /\ AbandonedByFaults'
  BY <1>2 DEF WindowsAreIntervals, DispatchHasTarget, AbandonedByFaults
<1>4. PreparedIsExclusive' /\ SelectionIsKept'
  BY <1>1 DEF PreparedIsExclusive, SelectionIsKept
<1>5. ReplaysDoNotOverlap' /\ CompletedReplayIsSent'
  BY DEF ReplaysDoNotOverlap, Active, Overlap, CompletedReplayIsSent
<1> QED
  BY <1>3, <1>4, <1>5 DEF DispatchedInv

(* A request that is refused is told of an overlapping row that was created, *)
(* or of itself.                                                             *)
LEMMA RefuseKeeps ==
    ASSUME ReplayInv, NEW r \in Replays, NEW s \in Conflicting(r) \cup {r}, Refuse(r, s),
           request[r] \in { "new", "looking" },
           UNCHANGED << window, status, replayed, log, dispatch, armed, woken, rfaults >>
    PROVE  ReplayInv'
<1> USE DEF ReplayInv
<1>1. s \in Replays /\ Overlap(r, s) /\ (s = r \/ status[s] # "none")
  BY DEF Conflicting, Active, WindowsAreIntervals, Overlap, ReplayTypeOK
<1>2. status[r] = "none"
  BY DEF RowsAreCreated, ReplayTypeOK
<1>3. ReplayTypeOK' /\ RowsAreCreated'
  BY <1>1, <1>2 DEF Refuse, ReplayTypeOK, RowsAreCreated, dispatch
<1>4. ConflictOverlaps'
  BY <1>1, <1>2 DEF Refuse, ConflictOverlaps, Overlap, ReplayTypeOK
<1> QED
  BY <1>3, <1>4, DispatchInvStays DEF DispatchedInv

LEMMA CheckForConflictKeeps ==
    ASSUME ReplayInv, NEW r \in Replays, CheckForConflict(r)
    PROVE  ReplayInv'
<1>1. CASE Conflicting(r) = {}
  <2> USE <1>1 DEF ReplayInv, CheckForConflict
  <2>1. ReplayTypeOK'
    BY DEF ReplayTypeOK, dispatch
  <2>2. RowsAreCreated'
    BY DEF ReplayTypeOK, RowsAreCreated
  <2>3. ConflictOverlaps'
    BY DEF ReplayTypeOK, ConflictOverlaps, Overlap
  <2> QED
    BY <2>1, <2>2, <2>3, DispatchInvStays DEF DispatchedInv
<1>2. CASE Conflicting(r) # {}
  BY <1>2, RefuseKeeps DEF CheckForConflict
<1> QED
  BY <1>1, <1>2

(* The exclusion constraint is what keeps active windows apart. *)
LEMMA InsertReplayKeeps ==
    ASSUME ReplayInv, NEW r \in Replays, InsertReplay(r)
    PROVE  ReplayInv'
<1> USE DEF ReplayInv, InsertReplay, dispatch
<1>1. status[r] = "none" /\ armed[r] = {} /\ woken[r] = {}
  BY DEF RowsAreCreated, ReplayTypeOK
<1>2. ReplayTypeOK' /\ RowsAreCreated'
  <2>1. ReplayTypeOK'
    BY DEF ReplayTypeOK
  <2>2. RowsAreCreated'
    BY <1>1 DEF ReplayTypeOK, RowsAreCreated
  <2> QED
    BY <2>1, <2>2
<1>3. ConflictOverlaps'
  BY <1>1 DEF ReplayTypeOK, RowsAreCreated, ConflictOverlaps, Overlap
<1>4. CASE Conflicting(r) # {}
  BY <1>2, <1>3, <1>4, DispatchInvStays DEF DispatchedInv
<1>5. CASE Conflicting(r) = {}
  <2> USE <1>5
  <2>1. status' = [ status EXCEPT ![r] = "queued" ]
    OBVIOUS
  <2>2. \A s \in Replays : WorkedOn(s)' = WorkedOn(s)
    BY DEF WorkedOn
  <2>3. WorkedOn(r) = {}
    BY <1>1 DEF PreparedIsExclusive
  <2>4. Abandoned' = Abandoned
    BY <1>1, <2>1, <2>2 DEF Abandoned, ReplayTypeOK
  <2>5. WindowsAreIntervals' /\ DispatchHasTarget' /\ AbandonedByFaults'
    BY <2>4 DEF WindowsAreIntervals, DispatchHasTarget, AbandonedByFaults
  <2>6. PreparedIsExclusive' /\ SelectionIsKept'
    BY <2>1, <2>2, <2>3 DEF PreparedIsExclusive, SelectionIsKept, ReplayTypeOK
  <2>7. ReplaysDoNotOverlap'
    <3> SUFFICES ASSUME NEW p \in Replays, NEW q \in Replays, p # q, Active(p)', Active(q)'
                 PROVE  ~Overlap(p, q)
      BY DEF ReplaysDoNotOverlap, Overlap
    <3>1. CASE p # r /\ q # r
      BY <3>1 DEF ReplaysDoNotOverlap, Active, ReplayTypeOK
    <3>2. CASE p = r \/ q = r
      BY <3>2, OverlapIsSymmetric DEF Conflicting, Active, ReplayTypeOK
    <3> QED
      BY <3>1, <3>2
  <2>8. CompletedReplayIsSent'
    BY DEF CompletedReplayIsSent, ReplayTypeOK
  <2> QED
    BY <1>2, <1>3, <2>5, <2>6, <2>7, <2>8
<1> QED
  BY <1>4, <1>5

LEMMA InsertDeadlocksKeeps ==
    ASSUME ReplayInv, NEW r \in Replays, InsertDeadlocks(r)
    PROVE  ReplayInv'
<1> USE DEF ReplayInv, InsertDeadlocks
<1>1. ReplayTypeOK' /\ RowsAreCreated' /\ ConflictOverlaps'
  BY DEF ReplayTypeOK, RowsAreCreated, ConflictOverlaps, Overlap, dispatch
<1> QED
  BY <1>1, DispatchInvStays DEF DispatchedInv

LEMMA ConflictIsFound ==
    ASSUME ReplayInv, NEW r \in Replays, FindConflict(r) \/ GiveUpOnConflict(r)
    PROVE  ReplayInv'
<1>1. CASE FindConflict(r)
  BY <1>1, RefuseKeeps DEF FindConflict
<1>2. CASE GiveUpOnConflict(r)
  BY <1>2, RefuseKeeps DEF GiveUpOnConflict
<1> QED
  BY <1>1, <1>2

LEMMA EventHappensKeeps ==
    ASSUME ReplayInv, NEW e \in Times, EventHappens(e)
    PROVE  ReplayInv'
<1> USE DEF ReplayInv, EventHappens, creation
<1>1. ReplayTypeOK' /\ RowsAreCreated' /\ ConflictOverlaps'
  BY DEF ReplayTypeOK, RowsAreCreated, ConflictOverlaps, Overlap, dispatch
<1> QED
  BY <1>1, DispatchInvStays DEF DispatchedInv

(* A dispatch leaves the windows and the requests alone, and no row of a     *)
(* replay goes away.                                                         *)
LEMMA RequestsStay ==
    ASSUME ReplayInv, UNCHANGED creation,
           \A r \in Replays : status'[r] = "none" <=> status[r] = "none"
    PROVE  WindowsAreIntervals' /\ ConflictOverlaps'
<1> USE DEF ReplayInv, creation
<1>1. WindowsAreIntervals'
  BY DEF WindowsAreIntervals
<1>2. ASSUME NEW r \in Replays, request[r] = "refused"
      PROVE  /\ Overlap(r, conflict[r])
             /\ conflict[r] = r \/ status'[conflict[r]] # "none"
             /\ status'[r] = "none"
  BY <1>2 DEF ConflictOverlaps, RowsAreCreated
<1> QED
  BY <1>1, <1>2 DEF ConflictOverlaps, Overlap

LEMMA ListReplayKeeps ==
    ASSUME ReplayInv, NEW d \in Dispatches, NEW r \in Replays, ListReplay(d, r)
    PROVE  ReplayInv'
<1> USE DEF ReplayInv, ListReplay, creation
<1>1. ReplayTypeOK' /\ RowsAreCreated' /\ DispatchHasTarget'
  BY DEF ReplayTypeOK, RowsAreCreated, DispatchHasTarget
<1>2. \A s \in Replays : WorkedOn(s)' = WorkedOn(s)
  BY DEF WorkedOn, ReplayTypeOK
<1>3. Abandoned' = Abandoned
  BY <1>2 DEF Abandoned
<1>4. PreparedIsExclusive' /\ AbandonedByFaults'
  BY <1>2, <1>3 DEF PreparedIsExclusive, AbandonedByFaults
<1>5. SelectionIsKept'
  <2> SUFFICES ASSUME NEW s \in Replays, NEW c \in WorkedOn(s)
               PROVE  /\ IsFiniteSet(selected[c])
                      /\ \A e \in selected[c] : window[s].start <= e /\ e <= window[s].end
                      /\ armed[s] = IF stage'[c] = "prepared" THEN {} ELSE selected[c]
                      /\ woken[s] \subseteq armed[s]
    BY <1>2 DEF SelectionIsKept
  <2>1. stage'[c] = stage[c]
    BY DEF WorkedOn, ReplayTypeOK
  <2> QED
    BY <2>1 DEF SelectionIsKept
<1>6. ReplaysDoNotOverlap' /\ CompletedReplayIsSent'
  BY DEF ReplaysDoNotOverlap, Active, Overlap, CompletedReplayIsSent
<1> QED
  BY <1>1, <1>4, <1>5, <1>6, RequestsStay

(* Whatever a dispatch does to the row it works on, it can tell: no other    *)
(* dispatch is at work on that row.                                          *)
LEMMA WorkedOnByOne ==
    ASSUME ReplayInv, NEW d \in Dispatches, stage[d] \in { "prepared", "scheduling" }
    PROVE  /\ target[d] \in Replays /\ WorkedOn(target[d]) = {d}
           /\ status[target[d]] = "running"
           /\ selected[d] \subseteq Times /\ IsFiniteSet(selected[d])
           /\ \A s \in Replays : d \in WorkedOn(s) => s = target[d]
<1> USE DEF ReplayInv
<1>1. target[d] \in Replays
  BY DEF DispatchHasTarget
<1>2. d \in WorkedOn(target[d])
  BY DEF WorkedOn
<1>3. \A c \in WorkedOn(target[d]) : c = d
  BY <1>1, <1>2 DEF PreparedIsExclusive
<1> QED
  BY <1>1, <1>2, <1>3 DEF PreparedIsExclusive, SelectionIsKept, WorkedOn, ReplayTypeOK

LEMMA WindowSelection ==
    ASSUME ReplayTypeOK, NEW r \in Replays
    PROVE  /\ InWindow(r) \subseteq Times /\ IsFiniteSet(InWindow(r))
           /\ \A e \in InWindow(r) : window[r].start <= e /\ e <= window[r].end
<1>1. InWindow(r) \in SUBSET Times
  BY DEF InWindow, ReplayTypeOK
<1> QED
  BY <1>1, TimesAssumption, FS_Subset DEF InWindow

(* The conditional update: of the dispatches that have listed a replay, one  *)
(* prepares it.                                                              *)
LEMMA PrepareReplayKeeps ==
    ASSUME ReplayInv, NEW d \in Dispatches, PrepareReplay(d)
    PROVE  ReplayInv'
<1> USE DEF ReplayInv, PrepareReplay, creation
<1> DEFINE t == target[d]
<1>1. t \in Replays /\ stage[d] = "listed"
  BY DEF DispatchHasTarget
<1>2. CASE ~StillQueued(t)
  <2> USE <1>2 DEF Rests
  <2>1. ReplayTypeOK' /\ RowsAreCreated' /\ DispatchHasTarget'
    <3>1. ReplayTypeOK'
      BY DEF ReplayTypeOK
    <3>2. RowsAreCreated' /\ DispatchHasTarget'
      BY DEF ReplayTypeOK, RowsAreCreated, DispatchHasTarget
    <3> QED
      BY <3>1, <3>2
  <2>2. \A s \in Replays : WorkedOn(s)' = WorkedOn(s)
    BY DEF WorkedOn, ReplayTypeOK
  <2>3. Abandoned' = Abandoned
    BY <2>2 DEF Abandoned
  <2>4. PreparedIsExclusive' /\ AbandonedByFaults'
    BY <2>2, <2>3 DEF PreparedIsExclusive, AbandonedByFaults
  <2>5. \A s \in Replays : \A c \in WorkedOn(s) : stage'[c] = stage[c] /\ selected'[c] = selected[c]
    BY DEF WorkedOn, ReplayTypeOK
  <2>6. SelectionIsKept'
    BY <2>2, <2>5 DEF SelectionIsKept
  <2>7. ReplaysDoNotOverlap' /\ CompletedReplayIsSent'
    BY DEF ReplaysDoNotOverlap, Active, Overlap, CompletedReplayIsSent
  <2> QED
    BY <2>1, <2>4, <2>6, <2>7, RequestsStay
<1>3. CASE StillQueued(t)
  <2> USE <1>1, <1>3
  <2>1. /\ status' = [ status EXCEPT ![t] = "running" ]
        /\ selected' = [ selected EXCEPT ![d] = InWindow(t) ]
        /\ stage' = [ stage EXCEPT ![d] = "prepared" ]
        /\ UNCHANGED << creation, target, replayed, log, armed, woken, rfaults >>
    OBVIOUS
  <2>2. status[t] = "queued" /\ armed[t] = {} /\ woken[t] = {}
    BY DEF StillQueued, RowsAreCreated
  <2>3. ReplayTypeOK'
    BY <2>1, WindowSelection DEF ReplayTypeOK
  <2>4. RowsAreCreated' /\ DispatchHasTarget'
    BY <2>1, <2>2 DEF ReplayTypeOK, RowsAreCreated, DispatchHasTarget
  <2>5. WorkedOn(t) = {}
    BY <2>2 DEF PreparedIsExclusive
  <2>6. WorkedOn(t)' = {d} /\ \A s \in Replays \ {t} : WorkedOn(s)' = WorkedOn(s) /\ d \notin WorkedOn(s)
    BY <2>1, <2>5 DEF WorkedOn, ReplayTypeOK
  <2>7. PreparedIsExclusive'
    BY <2>1, <2>6 DEF PreparedIsExclusive, ReplayTypeOK
  <2>8. SelectionIsKept'
    <3> SUFFICES ASSUME NEW s \in Replays, NEW c \in WorkedOn(s)'
                 PROVE  /\ IsFiniteSet(selected'[c])
                        /\ \A e \in selected'[c] : window[s].start <= e /\ e <= window[s].end
                        /\ armed[s] = IF stage'[c] = "prepared" THEN {} ELSE selected'[c]
                        /\ woken[s] \subseteq armed[s]
      BY <2>1 DEF SelectionIsKept
    <3>1. CASE s = t
      BY <2>1, <2>2, <2>6, <3>1, WindowSelection DEF ReplayTypeOK
    <3>2. CASE s # t
      BY <2>1, <2>6, <3>2 DEF SelectionIsKept, WorkedOn, ReplayTypeOK
    <3> QED
      BY <3>1, <3>2
  <2>9. AbandonedByFaults'
    <3>1. Abandoned' = Abandoned
      BY <2>1, <2>2, <2>6 DEF Abandoned, ReplayTypeOK
    <3> QED
      BY <2>1, <3>1 DEF AbandonedByFaults
  <2>10. ReplaysDoNotOverlap'
    <3>1. \A s \in Replays : Active(s)' = Active(s)
      BY <2>1, <2>2 DEF Active, ReplayTypeOK
    <3> QED
      BY <2>1, <3>1 DEF ReplaysDoNotOverlap, Overlap
  <2>11. CompletedReplayIsSent'
    BY <2>1, <2>2 DEF CompletedReplayIsSent, ReplayTypeOK
  <2>12. WindowsAreIntervals' /\ ConflictOverlaps'
    BY <2>1, <2>2, RequestsStay DEF ReplayTypeOK
  <2> QED
    BY <2>3, <2>4, <2>7, <2>8, <2>9, <2>10, <2>11, <2>12
<1> QED
  BY <1>2, <1>3

(* Arming and scheduling concern the replay that the dispatch has for itself.*)
LEMMA SendingKeeps ==
    ASSUME ReplayInv, NEW d \in Dispatches,
           ArmReplayed(d) \/ \E e \in Times : ScheduleReplayed(d, e)
    PROVE  ReplayInv'
<1> USE DEF ReplayInv, creation
<1> DEFINE t == target[d]
<1>1. /\ stage[d] \in { "prepared", "scheduling" }
      /\ UNCHANGED << creation, status, replayed, log, target, selected, rfaults >>
      /\ \A c \in Dispatches \ {d} : stage'[c] = stage[c]
      /\ \A s \in Replays \ {t} : armed'[s] = armed[s] /\ woken'[s] = woken[s]
  BY DEF ArmReplayed, ScheduleReplayed, dispatch, ReplayTypeOK
<1>2. /\ t \in Replays /\ WorkedOn(t) = {d} /\ status[t] = "running"
      /\ selected[d] \subseteq Times /\ IsFiniteSet(selected[d])
  BY <1>1, WorkedOnByOne
<1>3. /\ stage' \in [ Dispatches -> { "idle", "listed", "prepared", "scheduling" } ]
      /\ stage'[d] = "scheduling"
      /\ armed'[t] = selected[d] /\ woken'[t] \subseteq selected[d]
      /\ armed' \in [ Replays -> SUBSET Times ] /\ woken' \in [ Replays -> SUBSET Times ]
  <2>1. CASE ArmReplayed(d)
    BY <1>1, <1>2, <2>1 DEF ArmReplayed, SelectionIsKept, ReplayTypeOK
  <2>2. ASSUME NEW e \in Times, ScheduleReplayed(d, e)
        PROVE  <1>3!:
    BY <1>1, <1>2, <2>2 DEF ScheduleReplayed, Unscheduled, dispatch, SelectionIsKept, ReplayTypeOK
  <2> QED
    BY <2>1, <2>2
<1> HIDE DEF t
<1>4. ReplayTypeOK'
  BY <1>1, <1>3 DEF ReplayTypeOK
<1>5. RowsAreCreated' /\ DispatchHasTarget'
  BY <1>1, <1>2 DEF RowsAreCreated, DispatchHasTarget, t
<1>6. \A s \in Replays : WorkedOn(s)' = WorkedOn(s)
  BY <1>1, <1>3 DEF WorkedOn, t
<1>7. PreparedIsExclusive' /\ AbandonedByFaults'
  <2>1. Abandoned' = Abandoned
    BY <1>1, <1>6 DEF Abandoned
  <2> QED
    BY <1>1, <1>6, <2>1 DEF PreparedIsExclusive, AbandonedByFaults
<1>8. SelectionIsKept'
  <2> SUFFICES ASSUME NEW s \in Replays, NEW c \in WorkedOn(s)
               PROVE  /\ IsFiniteSet(selected[c])
                      /\ \A e \in selected[c] : window[s].start <= e /\ e <= window[s].end
                      /\ armed'[s] = IF stage'[c] = "prepared" THEN {} ELSE selected[c]
                      /\ woken'[s] \subseteq armed'[s]
    BY <1>1, <1>6 DEF SelectionIsKept
  <2>1. CASE s = t
    BY <1>2, <1>3, <2>1 DEF SelectionIsKept
  <2>2. CASE s # t
    BY <1>1, <1>2, <2>2 DEF SelectionIsKept, WorkedOn, t
  <2> QED
    BY <2>1, <2>2
<1>9. ReplaysDoNotOverlap' /\ CompletedReplayIsSent'
  BY <1>1, <1>2 DEF ReplaysDoNotOverlap, Active, Overlap, CompletedReplayIsSent
<1>10. WindowsAreIntervals' /\ ConflictOverlaps'
  BY <1>1, RequestsStay
<1> QED
  BY <1>4, <1>5, <1>7, <1>8, <1>9, <1>10

(* A dispatch that rests, done or dead, no longer works on any replay.       *)
LEMMA RestingStopsWork ==
    ASSUME ReplayInv, NEW d \in Dispatches, Rests(d)
    PROVE  /\ \A r \in Replays : WorkedOn(r)' = WorkedOn(r) \ {d}
           /\ \A c \in Dispatches \ {d} : stage'[c] = stage[c] /\ selected'[c] = selected[c]
           /\ target' \in [ Dispatches -> Replays \cup {NoReplay} ]
           /\ stage' \in [ Dispatches -> { "idle", "listed", "prepared", "scheduling" } ]
           /\ selected' \in [ Dispatches -> SUBSET Times ]
           /\ DispatchHasTarget'
<1> USE DEF ReplayInv, ReplayTypeOK, Rests
<1>1. \A c \in Dispatches \ {d} :
        stage'[c] = stage[c] /\ selected'[c] = selected[c] /\ target'[c] = target[c]
  OBVIOUS
<1>2. stage'[d] = "idle"
  OBVIOUS
<1>3. \A r \in Replays : WorkedOn(r)' = WorkedOn(r) \ {d}
  BY <1>1, <1>2 DEF WorkedOn
<1>4. DispatchHasTarget'
  BY <1>1, <1>2 DEF DispatchHasTarget
<1> QED
  BY <1>1, <1>3, <1>4

LEMMA CompleteReplayKeeps ==
    ASSUME ReplayInv, NEW d \in Dispatches, CompleteReplay(d)
    PROVE  ReplayInv'
<1>1. stage[d] = "scheduling" /\ Rests(d)
  BY DEF CompleteReplay
<1>t. PICK t \in Replays : t = target[d]
  BY <1>1, WorkedOnByOne
<1>2. /\ t = target[d] /\ WorkedOn(t) = {d} /\ status[t] = "running"
      /\ selected[d] \subseteq Times /\ IsFiniteSet(selected[d])
      /\ \A s \in Replays : d \in WorkedOn(s) => s = t
  BY <1>1, <1>t, WorkedOnByOne
<1>3. /\ status' = [ status EXCEPT ![t] = "completed" ]
      /\ replayed' = [ replayed EXCEPT ![t] = Cardinality(selected[d]) ]
      /\ UNCHANGED << creation, log, armed, woken, rfaults >>
  BY <1>2 DEF CompleteReplay
<1>4. armed[t] = selected[d] /\ woken[t] = selected[d]
  BY <1>1, <1>2 DEF CompleteReplay, Unscheduled, ReplayInv, SelectionIsKept
<1>5. \A e \in selected[d] : window[t].start <= e /\ e <= window[t].end
  BY <1>2 DEF ReplayInv, SelectionIsKept
<1> USE DEF ReplayInv, creation
<1>6. ReplayTypeOK'
  <2>1. Cardinality(selected[d]) \in Nat
    BY <1>2, FS_CardinalityType
  <2> QED
    BY <1>1, <1>3, <2>1, RestingStopsWork DEF ReplayTypeOK
<1>7. RowsAreCreated' /\ WindowsAreIntervals' /\ ConflictOverlaps'
  <2>1. RowsAreCreated'
    BY <1>2, <1>3 DEF RowsAreCreated, ReplayTypeOK
  <2> QED
    BY <1>2, <1>3, <2>1, RequestsStay DEF ReplayTypeOK
<1>8. WorkedOn(t)' = {} /\ \A s \in Replays \ {t} : WorkedOn(s)' = WorkedOn(s)
  BY <1>1, <1>2, RestingStopsWork
<1>9. PreparedIsExclusive'
  BY <1>2, <1>3, <1>8 DEF PreparedIsExclusive, ReplayTypeOK
<1>10. SelectionIsKept'
  <2> SUFFICES ASSUME NEW s \in Replays, NEW c \in WorkedOn(s)'
               PROVE  /\ IsFiniteSet(selected'[c])
                      /\ \A e \in selected'[c] : window[s].start <= e /\ e <= window[s].end
                      /\ armed[s] = IF stage'[c] = "prepared" THEN {} ELSE selected'[c]
                      /\ woken[s] \subseteq armed[s]
    BY <1>3 DEF SelectionIsKept
  <2>1. s # t /\ c \in WorkedOn(s) /\ c \in Dispatches \ {d}
    BY <1>2, <1>8 DEF WorkedOn
  <2> QED
    BY <1>1, <2>1, RestingStopsWork DEF SelectionIsKept
<1>11. AbandonedByFaults'
  <2>1. Abandoned' = Abandoned
    BY <1>2, <1>3, <1>8 DEF Abandoned, ReplayTypeOK
  <2> QED
    BY <1>3, <2>1 DEF AbandonedByFaults
<1>12. ReplaysDoNotOverlap'
  <2>1. \A s \in Replays : Active(s)' => Active(s)
    BY <1>2, <1>3 DEF Active, ReplayTypeOK
  <2> QED
    BY <1>3, <2>1 DEF ReplaysDoNotOverlap, Overlap
<1>13. CompletedReplayIsSent'
  BY <1>2, <1>3, <1>4, <1>5 DEF CompletedReplayIsSent, ReplayTypeOK
<1> QED
  BY <1>1, <1>6, <1>7, <1>9, <1>10, <1>11, <1>12, <1>13, RestingStopsWork

(* A dispatch that dies leaves at most one replay running and abandoned.     *)
LEMMA DispatchDiesKeeps ==
    ASSUME ReplayInv, NEW d \in Dispatches, DispatchDies(d)
    PROVE  ReplayInv'
<1> DEFINE t == target[d]
<1>1. /\ Rests(d) /\ rfaults' = rfaults + 1 /\ rfaults < MaxReplayFaults
      /\ UNCHANGED << creation, status, replayed, log, armed, woken >>
  BY DEF DispatchDies
<1> USE DEF ReplayInv, creation
<1>2. ReplayTypeOK'
  BY <1>1, RestingStopsWork, ReplayFaultsAssumption DEF ReplayTypeOK
<1>3. RowsAreCreated' /\ WindowsAreIntervals' /\ ConflictOverlaps'
  BY <1>1, RequestsStay DEF RowsAreCreated
<1>4. PreparedIsExclusive'
  BY <1>1, RestingStopsWork DEF PreparedIsExclusive
<1>5. SelectionIsKept'
  <2> SUFFICES ASSUME NEW s \in Replays, NEW c \in WorkedOn(s)'
               PROVE  /\ IsFiniteSet(selected'[c])
                      /\ \A e \in selected'[c] : window[s].start <= e /\ e <= window[s].end
                      /\ armed[s] = IF stage'[c] = "prepared" THEN {} ELSE selected'[c]
                      /\ woken[s] \subseteq armed[s]
    BY <1>1 DEF SelectionIsKept
  <2>1. c \in WorkedOn(s) /\ c \in Dispatches \ {d}
    BY <1>1, RestingStopsWork DEF WorkedOn
  <2> QED
    BY <1>1, <2>1, RestingStopsWork DEF SelectionIsKept
<1>6. AbandonedByFaults'
  <2>1. Abandoned' \in SUBSET (Abandoned \cup {t})
    BY <1>1, RestingStopsWork DEF Abandoned, WorkedOn
  <2>2. /\ IsFiniteSet(Abandoned) /\ Cardinality(Abandoned) \in Nat
        /\ Cardinality(Abandoned) <= rfaults /\ rfaults \in Nat
    BY FS_CardinalityType, ReplayFaultsAssumption DEF AbandonedByFaults, ReplayTypeOK
  <2>3. /\ IsFiniteSet(Abandoned \cup {t})
        /\ Cardinality(Abandoned \cup {t}) <= rfaults + 1
    BY <2>2, FS_AddElement
  <2>4. /\ IsFiniteSet(Abandoned')
        /\ Cardinality(Abandoned') <= Cardinality(Abandoned \cup {t})
    BY <2>1, <2>3, FS_Subset
  <2>5. Cardinality(Abandoned') \in Nat /\ Cardinality(Abandoned \cup {t}) \in Nat
    BY <2>3, <2>4, FS_CardinalityType
  <2> QED
    BY <1>1, <2>2, <2>3, <2>4, <2>5 DEF AbandonedByFaults
<1>7. ReplaysDoNotOverlap' /\ CompletedReplayIsSent'
  BY <1>1 DEF ReplaysDoNotOverlap, Active, Overlap, CompletedReplayIsSent
<1> QED
  BY <1>1, <1>2, <1>3, <1>4, <1>5, <1>6, <1>7, RestingStopsWork

(* Creations, dispatches and their deaths, in any interleaving.              *)
THEOREM ReplayInvariance == ReplaySpec => []ReplayInv
<1>1. ReplayInv /\ [ReplayNext]_replayVars => ReplayInv'
  <2> SUFFICES ASSUME ReplayInv, [ReplayNext]_replayVars PROVE ReplayInv'
    OBVIOUS
  <2>1. CASE UNCHANGED replayVars
    <3>1. ReplayTypeOK' /\ RowsAreCreated' /\ ConflictOverlaps'
      BY <2>1 DEF replayVars, creation, dispatch, ReplayInv, ReplayTypeOK, RowsAreCreated,
         ConflictOverlaps, Overlap
    <3> QED
      BY <2>1, <3>1, DispatchInvStays DEF DispatchedInv, ReplayInv, replayVars, creation
  <2>2. ASSUME NEW r \in Replays,
               CheckForConflict(r) \/ InsertReplay(r) \/ InsertDeadlocks(r)
                   \/ FindConflict(r) \/ GiveUpOnConflict(r)
        PROVE  ReplayInv'
    BY <2>2, CheckForConflictKeeps, InsertReplayKeeps, InsertDeadlocksKeeps, ConflictIsFound
  <2>3. ASSUME NEW d \in Dispatches,
               \/ \E r \in Replays : ListReplay(d, r)
               \/ PrepareReplay(d) \/ ArmReplayed(d) \/ CompleteReplay(d) \/ DispatchDies(d)
               \/ \E e \in Times : ScheduleReplayed(d, e)
        PROVE  ReplayInv'
    BY <2>3, ListReplayKeeps, PrepareReplayKeeps, SendingKeeps, CompleteReplayKeeps,
       DispatchDiesKeeps
  <2> QED
    BY <2>1, <2>2, <2>3, EventHappensKeeps DEF ReplayNext
<1> QED
  BY <1>1, ReplayInitially, PTL DEF ReplaySpec

(* The requests, the rows and the dispatches of replays stay well-typed.     *)
THEOREM ReplayTypeCorrectness == ReplaySpec => []ReplayTypeOK
<1>1. ReplayInv => ReplayTypeOK
  BY DEF ReplayInv
<1> QED
  BY <1>1, ReplayInvariance, PTL

(* Two active replays never overlap, for any number of requests.             *)
THEOREM ReplaysDoNotOverlapAlways == ReplaySpec => []ReplaysDoNotOverlap
<1>1. ReplayInv => ReplaysDoNotOverlap
  BY DEF ReplayInv
<1> QED
  BY <1>1, ReplayInvariance, PTL

(* A refused request is told of an overlapping replay that was created, or   *)
(* of itself.                                                                *)
THEOREM ConflictOverlapsAlways == ReplaySpec => []ConflictOverlaps
<1>1. ReplayInv => ConflictOverlaps
  BY DEF ReplayInv
<1> QED
  BY <1>1, ReplayInvariance, PTL

(* One dispatch at most works on a replay, and every one that is running     *)
(* without any has cost a fault.                                             *)
THEOREM RunningReplayIsWorkedOnAlways == ReplaySpec => []RunningReplayIsWorkedOn
<1>1. ReplayInv => RunningReplayIsWorkedOn
  <2> SUFFICES ASSUME ReplayInv PROVE RunningReplayIsWorkedOn
    OBVIOUS
  <2>1. ASSUME NEW r \in Replays PROVE Cardinality(WorkedOn(r)) <= 1
    <3>1. CASE WorkedOn(r) = {}
      BY <3>1, FS_EmptySet
    <3>2. ASSUME NEW d \in WorkedOn(r) PROVE Cardinality(WorkedOn(r)) <= 1
      <4>1. WorkedOn(r) = {d}
        BY <3>2 DEF ReplayInv, PreparedIsExclusive
      <4>2. Cardinality({d}) = 1
        BY FS_Singleton
      <4> QED
        BY <4>1, <4>2
    <3> QED
      BY <3>1, <3>2
  <2>2. Cardinality({ r \in Replays : status[r] = "running" /\ WorkedOn(r) = {} }) <= rfaults
    BY DEF ReplayInv, AbandonedByFaults, Abandoned
  <2> QED
    BY <2>1, <2>2 DEF RunningReplayIsWorkedOn
<1> QED
  BY <1>1, ReplayInvariance, PTL

(* A completed replay has armed and scheduled as many deliveries as it says, *)
(* whatever other dispatches have done with it.                              *)
THEOREM CompletedReplayIsSentAlways == ReplaySpec => []CompletedReplayIsSent
<1>1. ReplayInv => CompletedReplayIsSent
  BY DEF ReplayInv
<1> QED
  BY <1>1, ReplayInvariance, PTL

=============================================================================
