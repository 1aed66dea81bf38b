# Mailmon, specified in TLA+

Mailmon keeps a canonical copy of the messages and threads of Gmail mailboxes in
PostgreSQL and tells the application that owns them what changed, through webhooks.
This directory holds TLA+ specifications of the parts of it that are hard to test:
concurrent sync executions and their lease, the reads of a mailbox that keeps changing,
the wake-ups that bring a change to a sync, the delivery of events through a queue that
loses, repeats and de-duplicates, and around them replays, watches, connect sessions and
credentials, the public API with its SDK, and the worker's routes.
TLC checks them on small instances, and TLAPS proves for all instances every safety
property that the passing runs check, some of them under a condition named below.

Paths are relative to `src/`; `X.ts:12` is line 12 of a file that the text names.

## Inventory

| Part of the system | State it keeps | Operations | What makes it correct |
|---|---|---|---|
| **Sync execution** `packages/core/src/mailbox-sync-execution.ts`, run in the worker (`apps/worker`) | one fiber for the work racing one for the heartbeat; a `sync_runs` row | read the mailbox and its cursor, start a run, acquire the lease, fetch, commit, schedule deliveries, fail, release | one commit at a time; a committed run stays committed |
| **Lease** `db/.../mailbox-sync-coordinator.ts` | five lease columns of the `mailboxes` row | acquire, renew, release | taken over only once expired; names an execution that can still end it |
| **Commit** `db/.../mailbox-sync-commit.ts` | `messages`, `threads`, `mailbox_events`, cursor | guards, upserts, deletions, thread summaries, events, final update; one READ COMMITTED transaction | state first, cursor second; events tell what is committed |
| **Operational state** `core/.../mailbox-operational-state.ts` | `status`, `sync_state`, `last_error` | transitions for failures, exhausted dispatch, recovery, watches | healthy only after a sync that left a cursor; what renewals do to the error does not hide a failed sync |
| **Recovery and repair** `mailbox-execution-recovery*.ts`, `mailbox-repair*.ts` | none; they write the mailbox row | close dead executions; reset invalid cursors | never break an execution that is alive |
| **Gmail** `packages/gmail/src` | none | list, page the history, compact it, fetch bodies, merge | the cursor never passes a change that was not read |
| **Webhook deliveries** `webhook-deliveries.ts`, `webhook-delivery-execution.ts` | `webhook_deliveries` rows | create, claim, send, classify, complete, retry, recover, re-arm | outcomes fenced, attempts bounded, every row settles |
| **Queue** `packages/queue/src/index.ts` | Cloud Tasks, Pub/Sub | named tasks with a time; publish a wake-up | no wake-up lost for good |
| **Replays** `replays.ts`, `replay-dispatch.ts` | `replays` rows | create without overlap, dispatch, complete | an active replay comes to an end |
| **Watches** `mailbox-watch-renewal.ts`, `mailbox-watch-store.ts` | watch columns of the mailbox row | list, renew, complete, fail | a mailbox that is not watched is renewed; the sync state stays that of the last sync |
| **Connect sessions, credentials** `connect-sessions.ts`, `operators.ts` | sessions, refresh tokens | connect, reconnect, rewrap | a reconnect is not undone by what ran before |
| **Gmail requests** `packages/gmail/src/http-api.ts`, `oauth.ts`, `problems.ts` | none; a chain holds the token it began with | exchange the token, request, classify the answer | a verdict on the user's grant only for a refusal of the grant |
| **Endpoint health** `webhook-deliveries.ts:321` | counter and state of an endpoint | count after every attempt | failing only after three failures |
| **HTTP API, SDK** `apps/api/src/http`, `sdks/typescript/src` | unique constraints; a call's retries | validate, authenticate, create, get, send again | a repeated call creates once, and its answer is true |
| **Lists** `mailbox-query-catalog.ts`, `pagination-cursors.ts` | a cursor the client holds | page by key and id | a row that stays is listed exactly once |
| **Worker server** `apps/worker/src/server.ts` | none | authorize, decode, process, answer | what is acknowledged was handled |
| **Signatures** `webhook-delivery-request.ts`, `sdks/typescript/src/webhooks.ts` | a secret | sign, verify | genuine and recent deliveries pass, nothing else does |
| **CLI, docs, configuration, infrastructure** | none of their own | parse, format, declare | tests cover them |

How they interact. A Gmail push, an API call or a control job publishes a wake-up; the
worker runs one execution for it. Executions of a mailbox meet at the `mailboxes` row
only: they have no lock between statements, and connect sessions, repair, recovery,
watch renewal and dead letters write the same row. A commit inserts events; the execution
then creates delivery rows and tasks for them, in statements of their own. A task calls
the worker, which claims the row, sends the request and completes the row; retries,
replays and recovery ask for further tasks for the same row. Pub/Sub, Cloud Tasks and
Cloud Scheduler reach the worker through its HTTP routes and go by the status it answers;
clients reach the API the same way, and the SDK sends again what it got no answer to.

What is hard. Every statement is a point where others interleave; a guard is checked
in one statement and relied on in the next; a promise that runs a transaction is not
cancelled with the fiber that awaits it; a worker may die or stall anywhere; Gmail
changes between any two reads; Cloud Tasks runs a task again, drops it, or refuses a
name it has seen. `PROJECT.json` lists the places under `hazards`, each with its line
and the properties that watch it.

## Modules

| Module | Models | State and actions |
|---|---|---|
| `MailboxOperationalState` | `mailbox-operational-state.ts` | Problem codes by what they do, and the transitions as operators on the record (status, sync state, last error) |
| `SingleFlight` | what the lease promises | `holder` and `cursor`, no clock: claim, lapse, publish a cursor that is no older, forget the cursor |
| `MailboxSync` | executions, lease, commit guards and final update, and the other writers of the row: recovery, repair, reconnect, dead letters, failed and completed watch renewals, credentials marked unreadable | One action per statement or answer. `pc[r]` is where the code of execution `r` stands; `tx[r]` whether its commit transaction is open past its guards, which can outlive the fiber |
| `CanonicalState` | Gmail reads, compaction, merge, the writes of the commit and its events | `gmail`, `trash` and `history` change at any time; every page and body is read at its own time, and the listing leaves out Trash and Spam; `Commit` is the transaction |
| `WebhookDelivery` | one delivery row, its tasks, workers, recovery and replays | Time as two facts the code compares (`due`, `stale`); a task's name as whether the row still waits for it |
| `SyncDispatch` | Gmail's notifications, wake-ups, pushes, the dead-letter topic, recovery and watch renewal of one mailbox | `wake[m]` is a message and how often it was pushed, `serves` the one whose fate the running execution decides; the execution is as coarse as the transport sees it; `late` is a commit that has stalled past its lease |
| `Replay` | creation and dispatch of replays of one mailbox to one endpoint | `request[r]` is where a creation stands between the check and the insert, `stage[d]` a control job; `armed` and `woken` are what a replay has re-armed and scheduled |
| `EndpointHealth` | the counter that all deliveries of an endpoint share | each completion is a read and a write |
| `WatchRenewal` | overlapping renewals of one mailbox beside syncs and reconnects | `gmailUntil` is what Gmail keeps, `rowUntil` what the row says; a renewal is a listing, a mark, a read of the credential, the request to Gmail with it and the two statements of its completion, or the one of its failure |
| `ConnectSession` | sessions, callbacks, accounts, sealed tokens, key rotation, the rewrap command | `callback[k]` is a chain of a read, a code exchange and a transaction; a stored token is the form of its envelope and the key that opens it |
| `GmailClient` | a sync's and a renewal's requests, and what becomes of every answer | an answer is a status and what its body is to the code; `grants` is what Google thinks of a token |
| `ApiCall` | calls of the SDK that create or get, their retries, the API's validation, authentication, lookups and constraints | `serving[c][n]` is where request `n` of call `c` stands in the API, which goes on although the caller has given up on it |
| `Paging` | the iterator of the SDK over rows that change | a cursor is a key and an id; a page is one statement |
| `WorkerRoutes` | one message at the worker's routes | the token, the body's form and the answers, and what the sender makes of them |
| `WebhookSignature` | signing and verifying the attempts of one delivery | both clocks in ticks, the signature in seconds |
| `MCControlPlane` | the parts above, from `Replay` to `WebhookSignature`, in one run | `part` is the one that moves |
| `MCMailboxSync`, `MCCanonicalState` | constants of the runs | Sets of executions, symmetry, messages and threads |
| `MailboxSyncProofs`, `CanonicalStateProofs`, `WebhookDeliveryProofs` | theorems about the modules they extend | |
| `DispatchProofs` | theorems about `SyncDispatch` | |
| `EndpointProofs` | theorems about `EndpointHealth`, `WebhookSignature`, `Replay` | |
| `ConnectionProofs` | theorems about `WatchRenewal`, `ConnectSession`, `GmailClient` | |
| `ApiProofs` | theorems about `Paging`, `ApiCall`, `WorkerRoutes` | |
| `ControlPlaneProofs` | the run of `MCControlPlane` behaves as each of its parts | |

`MailboxSync` extends `MailboxOperationalState` and instantiates `SingleFlight` with the
lease row as it counts at the moment, an expired owner being no holder. `CanonicalState`
takes the execution's isolation from `MailboxSync`: it has one sync at a time.
`WebhookDelivery` starts where a commit ends, with an event that nothing else knows of.
`SyncDispatch` takes from `MailboxSync` that there is one execution at a time but for
those whose commit stalls past their lease, keeps one of these, and has what surrounds
them. `WatchRenewal`, `ConnectSession` and `GmailClient` extend
`MailboxOperationalState`, whose transitions they apply to rows of their own: each is
about another column or another moment of a mailbox's life, and no property of one
depends on a variable of another.

Abstractions worth knowing:

- An element of `Runs` is an execution, its `sync_runs` row and its lease owner id, for
  the code draws a fresh id per execution.
- `stored` in `MailboxSync` is the history id at which the rows of the last snapshot were
  read: `CanonicalState` has the rows themselves.
- The listing of stuck executions has no step: the recovery checks the same conditions
  again under `FOR UPDATE`. The listing for repair has one, because the preparation
  that follows checks the status only.
- Gmail's `messages.list` is taken to leave out what is in Trash or Spam when the page is
  asked for, as the request names no `includeSpamTrash` (`http-api.ts:206`), and nothing
  else. A row of such a message is written by the history, which names it when it moves.
- The content of a message is the history id it dates from; the summary of a thread is
  the message it is taken from.
- The start of a claim (`processing_started_at`) is a value no worker remembers, which
  is what two different instants give. Two claims in the same millisecond are left out.
- Of the local transport nothing is modelled: the queue is Cloud Tasks and Pub/Sub.
- Names, URLs and windows of an API call are members of one small set, for the
  constraints only tell whether two of them collide. What is wrong with a request is a
  field (`fault`), and each fault is found where the code finds it: by the SDK's
  `safeParse`, by the validator, by the authentication, by the parsing of a range.
- In `ApiCall` a creation is atomic. `Replay` takes it apart for replays; for endpoints
  and subscriptions it is one `INSERT ... ON CONFLICT DO NOTHING` in one transaction.
- An HMAC is the secret and what it was computed of; encryption is the key it takes to
  open an envelope.
- Renewals, replays and attempts that begin again are the same element again, so that
  `Renewers`, `Dispatches` and the like bound what overlaps and not how often it happens.

## Runs

Each cfg names its module first. The violations are disagreements of the code with what
the repository says of it; `findings` in `PROJECT.json` quotes both.

| Run | Shows |
|---|---|
| `sync_calm` | With crashes at any point, repair, recovery and reconnects: types, one open commit, canonical rows as new as the cursor, a cursor that never goes back, and `SingleFlight` implemented |
| `sync_faults` | With database errors, stalled commits, reconnects in a commit, failing renewals and credentials marked unreadable as well: what the lease row and the mailbox row still keep. A healthy mailbox has a cursor, and no error but one of a renewal that keeps the consent |
| `sync_stalled_commit` | *Violation.* A commit that stalls past its lease lands after a takeover: the guard is a read, the final update is by id |
| `sync_late_heartbeat` | *Violation.* The heartbeat still races the scheduling of deliveries and turns a completed run into a lost lease |
| `sync_stranded_run` | *Violation.* A takeover before recovery leaves the dead run `running` for ever |
| `canonical_complete` | Nothing missed but what the listing of a full sync leaves out, threads follow messages, events tell the rows, while Gmail changes between any two reads |
| `canonical_full_resync` | *Violation.* Messages deleted while a cursor was lost are never removed |
| `delivery_settles` | Outcomes are fenced and stand, attempts are bounded, and an armed row settles |
| `delivery_lost_event` | *Violation.* A crash after the commit and before the delivery rows loses the event |
| `delivery_no_retry` | *Violation.* An answer that is neither 2xx nor 5xx (a 429, say) is final at once |
| `dispatch_changes` | Every change that Gmail announces, or fails to announce, reaches the cursor, also after a stalled commit has taken it back; the lease of a dead or stalled worker comes free; a wake-up that is given up shows in the row |
| `control_plane` | For each of the nine parts, its type invariant and its promise (below) |

What `control_plane` says of its parts:

| Part | Properties |
|---|---|
| `Replay` | `ReplaysDoNotOverlap`: two active replays never share an instant, although both creations may pass the check. `ConflictOverlaps`: a refusal names a replay that really overlaps, or after a lost race the request's own id. `RunningReplayIsWorkedOn`: one job at a time, and only a job that died leaves a replay running. `CompletedReplayIsSent`: what is counted as replayed was armed and scheduled |
| `EndpointHealth` | `CountsConsecutiveFailures`: exact while completions do not overlap. `FailingTakesThreeFailures`: however they overlap, increments may be lost but never invented |
| `WatchRenewal` | `UnwatchedMailboxIsListed`: a mailbox that Gmail no longer watches is due for renewal, wherever jobs die; a renewal that held the token of an account since replaced may hide it, for the lifetime of one watch at most. `SyncStateTellsLastSync`: renewals replace and clear errors of a sync, but a mailbox whose last sync failed does not look healthy, nor one whose last sync completed ill unless its consent is lost |
| `ConnectSession` | `CredentialIsLatest`: the credential is that of the last connection, and of the account that the row names. `MarkedMailboxIsUnreadable`: the rewrap asks for a new consent only where the token cannot be opened, but for a reconnect after its listing. `RewrapRetiresOldKeys`: after it, the older keys can go, but for what a callback sealed before the rotation and stored after it |
| `GmailClient` | `VerdictFollowsGoogle`: a reconnect is asked for only when the grant is gone, lagging is for throttles and lost cursors, healthy for a sync without trouble |
| `ApiCall` | `CallCreatesOnce`: retried and overlapping requests create once, all rows or none, but for connect sessions. `AnswerTellsWhatHappened`: what the caller is told is what its requests did |
| `Paging` | `StableRowsListedOnce`: a row that stays where it is comes exactly once |
| `WorkerRoutes` | `AcknowledgedWasHandled`: a message is forgotten only when its processor has succeeded for a trusted sender, but for undecodable dead letters and Gmail pushes in local mode |
| `WebhookSignature` | `GenuineIsAccepted`: the helper accepts what the worker signed, within the tolerance, and nothing else, up to the second that is rounded away |

The exceptions in this table are behaviour of the code. They are stated as histories
(`strayed`, `reconnected`, `lateSealed`, `overlapped`) that name exactly the
interleaving that breaks the plain promise, so that any other way to break it is found.

`control_plane` is a sum. The parts share no state, so a product of them would only
multiply what each does alone: `PartInit` chooses the part that moves, the others stay at
one of their initial values, and the properties of a part that does not move hold of
that value. `PartView` leaves out of a state's identity what never changes. `PartInit`
also fixes choices that are alike: the first account, token and secret, calls of one kind
of which the first is well formed and belongs to `w1`, and an old credential whose
envelope names no key.

### Bounds

- `MailboxSync`: two executions, of which one can die or be overtaken by the other; a
  lease of two ticks and heartbeats of one, so that one missed beat is survived and two
  are not (the code: 90 s and 30 s); three ticks, so that a lease that was taken at once
  expires and is taken over. Three history ids give a first sync, an incremental one and
  one that falls behind; `Lag` 1 lets an answer of `history.list` trail the mailbox.
  `sync_faults` has one history id, as its properties are about the lease and the row,
  one problem that a completed renewal clears and one that costs the consent. 4.7 million
  states for `sync_calm`, 3.2 million for `sync_faults`.
- `CanonicalState`: three messages, two in one thread and one in another, give threads that
  shrink, empty and stay; four changes give a message that is added, changed and deleted
  with one more around it; one reset gives the full sync that follows a repair.
  1.1 million states.
- `WebhookDelivery`: two workers, so that one can overtake another; two attempts, so
  that there is a first, a last and one too many; one replay at any point; two faults,
  which may be any of a crash, a stall, a dropped task and a failed call.

- `SyncDispatch`: two wake-ups, so that one waits while another is served; two tries
  before the dead-letter topic; two changes, so that one comes before and one after the
  execution has read; two faults, so that a notification is lost and then a worker, a
  publication or a renewal fails, or a commit stalls and the execution that took over
  fails too. At most one commit is stalled at a time, and a wake-up is not pushed while an
  execution whose lease a late commit has cleared is ending. 0.5 million states.
- `Replay`: two creations, two instants (windows that are equal, nested, touching at
  one instant and apart) and two jobs, one of which may die. `EndpointHealth`: four
  completions, one more than makes an endpoint failing. `WatchRenewal`: two renewals, two
  accounts, a watch of two ticks, a window of one and three ticks of time: a watch that
  is renewed, one that runs out and one that is renewed twice; a problem of the watch, one
  that is none and one that costs the consent.
- `ConnectSession`: two sessions, two callbacks, two identities and two accounts give
  every way to match, none, one or two rows; two keys give one rotation. `GmailClient`:
  two tokens, the old and the new one, and two messages, of which one may fail.
- `ApiCall`: two calls of two requests each (`MaxElapsed` 0: the loop sends again until a
  wait has been longer), two workspaces, two names. `Paging`: four rows, two keys, pages
  of one and of two, so that ties cross a page's end. `WorkerRoutes`: two requests that
  overlap, two tries. `WebhookSignature`: two ticks a second, a tolerance of one second,
  clocks up to two seconds apart either way, two attempts in two seconds.

No run checks deadlock: the clock, the history and the executions of `MailboxSync` are
bounded, a delivery that has settled has nothing left to do, and neither has a mailbox
whose changes are synced, a call that has its answer or a listing that is over.

### Fairness

`WebhookDelivery` and `SyncDispatch` have liveness. `WebhookDelivery` assumes that a
process that is alive goes on, that Cloud Tasks dispatches a task that is due and forgets
old names (de-duplication is for a limited time), that the recovery job runs again and
again (a Cloud Scheduler job of `infra/main.tf`, and every start of a worker,
`apps/worker/src/index.ts:187`) and that time passes. It does not assume that a task
survives or that an endpoint ever answers 2xx, and faults are bounded: without a bound
they could go on for ever. `ArmedDeliverySettles` then holds because recovery asks for
tasks of both pending and processing rows, and because the retry's name differs from the
one it follows.

`SyncDispatch` assumes that a live execution, renewal or callback goes on, that Pub/Sub
pushes a message it holds, to the dead-letter route as well, that a lease and a watch run
out, and that the recovery and the renewal jobs run again and again: both are
Cloud Scheduler jobs (`infra/main.tf:884`). Nothing makes Gmail change or a notification
arrive, and faults, stalls among them, are bounded. A stalled commit need never go on:
its lease has expired. A skipped run is acknowledged although the execution it
met may have read the mailbox already; `ChangeIsSynced` holds all the same because the
next renewal compares the cursor with the history id that Gmail answers
(`mailbox-watch-renewal.ts:82`), and only therefore: its mutant dispatches for an expired
watch alone. It takes as long as a watch lasts, less the window. The jobs that no schedule
starts, `repair_mailboxes` and `dispatch_replays`, have no fairness anywhere.

## Proofs

The theorems hold for every value of the constants that meets the assumptions stated
where the constants are declared. None needs fairness. The assumptions say what the
constants are (numbers, finite sets, a `NULL` that is no member) and little more; the
ones that say something of the system are that an attempt limit is positive, that a lease
and its heartbeat are, that a page takes at least one row, and that a renewal of a
watch fails with one of the problems that its code raises. Each proof has the same form:
an inductive invariant, a lemma per action that keeps it, and the property as a
consequence. Theorems named `...Invariance` state the invariants themselves.

### The lease

`MailboxSyncProofs` proves the following for any set of executions, any lease, heartbeat,
history and clock bound, from the assumptions that `MailboxSync` names. `Calm` says
that no commit outlives its lease: crashes and dead letters are allowed, while stalled
commits, database errors and reconnects during a commit are not; renewals and the
operator may write the row. `sync_stalled_commit`
shows why it is needed.

| Theorem | States | Under |
|---|---|---|
| `TypeCorrectness` | `[]TypeOK` | all faults |
| `LeaseNamesAnOpenExecutionAlways` | the owner in the lease row can still release it or died holding it, and has not committed | all faults |
| `HealthyMailboxHasCursorAlways` | a healthy mailbox has a cursor, and no error but one of a watch renewal that keeps the consent | all faults |
| `TakeoverOnlyAfterExpiryAlways` | no live lease changes hands directly | all faults |
| `SingleWriterWhenCalm` | one open commit at most | `Calm` |
| `CanonicalCoversCursorWhenCalm` | the rows are as new as the cursor | `Calm` |
| `CursorNeverRegressesWhenCalm` | the cursor is never replaced by an older one | `Calm` |
| `LeaseImplementsSingleFlight` | `Spec => SF!Spec` | `Calm` |

The argument. `LeaseInv` adds to the lease's property what each step needs of the one
before: an execution asking for the lease has a running run, an execution with an open
commit is at or past the commit, starts are in the past. It is inductive with `TypeOK`.
`CommitInv` adds, when calm, that an open commit holds a live lease (`OpenCommitHoldsLease`;
two would both be the owner), that its result is not behind the cursor
(`OpenCommitIsCurrent`), and that what an execution started from and what it read are
covered by the rows or will be by its own commit (`BaseCovered`, `HolderResultCovers`).
The cursor is read before the lease is taken: this is why `CanonicalCoversCursor` alone
is not inductive. For the refinement, the steps that change the holder or the
cursor are collected in two lemmas, and each maps to an action of `SingleFlight` or to a
stutter, `Tick` included: it makes an owner lapse.

### The canonical state

`CanonicalStateProofs` proves, for any number of messages, threads, changes and resets:

| Theorem | States |
|---|---|
| `TypeCorrectness` | `[]TypeOK` |
| `NothingMissedAlways` | beyond the history that the next sync reads, the rows are Gmail's, but for messages that the listing of a full sync left out |
| `ThreadsFollowMessagesAlways` | a thread summarises the newest of its messages, and has a row exactly when it has any |
| `EventsTellStateAlways` | the last event about a message or a thread carries what its row holds |
| `EventsCarryCommittedStateAlways` | no event carries what its own commit does not leave behind |

`NothingMissed` speaks of an idle mailbox; `ReadInv` says what each read of a running sync
is worth: current, or followed by a history record that this sync or the next will read
(`Listed`, `Fetched`). `Touched` is stable as the history grows, so a change in Gmail
breaks none of this. A body that comes back as a 404 needs `HistoryInv`: a message
that is gone has a deletion as its last record, and it was not on the pages
already read, so it comes after them. `NeverSynced` covers the messages that a first
sync does not find. `LeftOut` is what the listing cannot show: Trash and Spam at the first
sync, for as long as the message stays there, and after a reset what was trashed or deleted
in the gap, whose row `canonical_full_resync` shows to stay.

Threads and events form an invariant of their own, `TableInv`: a commit leaves the
summaries of all threads as the newest of their rows (`SummaryFollows`) because a thread
outside `AffectedThreads` keeps its messages (`UnaffectedThreads`), and empty threads
are removed whenever messages were deleted. That the newest of a set of messages exists
follows from the well-foundedness of the naturals.

### The delivery

`WebhookDeliveryProofs` proves, for any number of workers, attempts, replays and faults:

| Theorem | States |
|---|---|
| `TypeCorrectness` | `[]TypeOK` |
| `DeliveredWasAcceptedAlways` | a delivered row was accepted by the endpoint since it was armed |
| `OutcomeStandsAlways` | only a replay moves a row that has an outcome |
| `AttemptBudgetAlways` | attempts are at most the limit plus one for every fault |

The fence is the pair of attempt count and start that the completion compares. It works
because the claims that workers remember differ in their start (`ClaimsDiffer`), so that
at most one worker owns the row, and a 2xx that the owner heard is about the row as it
is armed now (`OwnAnswerIsTrue`). The budget needs `LostAttemptsArePaid`: an attempt that
nobody is making any more, or that counts as stale, has cost a fault.

### The dispatch

`DispatchProofs` proves, for any number of wake-ups, pushes, changes and faults:

| Theorem | States |
|---|---|
| `DispatchTypeCorrectness` | `[]DispatchTypeOK`: no wake-up is pushed more often than the subscription allows |
| `CursorAdvancesUnlessLateAlways` | the cursor goes back only when a commit that had stalled past its lease lands, never by an execution that holds it |
| `RenewalMissesNoChangeUnlessStalled` | if no commit stalls so, the renewal's comparison, with a cursor that may be stale, finds every change the row lacks |
| `WakeUpsGoForAReasonAlways` | a wake-up is gone only with the commit of the sync it started, beside a held lease, or with the mailbox marked as failed |

The last three are stated in `DispatchProofs` and are what `ChangeIsSynced` and
`DeadLetterShows`, which TLC checks under fairness, rest on: a wake-up that is dropped for
another reason, or a renewal that overlooks a change, would be a change that waits for
ever. No run has them; they were tried with TLC on the instance of `dispatch_changes` with
three changes before they were proved. `DispatchInv` says that an execution holds the
lease unless a late commit has cleared it under it, that the message being pushed is the
one served, that a queued message has tries left, and that whoever has read the history
id is at most behind, and not behind whoever committed or stalled before
(`NobodyIsAhead`). The last is why only a late commit can take the cursor back: it has
read before the execution that took over, which `sync_stalled_commit` shows to commit
first. After that a listed cursor may be ahead of the row's, and a renewal sees no gap:
`ChangeIsSynced` then rests on the renewal after it.

### Endpoints: health, signatures, replays

`EndpointProofs` proves, for any number of completions, replays, dispatches and faults, any
set of instants, any tolerance, clock resolution and skew:

| Theorem | States |
|---|---|
| `HealthTypeCorrectness`, `SignatureTypeCorrectness`, `ReplayTypeCorrectness` | the type invariants |
| `CountsConsecutiveFailuresAlways` | `[]CountsConsecutiveFailures` |
| `FailingTakesThreeFailuresAlways` | `[]FailingTakesThreeFailures` |
| `GenuineIsAcceptedAlways` | `[]GenuineIsAccepted` |
| `ReplaysDoNotOverlapAlways`, `ConflictOverlapsAlways` | the two promises of a replay's creation |
| `RunningReplayIsWorkedOnAlways`, `CompletedReplayIsSentAlways` | the two promises of its dispatch |

Health: a completion reads the counter in one statement and writes it in another, so
neither property is inductive alone. `CountersAreBacked` bounds the counter, and every
value that a completion holds of it, by the number of failures counted so far: an
increment may be lost to a later write of an older value, but no value exceeds what
was counted. `ReadsAreCurrent` has the exact count for as long as no write came between a
read and its write.

Signatures: `SignedAtAttempt` ties what is under way to the second of its attempt. The
rest is arithmetic on whole seconds, in lemmas of its own: rounding the signer's clock
down and the verifier's too moves the difference by less than a second.

Replays: `ReplaysDoNotOverlap` rests on the exclusion constraint at the insert. The
dispatch rests on its conditional update from `queued` to `running`: a job past it has
the replay to itself (`PreparedIsExclusive`), so that nobody else changes what it has
selected, armed and scheduled (`SelectionIsKept`). A replay that is running with no job
has lost one to a fault; `AbandonedByFaults` counts such replays against the faults.

### The connection to Gmail

`ConnectionProofs` proves, for any number of renewals, accounts, sessions, callbacks,
identities, keys and messages, and any watch period and window:

| Theorem | States |
|---|---|
| `WatchTypeCorrectness`, `ConnectTypeCorrectness`, `GmailTypeCorrectness` | the type invariants |
| `UnwatchedMailboxIsListedAlways` | `[]UnwatchedMailboxIsListed` |
| `SyncStateTellsLastSyncAlways` | `[]SyncStateTellsLastSync` |
| `CredentialIsLatestAlways` | `[]CredentialIsLatest` |
| `MarkedMailboxIsUnreadableAlways` | `[]MarkedMailboxIsUnreadable` |
| `RewrapRetiresOldKeysAlways` | `[]RewrapRetiresOldKeys` |
| `VerdictFollowsGoogleAlways` | `VerdictFollowsGoogle` |

Watches: neither the row nor any answer on its way to the row promises more than Gmail
keeps (`RowPromisesNoMore`). That is inductive because a later watch of an account only
extends the earlier one. An answer for the account before a reconnect breaks it
(`strayed`), and then only the lifetime of that watch bounds what the row promises. The
sync state is written by syncs, by connects and, for a lost consent, by renewals: this is
all that `SyncStateTellsLastSync` needs, and it is inductive as it stands.

Credentials: a callback holds its session, its account and its sealed token from step
to step (`CallbacksHoldSession`). What the rewrap command has listed and not yet visited
is still stored, or was replaced by a reconnect (`ListedIsCurrent`): its update
compares the ciphertext, so it cannot undo one. `RewrappedSoFar` is `RewrapRetiresOldKeys`
of a command half way through: a row is sealed with the new key, reported, late, or
still ahead in the listing.

Gmail requests: `ProblemTellsTrouble` keeps what an operation will report in step with
what the answers really were, through the fan-out of the message reads, and
`TokensAreIssued` says that nobody holds a token that was not given out.

The old mailbox needs an identity and an account to belong to (`OldMailboxAssumption`).

### The HTTP interfaces

`ApiProofs` proves, for any rows, keys and page size, any number of calls, of requests per
call, workspaces and names, and any number of overlapping pushes and tries:

| Theorem | States |
|---|---|
| `PagingTypeCorrectness`, `ApiTypeCorrectness`, `RouteTypeCorrectness` | the type invariants |
| `StableRowsListedOnceAlways` | `[]StableRowsListedOnce` |
| `CallCreatesOnceAlways` | `[]CallCreatesOnce` |
| `AnswerTellsWhatHappenedAlways` | `[]AnswerTellsWhatHappened` |
| `AcknowledgedWasHandledAlways` | `[]AcknowledgedWasHandled` |

Listings: the cursor divides the rows (`CursorDivides`): what was shown is not after it,
and a row that stays is shown or after it. A page keeps this because it takes a subset
that is closed downwards in the order of key and id. That such a subset of the right
size exists, and is what the page's `CHOOSE` yields, follows from well-foundedness.

Calls: `ApiInv` says of the rows that each was asked for and made by a request that is over
(`RowsAreAskedFor`), that names are unique whoever inserts (`NamesAreUnique`), and that a
request makes all it asks for or nothing (`RequestsAreAtomic`). `Truthful(c, status)` says
what a status means for the request sent last, and is stable: rows are ended but
never unmade, and a request that is over does nothing more (`RowsOutlast`, `TruthIsKept`).
The caller is told the status of the last request (`RepliesAreTrue`). The operator who
inserts rows beside the API is not a call (`CallsAssumption`).

Routes: `StageIsEarned` gives a request that is authorized a trusted token, unless the mode
is local, and one that is answered with a 2xx a handled message or one of the two
exceptions of the property.

### The control plane in one run

`PartsBehaveAsAlone` states that `PartSpec`, which `control_plane` checks, implies the
specification of each of its nine parts: initial states that fix more are initial
states, and a step of one part is a stutter of the others. What is proved of a part is
therefore proved of the run, and the run does not rest on anything that the sum adds.
`PartTypeCorrectness` states `[]PartTypeOK`.

### Left to TLC

Liveness under fairness and anything with `ENABLED` are beyond the prover:
`ArmedDeliverySettles`, `ChangeIsSynced`, `LeaseComesFree` and `DeadLetterShows` are only
model-checked. What a recursive definition computes for every input would be too, but there
is no `RECURSIVE` operator in the project. Everything else that a passing run checks is
stated by a theorem: outright, but for `SingleWriter`, `CanonicalCoversCursor`,
`CursorNeverRegresses` and `ImplementsSingleFlight`, which a stalled commit breaks and which
are proved under `Calm`, as `sync_calm` checks them. The properties of the runs that
expect a violation are refuted, and have no theorem.

## Plan

Written, in order of what matters most: `MailboxSync` over its abstract specification,
`WebhookDelivery`, `CanonicalState`, `SyncDispatch`, `Replay`, and the small modules of the
control plane; then the proofs, module by module. To come:

1. That `CanonicalState` implements, sync by sync, the rows that `MailboxSync` abstracts
   to one number.
2. An abstract specification of what a delivery promises its subscriber, implemented by
   `WebhookDelivery`, and one of a replay.

## Not modelled

- The command line parses, asks and prints; what its commands write is written by the
  operations of the other components. The creation of workspaces and API keys, the audit
  of credentials and the listing of events for a local replay are single statements.
- The OpenAPI document and its normalisation: no request passes through them. While
  modelling the functions of the SDK we saw that the document does not describe every
  status the API answers (401 for any route, 409 for endpoints and subscriptions, 404 for
  the creation of replays and for lists), so that callers get a plain error for these;
  `FunctionOf` in `ApiCall` has them as they are. The generated encodings, schemas and
  hooks are left out.
- The observability read model, which is a query and a formatting; the parsing of MIME
  bodies; the page that ends a connection and the signature of the OAuth state.
- Configuration, the schema's declarations and infrastructure are inputs of the models:
  their numbers and constraints are quoted where a bound or a fairness rests on them.
- The local transport of development: timers of one process, lost with it.
- The secret of an endpoint that `ensureLocalReplayWebhookEndpoint` replaces
  (`packages/db/src/persistence/operators.ts:408`): `ApiCall` has the row, not the secret.
