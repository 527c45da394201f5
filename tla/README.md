# Verification of the DataLink Runtime's reliable execution

DataLink Runtime (DLR) runs user-written Adapters on Worker nodes. A *Control*
process keeps all durable state in PostgreSQL and hands work to Workers over
RabbitMQ. This directory holds TLA+ models of the part of DLR that must not go
wrong silently: the path of an *Execution* from its acceptance, over the
transactional Outbox, the Relay, the Broker and a Worker's Claim, to its single
terminal status, through crashes, lost and duplicated messages, expired leases,
cancellations, cache reclamation and operator interventions. Around that core
stand the parts that feed it and keep it going: Schedules, event subscriptions,
the connection handling of a Worker's consumer and its cache. TLC checks the
models on small instances; most of their safety properties, and the refinements
that tie the models together, are also proved with TLAPS for every value of the
constants.

Paths below are relative to `src/backend/src/dlr/`.

## 1. Inventory

### Components, their state and operations

| Component | State it keeps | Operations | Correct when |
| --- | --- | --- | --- |
| Ingress (`control/services/reliable_execution.py`, `admission.py`) | `executions`, Admission counters per Adapter and global | `accept_execution`, `reserve_admission`, `release_admission_once`, reconciler | accepted work is admitted, queued and in the Outbox as one transaction; counters equal the outstanding Executions; caps hold |
| Attempts (`attempt.py`) | `execution_attempts`, `adapter_execution_slots` (active pointer and fence) | `claim_dispatch`, `start_attempt`, `renew_attempt`, `progress_attempt`, `finish_attempt`, `prepare_failed`, lease recovery, retry dispatch, replay | one active Attempt per Adapter; fences never reused; a late report changes nothing; at most `max_attempts` |
| Cancellation (`execution.py`, `execution_cancellation.py`) | `status`, `cancel_requested` | `cancel_execution_locked`, `request_cancellation` | a requested cancellation is the only outcome left, and is reached |
| Outbox and Relay (`outbox.py`) | `execution_outbox` rows: status, lease owner and expiry, error code | create, lease, publish and confirm, mark, release, settle | an accepted dispatch is always somebody's responsibility |
| Infrastructure DLQ (`infrastructure_dlq.py`) | Incidents | `reconcile_message`, `drain_once` | a dead letter is recorded before it is acknowledged; a live dispatch goes back to the Outbox or to an operator |
| Dispositions (`incident_disposition.py`) | Incidents and receipts | `recover`, `terminate`, convergence on terminal paths | recover takes the dispatch on again; a pending terminate is resolved by every terminal path |
| Cache guards (`cache_governance.py`) | `worker_cache_guards` | acquire for gc/cleanup or replacement, finish, `ensure_reference_allowed` | nothing that needs a cached Revision is admitted while it is reclaimed |
| Worker consumer (`worker/consumer.py`) | connection epochs, one `SlotTicket` per execution slot, Attempt journal | delivery, Claim, prepare, journal, ACK, run, renew, report | an Attempt is run by one ticket; no slot is reused while its work may still run |
| Broker (RabbitMQ, external) | quorum queue per Worker, DLQ | deliver, redeliver, dead-letter | at-least-once |
| Schedules (`schedule.py`) | `next_run_at` cursor, misfire policy, `schedule_dispatch_outcomes` | scheduler tick per Control process, three misfire policies, PUT, run-now | one Execution per planned point, none skipped unrecorded, a due row never stuck |
| Idempotency (`idempotency.py`) | key records | lookup, create, expire | one Execution per key |
| Subscription reception (`subscription_runtime.py`, `subscription_queue.py`, `subscription_management.py`) | desired and connection state, fenced lease, owner threads and their native clients | start, connect, poll, take custody, acknowledge, close, renew, enable, disable | no event acknowledged without its receipt; stopped means closed; a stop completes |
| Subscription delivery (`subscription_delivery.py`, `subscription_t1_unit.py`, `subscription_business_batch.py`, `subscription_batch_retention.py`, `subscription_scheduler.py`) | receipts, deliveries, checkpoint barrier, quotas | receive, dispatch, observe, replay, skip, repair, retention | a shard is served in order; quotas equal what is stored; what is owed can be delivered |
| Managed input (`managed_input_*.py`, `artifact_store.py`) | uploads, artifacts, leases | upload, finalize, gc | no artifact in use is collected |
| Worker cache (`worker/cache*.py`) | cache trees, use records, deletion records | begin use, delete, replace, recover | no cache in use is deleted; a guard is always finished |
| Worker agent, executor, sandbox, workspaces | processes, cgroups, journals | run, clean up, recover after restart | outside this project, except for the result a ticket reports |
| AI assistance, accounts, secrets, templates, web console | CRUD data | | outside this project |

### How they interact

Control's handlers are PostgreSQL transactions that take row locks in one order:
Adapter, Admission counters, Execution, Attempts, Slot, Incidents, Outbox. The
Relay is a loop in each Control process: it leases pending rows in one
transaction, reads the Execution's status in another, publishes outside any
transaction and marks the row in a third. A Worker holds one delivery per
execution slot, asks Control for a Claim over HTTP, writes a journal,
acknowledges the delivery, and only then lets Control start the Attempt. Two
reconcilers recover expired Attempts and re-dispatch those in `retry_wait`; a
third drains the DLQ. Operators dispose of Incidents.

### What is hard

Everything between two transactions: the publish whose confirm is lost, the
Relay that dies or stalls before it marks a row, the delivery that is requeued
while its Claim is under way, the lease that runs out between a result and its
lock, the cancellation that meets a retry, the Incident that is recovered while
the Relay still holds the row, the acknowledged message while a cache guard is
held; the Schedule row that was due when the tick began, the event whose COMMIT
was not answered, the thread that outlives its connection, the rename before a
crash. `PROJECT.json` lists these hazards at their lines.

## 2. Modules

| Module | Models |
| --- | --- |
| `ExecutionLifecycle` | what a caller of the Execution API is promised: status, attempts begun, cancellation; no machinery |
| `ReliableControl` | Control's rows and transactions |
| `ReliableDispatch` | Relays, Broker, DLQ and Worker tickets around `ReliableControl` |
| `MCReliableControl`, `MCReliableDispatch` | one shared Adapter and symmetry sets for TLC |
| `Schedule`, `MCSchedule` | one Adapter's Schedule and the scheduler loops |
| `SubscriptionListener` | lease, owner threads and custody of a queue source |
| `SubscriptionDelivery` | received events from T1 to retention |
| `WorkerConsumer` | connection epochs, slot tickets, callbacks and pool threads |
| `CacheDeletion` | use, deletion, replacement and recovery of a Worker's cache entry |
| `MCSubscriptions`, `MCBackground` | the last four and `Schedule` put together for TLC |
| `ReliableControl_proofs`, `ReliableDispatch_proofs`, `Schedule_proofs`, `SubscriptionListener_proofs`, `SubscriptionDelivery_proofs`, `WorkerConsumer_proofs`, `CacheDeletion_proofs` | the theorems about the module of that name |
| `LeastElement` | the lemmas on `Min` and `Max` that two of them use |

The components of `MCSubscriptions`, and those of `MCBackground`, share no
variable. Their product would only multiply states, so a variable `part` chosen
in the initial state says which of them moves; the others stay in a state in
which none of their fair actions is enabled, so that the conjunction of the
fairness conditions constrains only the one that moves.

### ReliableControl

One action is one committed transaction: since every handler locks what it
decides on before it reads it, two transactions on the same Execution or
Adapter are serial, and a rolled-back one changes nothing. The model lets anyone call any handler at any
time, so that what is proved of it does not depend on Workers or Relays being
well behaved; a report carries the identity of its Attempt, because the code
checks the Attempt's own claim token and fence (`_validate_action`).

State and code: `execution` (status, `dispatch_generation` as `gen`,
`attempt_count`, `cancel_requested`, `admission_released_at` as `released`),
`attempt` (status, `fencing_token`, remaining lease), `slot`, `outbox` (status,
lease owner, whether the lease is live, the error codes the code branches on),
`incident` (the latest Incident of a generation and kind: open, pending
termination, closed), `admission` and `outstanding`, `guard`.

Abstractions:
- **Time.** An Attempt lease is a number of ticks; an Outbox lease is live or
  expired; rows and retries that are scheduled for later may be taken at once.
  Every order of clock events that the code could see is a behaviour.
- **Results.** A Worker reports success, a failure of a business or of a
  transient class, or a cancellation; `timed_out`, `resource_exceeded` and
  `failed` are failures of one of the two classes. Which classes are retried is
  the constant `Retryable` (`retryable_error_classes`).
- **Statuses.** `expired` is in the schema but no code writes it.
- **Incidents.** The latest row per generation and kind. Incidents that
  `claim_dispatch` records for malformed or misrouted messages stand outside:
  they change nothing else, and the rejected message comes back through the DLQ.
- **Capacity.** Counts, not bytes; the Outbox's age limit only refuses more.
- **Cache guards.** One Revision and target Worker per Adapter. Cleanup receipts
  and artifact holds also refuse a guard in the code; the model grants more.

### ReliableDispatch

Adds what lies between transactions. A Relay cycle is `idle`, `leased`, `batch`,
`checked` (status read, about to publish), `confirmed` or `failed`; each step is
an action, and `RelayCrash` may end it anywhere, leaving its leases. A ticket is
`free`, `delivered`, then what Claim answered (`execute`, `ack`, `defer`,
`reject`), `journaled`, `acked`, `running`; `orphan` is a ticket whose delivery
was requeued while a request of its thread was still on the way to Control. The
Broker holds copies of messages and the DLQ; it delivers in any order, requeues
what a faulted ticket held, or dead-letters it at the delivery limit.
`PAUSE_CONSUMER` answers and every local failure of a ticket are `TicketFault`.
A fault takes one ticket at a time, which includes a connection fault that takes
all of them. Every step makes at most one transaction of `ReliableControl`;
`ImplementsControl` checks that by refinement.

### Schedule

A tick is two steps, as in the code: `SchedulerTick` reads the database clock
and the due rows, `ProcessDueRow` is the later transaction that locks Adapter
and Schedule, looks again and applies a policy with the `now` of the tick. In
between other schedulers, PUTs and run-nows happen, the clock goes on, and it
may be set back. `TickFails` is a row locked by somebody else, a rollback or a
restart. A policy is an operator that returns outcome records, accepted points
and the new cursor; whether the input is valid, the row structurally able to
run, and how much room Admission and Outbox leave is chosen at each tick,
because all three change independently. `Commit` adds the records of a tick to
the audit trail in some order: only the set of rows of a transaction is looked at
afterwards. A cron is a period; expressions and
time zones are left to their library. `rebased` is a history variable: the
cursor the last PUT set.

Of the Adapter's Executions the model keeps the planned points that are
outstanding (`active`), how many run-nows are (`manual`), whether one of them
all is running (`running`: the Slot is taken), and which points were accepted
under `skip_while_busy` (`exclusive`, their `schedule_policy_snapshot`).
`ExecutionStarts` is a Claim, `ExecutionRetries` an Attempt that fails into
`retry_wait`, `ExecutionEnds` any terminal status. Two conditions look alike and
are not: `Busy`, on which `skip_while_busy` decides, counts queued, running and
retrying Executions; `RuntimeLocked`, on which a PUT decides, counts running
ones only (`ACTIVE_EXECUTION_STATUSES`), and an enabled trigger. So a Schedule
that was disabled may be PUT to another policy, and enabled again, while
Executions wait: two that were queued under `queue_every_occurrence` are then
outstanding under a `skip_while_busy` Schedule. The product documentation wants
it so. `SkipNeverOverlaps` therefore speaks of the Executions which the policy
accepted, not of the Schedule's policy of the moment: two of these are never
outstanding together, and none is accepted beside an older planned one.

`PageSize >= MaxAge + 2` states what
`SCHEDULE_AUDIT_PAGE_SIZE` and the limit of `max_catchup_age_seconds` give; the
mutant `ShortPage` shows that progress needs it. `PlannedSpec` is the part without
run-nows and clock corrections, which `schedule_audit` explores further;
`background` has all of it. PUTs end a minute before the clock does: a later one
would plan nothing that comes due within `MaxTime`.

### SubscriptionListener

One subscription, its lease row and the owner threads of several Control
processes. An owner goes `opening`, `connecting`, `polling`, `holding` (a
message polled), `committed` (T1 done), back to `polling` or to `closing` and
`finishing`; `faulting` records why T1 was refused; `failing` and `unconfirmed`
are a close that raised. An owner id is a fresh uuid at each acquisition and is
represented by the lease generation it was given. `CommitOutcomes` has the
COMMIT that fails with the receipt stored. The ACK may be lost, or take effect
although the client reports an error. `Fence`, `ClosedLease` and `Awaited` are
the hand-shake of `closing_generation`. The permits of a process and its
back-off delays are left out; every start that the delays allow may happen.

### SubscriptionDelivery

One subscription with one shard, in single or business-batch mode. A receipt has
a list of deliveries (the first and its replays); an Execution is named by the
delivery that heads it and is live until it reports how many of its members
succeeded. One action is one transaction, all of which lock the subscription
first. Age is counted from `terminal_at` in two steps: past the payload window
and past the metadata window; `CleanupHistory` is a whole retention pass,
batches first. Counts stand for the byte budgets, which follow the same deltas.
What `audit_quota` recounts is written as sets of rows (deliveries, pending
deliveries, held payloads) whose cardinalities the quota rows must equal.
Both quota scopes take the same deltas; one stands for the tighter of them.
Whether Admission accepts an Execution is part of `Dispatch` being taken at all.

### WorkerConsumer

The I/O thread with its epochs, and the pool threads. A ticket is a slot and one
of two names, enough to tell a second ticket of a slot from the first. Callbacks
that threads hand to the loop are a set, which allows every order of the queue
that `add_callback_threadsafe` keeps and more. A closed loop drops them. A ticket
is released by whichever sweep first finds it done, so that its own completion
callback may come after that: it is then `late`, looks at no ticket, and the name
may already stand for the next one. `own` says that a ticket belongs to the
current epoch. `FaultEpoch` aborts the stream once; if that raises, the consumer stops
for good (`failed`), as the code does. What happens between Claim and report is
in `ReliableDispatch`; here a thread ends at any time, with or without a
disposition.

### CacheDeletion

One cache entry. Each durable effect of `_advance_locked` (a rename, a removal, a
sidecar, a record, a receipt at Control) is an action, so that `Stop` can fall
between any two; which one comes next is read from the record and the
directories, as in the code. `Fail` is a check that fails, an I/O error or an
unreachable Control. An Attempt uses the tree (`BeginUse`, `BuildTree`,
`RunOnTree`, `EndUse`); `sandbox` is what its processes may still read, also
after its thread has gone; `uses` the durable use records. Control's side is what
`acquire_guard` and `finish_guard` promise; their transactions are the guard
actions of `ReliableControl`.

## 3. Runs

| Run | Instance | Shows |
| --- | --- | --- |
| `control_attempts` | 2 Executions of one Adapter, 2 attempts, leases of 2 ticks, 2 generations | type correctness, serial execution and fencing (`SerialSlot`, `FencesUnique`), exact Admission counters, cancellation never lost, cache guards exclude use, terminal Executions final, refinement of `ExecutionLifecycle` |
| `control_incidents` | 1 Execution, 1 Relay owner, both dead-letter kinds, 2 attempts, 2 generations | what a Claim relies on (`QueuedClaimable`), one row per generation, pending terminations tracked |
| `dispatch_relay` | 1 Execution, 2 Relays, 1 ticket, rejected messages, 2 copies | no dispatch lost with racing Relays |
| `dispatch_deferral` | 2 Executions, 1 Relay, 1 ticket | no dispatch lost over busy Slots and cache guards |
| `dispatch_retry` | 1 Execution, 1 Relay, 2 tickets, 2 attempts and generations | no dispatch lost over retries, an Attempt belongs to one ticket, refinement of `ReliableControl` |
| `dispatch_incidents` | 1 Execution, 1 Relay, 1 ticket, delivery limit, 2 generations | a dispatch is at least on record with an Incident (`DispatchAccounted`) |
| `dispatch_recover_race` | as above, 1 generation | **violated**: `NoLostDispatch`, see below |
| `dispatch_progress` | 1 Execution, 1 Relay, 1 ticket, 2 attempts | every accepted Execution and every requested cancellation ends |
| `schedule_audit` | 2 schedulers, periods 1 and 2, 5 minutes, catch-up age 2 and count 2, pages of 4, room for 2, all policies | the audit trail is sound and complete (`AuditSound`, `EveryPointAccounted`) under racing schedulers and PUTs; what `skip_while_busy` accepts never runs into other planned work (`SkipNeverOverlaps`) |
| `subscriptions` | reception: 2 processes, a good and a malformed message, 4 generations, 1 crash; delivery: 2 receipts of 2 deliveries, units and batches of 2, 1 repair Revision, both modes | no ACK without custody, stopped means closed, capacity pauses end, quotas equal what is stored, shard order, owed events recoverable, stops complete, backlogs drain |
| `subscription_repair` | the delivery part, business-batch mode | **violated**: `RepairExits`, see below |
| `background` | Schedule: 1 scheduler, 2 minutes, the clock set back once, 1 run-now; consumer: 2 slots; cache: 2 operations, 2 Attempts, 2 trees, 1 stop, 1 retry | one Execution per point, no slot reused or lost, every delivery settled, nothing in use deleted, every guard finished, a due Schedule catches up |

Deadlock is not checked: the system may stop when every Execution is terminal,
when no event is left, when the consumer was told to stop, and where a bound of
a model is reached.

**Bounds.** Two Executions are the least that compete for a Slot and a cap; two
attempts reach both sides of the retry limit; two generations make a message
stale; two tickets or two Relays make them race; two copies make a duplicate.
`MaxGen` is at least `MaxAttempts` so that the bound does not suppress a retry,
except where a recover uses up the generation, which only ends behaviours early.
`MaxCopies` caps how often a Relay publishes while copies are around, never what
is redelivered; in `dispatch_progress` it is safe because a copy that blocks a
publication is itself delivered. Symmetry is used only in runs without liveness.
Five minutes with pages of four points cut a page off, and let two points wait
while PUTs change the policy and a later one is accepted or refused; a catch-up
age of two leaves more points than the catch-up count of two takes; two periods let a PUT
change the cron between a tick's read and its transaction. Four lease
generations allow an acquisition, its fencing, a second acquisition by the other
process and its fencing while the first owner still closes. Two receipts with two
deliveries each are a head and a successor with a replay of either. Two slots
let one ticket outlive its epoch while the other is served by the next; epochs are
not bounded. Two cache operations let a collection meet a replacement, and a tree
of two nodes is left half deleted. The Admission caps of the control runs are not
below their number of Executions; that acceptance stops at a cap is what
`ControlImplementsLifecycle` and the theorem about `AdmissionExact` prove for
every cap. A round of a deletion always gets somewhere: that one file is larger
than a round's whole byte budget is excluded for collections before the guard is
acquired, and left out for the old tree of a replacement.

**Fairness** (`dispatch_progress`). Weak fairness of each Relay's steps
(`outbox_relay_loop` never ends), each ticket's steps (the pool threads and the
I/O loop), lease expiry (time passes), Attempt recovery and retry dispatch
(`attempt_reconciler_loop`), and `FinishGuard` (a Worker ends the cache
operations it has begun, after a restart if need be). Failures may happen any
number of times but not for ever (`<>[][~Failure]`): the code retries without
end and can do no better against a Broker that never recovers. Callers,
operators, renewals and guard acquisitions are not assumed to happen. Dead
letters are left out of this run (`Kinds = {}`): at the delivery limit an
Execution waits for an operator by design, and no fairness could move him.

`background`. The scheduler loop never ends: weak fairness of a tick and of
passing over a row that is no longer due; strong fairness of a tick that finds
its room (`TakesItsRoom`), since a row lock, a rollback or other Adapters may get
in the way again and again but not always; weak fairness of `ExecutionEnds`, which
is `EveryExecutionEnds` of the core. `CursorMoves` gives up while run-nows hold
the queue. For the consumer: `run` opens and closes epochs, the set-up, abort and
handshake deadlines are timers of the I/O loop, the loop runs its callbacks, and
a thread ends because the Claim has a deadline and an Attempt a time limit.
Nothing says that the Broker delivers or that a connection succeeds. For the
cache: a started operation goes on, the agent repeats `recover_round` over every
record and every guard, and Attempts end; a stop may come in between.
`DeletionEnds` gives up at what waits for an administrator by design: a failed
record, a use never proven to be over, a pin.

`subscriptions`. Weak fairness of each owner thread and of the reconcile loop of
each process; of dispatching, ending and observing Executions
(`run_delivery_pass`, `maintenance_tick`). Neither the operator nor the source is
assumed to do anything, and `StopCompletes` gives up after a crash or a failed
close, for which the code waits for the operator.

### Finding: recover against a late Relay

`dispatch_recover_race` shows an Execution that stays `queued` with nobody
responsible. A Relay publishes and has its confirm, but stalls past its Outbox
lease before `mark_outbox_published`. The message reaches its delivery limit and
becomes an Incident. `recover` finds the row pending under an expired lease
(`incident_disposition.py:801`), answers `dispatch_already_pending`, resolves
the Incident and leaves `lease_owner` in place. The Relay wakes up;
`mark_outbox_published` compares the owner but not the expiry
(`outbox.py:448`), and marks the row published. No pending row, no message, no
open Incident. The design (`openspec/changes/issue161-runtime-reliability/
design.md:126`) says that a successful recover takes on the responsibility for
the dispatch again. Clearing `lease_owner` on that path, or checking the lease's
expiry when marking, closes the gap. The resolved Incident can still be disposed
of a second time, which is what `DispatchAccounted` states and
`dispatch_incidents` checks. Theorem `LostOnlyInTheRace` shows that the path has
no other such gap.

### Finding: leaving repair in business-batch mode

`subscription_repair` fails an event with a pending successor, disables, enters
repair, saves a repair Revision, replays the failed event and lets it succeed. In
single mode `observe_terminal` clears the barrier and `exit_repair` lets the
successor drain. In business-batch mode `settle_batch` calls `recompute_blocker`
(`subscription_business_batch.py:106`), which names the earliest receipt that is
not terminal, and that is now the pending successor. `exit_repair`
(`subscription_management.py:780`) refuses while a barrier is set; in repair the
successor is not dispatched (`subscription_delivery.py:520`) and, being pending,
not replayable. It has to be skipped, although nothing is wrong with it. The
specification (`openspec/specs/event-subscription-management/spec.md:68`) says
that draining resumes after the success. Naming only failed receipts in
`recompute_blocker`, or in the check of `exit_repair`, would keep that promise.

### Observations without a run

- A Control process that dies while its subscription is `stopping` leaves it
  there, and one that dies after recording a capacity fault leaves the pause
  `blocked`; both wait for the operator. The properties exclude crashes there.
- A use record of the cache is kept when its cleanup was not proven, and nothing
  removes it later, not even a successful sandbox recovery.
- A pin set after the tree was renamed into trash is accepted; `PinnedKept`
  (part of `CacheKept`) speaks of pins set while the tree was in its place.

## 4. Proofs

Every theorem is about the specification without fairness (`Spec`, `DSpec`,
`SSpec`, `LSpec`, `CSpec`, `WSpec`, `KSpec`) and holds for all constants that
satisfy the named assumptions of its module: finite sets of Executions and of
crons, positive bounds, and that the model values standing for "none" are none of
the real ones. The runs evaluate these assumptions on their instances.

| Module | Theorem | States |
| --- | --- | --- |
| `ReliableControl_proofs` | `TypeCorrect` | `[]TypeOK` |
| | `SerialExecution` | `[]SerialSlot` |
| | `AdmissionCorrect` | `[]AdmissionExact` |
| | `CancellationCorrect` | `[]CancelHonoured` |
| | `FencingCorrect` | `[]FencesUnique` |
| | `TerminalIsFinal` | `TerminalFinal` (an action property) |
| | `GuardsExclude` | `[]GuardExcludesUse` |
| | `GenerationsCorrect` | `[]GenerationRows` |
| | `QueuedIsClaimable` | `[]QueuedClaimable` |
| | `TerminationsTracked` | `[]TerminationTracked` |
| | `ControlImplementsLifecycle` | refinement of `ExecutionLifecycle` |
| `ReliableDispatch_proofs` | `TransportTypes` | `[]DTypeOK` |
| | `PathImplementsControl` | refinement of `ReliableControl` |
| | `TicketsExclusive` | `[]OneTicketPerAttempt` |
| | `DispatchesAccounted` | `[]DispatchAccounted` |
| | `LostOnlyInTheRace` | `[]NoLostDispatch`, in behaviours without a `RecoverRace` |
| `Schedule_proofs` | `ScheduleTypes` | `[]STypeOK` |
| | `AuditIsSound` | `[]AuditSound` |
| | `PointsAccounted` | `[]EveryPointAccounted` |
| | `PointsRunOnce` | `[]OneExecutionPerPoint` |
| | `SkipIsExclusive` | `[]SkipNeverOverlaps` |
| `SubscriptionListener_proofs` | `ListenerTypes` | `[]LTypeOK` |
| | `NoMessageLost` | `[]AckAfterCustody` |
| | `StoppedIsTrue` | `[]StoppedMeansClosed` |
| | `PauseEnds` | `[]CapacityPauseResumes` |
| `SubscriptionDelivery_proofs` | `BarrierGuardsShard` | `[]CInv`, the inductive invariant |
| | `DeliveryTypes` | `[]CTypeOK` |
| | `QuotaIsTheLedger` | `[]LedgerMatches` |
| | `ServedInOrder` | `[]ShardOrder` |
| | `OwedIsKept` | `[]OwedRecoverable` |
| | `SubscriptionTypes` | `[]TypeOK` of `MCSubscriptions` |
| `WorkerConsumer_proofs` | `ConsumerTypes` | `[]WTypeOK` |
| | `SlotKept` | `[]SlotNotReused` |
| `CacheDeletion_proofs` | `CacheTypes` | `[]KTypeOK` |
| | `CacheSafe` | `[]CacheKept` |
| | `BackgroundTypes` | `[]TypeOK` of `MCBackground` |

### ReliableControl

The inductive invariant is `TypeOK /\ SerialSlot /\ CancelHonoured /\
AdmissionExact /\ AttemptsLeft`. None of the parts is inductive alone: that a
report ends the *running* Execution comes from `SerialSlot`; that a Claim does
not revive a cancelled one from `CancelHonoured`; that a charge is released once
needs the release marker of `AdmissionExact`, and that a Claim has an attempt
number left (`AttemptsLeft`: an Execution that waits has used fewer than
`MaxAttempts`) needs what `StatusAfter` decides at the last attempt.

The argument has two halves. Lemma `Shapes` looks at each of the handlers once
and shows that it is, as far as Executions, Attempts, Slots and counters go, one
of seven shapes: quiet, an acceptance, a retry dispatch, a waiting or a running
cancellation, a Claim, or the end of an Attempt. Every further lemma is about
shapes: what each does to a row (`ClaimingEffect`, `EndingExecution`,
`EndingAttempt`, `WaitingEffect`), and then that each keeps one part of the
invariant. The Admission lemmas count with the library's cardinality theorems
for adding and removing an element. The refinement maps a Claim to `Begin`, the
end of an Attempt to `End`, and so on; the capacity guards of `Accept` follow
from `AdmissionExact`.

`TerminalFinal` and `GuardExcludesUse` follow from the same shapes. The Outbox
needs a second layer, `RowsInv`: `GenerationRows`; an Execution that was not
accepted has no generation (`Unaccepted`); a settled row belongs to a cancelled
Execution (`SettledWhenCancelled`), which is what `QueuedClaimable` lacks. Here
the shapes of a step are that the rows are kept, that they are settled, or that
the next generation gets one (`RowShapes`). `TerminationTracked` rests on the
fact that every handler that takes an Execution out of `running` resolves its
pending terminations in the same transaction (`ConvergedEnds`).

### ReliableDispatch

`PathTyped` adds to `DTypeOK` that a Relay which publishes and a ticket which
works name a message and an Attempt. Under it every step of a Relay, a ticket or
the DLQ drain is a transaction of `ReliableControl` or none, which is the
refinement; the theorems of `ReliableControl` therefore hold of the whole path
and are used as they stand. `TicketsExclusive` follows from the numbering of
Attempts: a Claim creates the next number, which no ticket can name yet.

`DispatchAccounted` is not inductive: a Relay marks a row published on the
strength of a confirm it received earlier. `Custody` says in addition that a
Relay which has the confirm and still owns the row has its message in the queue,
with a ticket that has not taken it on, in the DLQ or on record. It is kept
because a copy leaves the queue only into a ticket or the DLQ, a ticket gives a
message away only when Claim has changed the Execution or its row, and the DLQ is
emptied only into Incidents.

`Custody(rec)` takes as a parameter which messages count as being on record.
With `Filed` (the message has an Incident, open or not) it holds without further
conditions, since Incidents are never deleted, and gives `DispatchAccounted`.
With `Opened` (the Incident is open or its termination pending) it gives
`NoLostDispatch`, but then a step must not close the Incident of a dispatch that
stays queued. Lemma `OpenStays` shows that only `recover` on a row that is
already pending does, and it matters only while the Relay that owns the row has
its confirm: `RecoverRace`. `LostOnlyInTheRace` therefore says that the finding
above is the only way in which accepted work is lost, through any number of
Relays, tickets, copies, generations and dead letters. Without the condition the
formula is false, as `dispatch_recover_race` shows.

### Schedule

`SInv` has `STypeOK`, `OneExecutionPerPoint` and `OneExclusive`: of the
Executions accepted under `skip_while_busy` at most one is outstanding. While the clock has not
been set back it has `Trail` too: every recorded range is `Exact`, of points the
clock has reached; two ranges never overlap; no tick is ahead of the clock; and
`CursorExact`: what lies between the cursor the last PUT set and the cursor of
today is recorded, and nothing at or after it is, nor is such a point
outstanding; and `ActiveExact`: outstanding points are in the past and none is
older than the exclusive one. `AuditSound`, `EveryPointAccounted` and
`SkipNeverOverlaps` follow. Without `CursorExact` the next tick could record a
point twice.

Each policy is shown to return a result that is `Sound` and that `Passes`, for
whatever room and validity it finds. `Sound`: accepted points are fresh ones, and
`skip_while_busy` accepts one at most and only when nothing is outstanding.
`Passes`: the records cover exactly an initial part of the points ahead, in
ranges without gaps which their cron rebuilds, the accepted points are among
them, and the cursor goes to the first point after it. The interleaving of ticks, PUTs and clock corrections then does
not matter: freshness and the cursor are read in the transaction that inserts,
and a PUT puts the cursor strictly after the clock, so behind all that is
recorded. The theorems are about `SSpec`, which has more behaviours than the
`PlannedSpec` of `schedule_audit`.

### SubscriptionListener

`LInv` adds four facts to the types and `AckAfterCustody`. `Custodian`: an owner
that may acknowledge has its message in custody. `OwnersDistinct`: every
acquisition has a generation of its own, so that an owner whose lease was taken
over can never be mistaken for its successor. `LeaseAwaits`: the lease row names
the last acquisition until its close has been acknowledged, and remembers its
generation in `closing` once it is fenced. `StoppedIdle`: stopped is shown only
when the row names nobody. `StoppedMeansClosed` follows from the last three.

### SubscriptionDelivery

`CInv` is about the barrier. `BarrierOwed`: when it is set it names the first
unfinished receipt. `HeadBlocked`: a first unfinished receipt that was
dispatched, or failed, is named by it. `Current`: an unfinished receipt has its
payload and the state of its latest delivery; `Finished`: the latest delivery of
a settled one is over, so that an Execution settles nothing twice. `Alone`: in
single mode an Execution has one member and only the head can have failed. With
these, a step is one of six shapes (nothing unfinished changes, new receipts
behind the others, a run from the head is dispatched, the members of an
Execution are settled, the barrier or a drained receipt is replayed, one receipt
is given up), and lemmas `ShardQuiet` to `ShardSkips` show that each keeps the
shard in order. Retention is of the first shape: a batch is reclaimed only when
all its members are past the metadata window, and only settled receipts are.

It is about the quotas as well. `Ledger` says that the quota rows are the
cardinalities of the row sets, which every step changes by the rows it writes;
`PendingLast`, that only the latest delivery of a receipt can be pending, tells
which rows a dispatch or a skip takes away. That the counts of members stay in
range needs `Headed`, an Execution is named by the delivery that heads it and
that is pending no more, so that a dispatch never adds members to an Execution
that has some, and `Sized`, no Execution serves more receipts than a batch may
have. `SubscriptionTypes` then combines this with `LTypeOK`.

### WorkerConsumer and CacheDeletion

`WInv` adds `ThreadsMatch` to the types and `SlotNotReused`: a thread that works
has a ticket in phase `working` that is not done, and only such a ticket becomes
done. Every sweep frees tickets that are done, whatever epoch they belong to.

`KInv` follows an operation through its record. `RecordsGuarded`: a record
belongs to a guard that only its receipt ends, and one guard is held at a time.
`BusyGuarded`: whoever advances an operation holds its guard. `UsesRecorded`:
processes read a tree only within a recorded use, and none begins while a guard
is held. `TrashRecorded`, `RemovedStays` and `TreesBuilt` say for each phase what
is in trash, in staging and in place, also of a failed record (`StepOf`), so that
`Stop` and `Resume` at any point are harmless. `CacheKept` follows.
`BackgroundTypes` combines the types of the three parts of `MCBackground`.

### Only model-checked

- All liveness (`EveryExecutionEnds`, `CancellationEnds`, `CursorMoves`,
  `SlotReturns`, `DeliverySettles`, `DeletionEnds`, `StopCompletes`,
  `BacklogDrains`): fairness and ENABLED are beyond the prover.
- `RepairExits`, which is violated, and that `NoLostDispatch` is violated when the
  race of the finding does happen.

None of the modules declares a RECURSIVE operator, so that each of them can be
proved about.

## 5. Plan

Done: `ExecutionLifecycle`, `ReliableControl`, `ReliableDispatch`, `Schedule`,
`SubscriptionListener`, `SubscriptionDelivery`, `WorkerConsumer`,
`CacheDeletion`, and the theorems above. Left, in this order:

1. `AdmissionReconciler`: the cursor-driven recount against concurrent
   acceptance and release, and idempotency keys at ingress.
2. Managed input (upload sessions, artifact leases and their collection) and the
   lock order of Control's handlers (deadlock freedom).

## 6. Not modelled

Progress reports (log text), replay (an ordinary acceptance of a new Execution;
that of a planned one keeps its point, which `uq_executions_schedule_point`
refuses while the old row exists),
artifact holds, byte accounting, poison payloads, disposition receipts and their
idempotency keys, the check of frozen recovery materials, deletion of an
Adapter, RabbitMQ topology bootstrap, the executor and sandbox, AI assistance,
the console and the CRUD services: data checks, file system or process work, or
row edits under one lock. Of event subscriptions: the Kafka, Kubernetes and HTTP
sources, synchronous batches, byte budgets, the repair of quotas and of legacy
lifecycle faults, and the purge of an Adapter. Of Schedules: cron expressions,
time zones and deletion. Of the Worker's cache: capacity planning, the choice of
victims, manifests and hashes. Most of the repository's lines are its local
preview tools, smoke scripts, sandbox and console, which run outside the
concurrent core. The physical overlap of a fenced process with its
successor is a matter of clocks that the models abstract.
