--------------------------- MODULE ReliableControl ---------------------------
(***************************************************************************)
(* The durable authority of the reliable runtime: the rows Control keeps   *)
(* in PostgreSQL for RabbitMQ Executions and the transactions that change  *)
(* them.  Every transaction takes its row locks in one canonical order     *)
(* (Adapter, Admission counters, Execution, Attempts, Slot, Incidents,     *)
(* Outbox) before it reads what it decides on, so one action is one        *)
(* committed transaction; a rolled-back one changes nothing.               *)
(*                                                                         *)
(* Anyone may call any handler at any time here: which deliveries, Relay   *)
(* steps and Worker reports really happen is the business of the modules   *)
(* that compose this one with the Broker and the Workers.                  *)
(*                                                                         *)
(* Wall-clock time is abstracted.  An Attempt lease is a number of ticks   *)
(* that run out one by one, an Outbox lease is live or expired, and a row  *)
(* scheduled for later (available_at, next_attempt_at) may be taken as     *)
(* soon as it exists.  One Adapter has one Revision and one target Worker. *)
(***************************************************************************)
EXTENDS Integers, FiniteSets

CONSTANTS
    Adapters,      \* Adapters, each a serial queue with one Execution slot
    Execs,         \* Executions that may be accepted
    AdapterOf,     \* the Adapter of every Execution
    Relays,        \* Outbox lease owners: one per Control process
    MaxAttempts,   \* max_attempts of the Retry Policy snapshot
    Retryable,     \* results whose class is in its retryable_error_classes
    LeaseTicks,    \* length of an Attempt lease
    AdapterCap,    \* admission_adapter_max_count
    GlobalCap,     \* admission_global_max_count
    OutboxCap,     \* outbox_max_pending_count
    Kinds,         \* dead-letter reasons the Broker produces
    MaxGen,        \* bound of the model: dispatch generations per Execution
    NoAttempt,     \* an empty Slot pointer, a guard nobody's Attempt holds
    NoOwner        \* an Outbox row nobody leases

Attempts == 1..MaxAttempts

Gens == 1..MaxGen

AttemptIds == Execs \X Attempts

ASSUME ConstantsAssumption ==
    /\ IsFiniteSet(Execs)
    /\ AdapterOf \in [Execs -> Adapters]
    /\ MaxAttempts \in Nat \ {0}
    /\ Retryable \subseteq {"failed", "failed_transient", "worker_lost"}
    /\ LeaseTicks \in Nat \ {0}
    /\ AdapterCap \in Nat
    /\ GlobalCap \in Nat
    /\ OutboxCap \in Nat
    /\ Kinds \subseteq {"delivery_limit", "rejected"}
    /\ MaxGen \in Nat \ {0}
    /\ NoAttempt \notin AttemptIds
    /\ NoOwner \notin Relays

VARIABLES
    execution,     \* executions: status, generation, attempt count, flags
    attempt,       \* execution_attempts, by Execution and attempt number
    slot,          \* adapter_execution_slots, slot 0 of every Adapter
    outbox,        \* execution_outbox, by Execution and generation
    incident,      \* infrastructure incidents, by generation and kind
    admission,     \* outstanding Executions per Adapter
    outstanding,   \* outstanding Executions of the whole runtime
    guard          \* worker_cache_guards, the one of every Adapter

vars == <<execution, attempt, slot, outbox, incident, admission, outstanding, guard>>

-----------------------------------------------------------------------------
(* Row shapes.                                                             *)

Waiting == {"queued", "retry_wait"}
Outstanding == {"queued", "running", "retry_wait"}
Terminal == {"succeeded", "dead_letter", "cancelled"}

ActiveAttempt == {"claimed", "running"}

\* What a Worker may report, a failure being of a business or of a transient
\* class, and what the reconciler writes for an Attempt whose lease ran out.
Reports == {"succeeded", "failed", "failed_transient", "cancelled"}
Results == Reports \cup {"worker_lost"}

\* last_error_code of an Outbox row, as far as the code branches on it.
RowCodes == {"none", "deferred", "settled"}

Execution ==
    [status: {"absent"} \cup Outstanding \cup Terminal,
     gen: 0..MaxGen,
     attempt_count: 0..MaxAttempts,
     cancel_requested: BOOLEAN,
     released: BOOLEAN]

Attempt ==
    [status: {"absent"} \cup ActiveAttempt \cup Results,
     fence: Nat,
     lease: 0..LeaseTicks]

Slot == [active: AttemptIds \cup {NoAttempt}, fence: Nat]

Row ==
    [status: {"absent", "pending", "published"},
     owner: Relays \cup {NoOwner},
     live: BOOLEAN,
     code: RowCodes]

Guard ==
    [phase: {"idle", "gc", "replacement"},
     holder: AttemptIds \cup {NoAttempt}]

IncidentStatus == {"absent", "open", "terminating", "closed"}

AbsentRow == [status |-> "absent", owner |-> NoOwner, live |-> FALSE, code |-> "none"]
PendingRow == [status |-> "pending", owner |-> NoOwner, live |-> FALSE, code |-> "none"]
PublishedRow == [status |-> "published", owner |-> NoOwner, live |-> FALSE, code |-> "none"]
DeferredRow == [PendingRow EXCEPT !.code = "deferred"]
SettledRow == [PublishedRow EXCEPT !.code = "settled"]

IdleGuard == [phase |-> "idle", holder |-> NoAttempt]

TypeOK ==
    /\ execution \in [Execs -> Execution]
    /\ attempt \in [Execs -> [Attempts -> Attempt]]
    /\ slot \in [Adapters -> Slot]
    /\ outbox \in [Execs -> [Gens -> Row]]
    /\ incident \in [Execs -> [Gens \X Kinds -> IncidentStatus]]
    /\ admission \in [Adapters -> Int]
    /\ outstanding \in Int
    /\ guard \in [Adapters -> Guard]

Init ==
    /\ execution = [e \in Execs |->
          [status |-> "absent", gen |-> 0, attempt_count |-> 0,
           cancel_requested |-> FALSE, released |-> FALSE]]
    /\ attempt = [e \in Execs |-> [n \in Attempts |->
          [status |-> "absent", fence |-> 0, lease |-> 0]]]
    /\ slot = [a \in Adapters |-> [active |-> NoAttempt, fence |-> 0]]
    /\ outbox = [e \in Execs |-> [g \in Gens |-> AbsentRow]]
    /\ incident = [e \in Execs |-> [i \in Gens \X Kinds |-> "absent"]]
    /\ admission = [a \in Adapters |-> 0]
    /\ outstanding = 0
    /\ guard = [a \in Adapters |-> IdleGuard]

-----------------------------------------------------------------------------
(* Facts the transactions read.                                            *)

Active(e, n) == attempt[e][n].status \in ActiveAttempt

HasActiveAttempt(e) == \E n \in Attempts : Active(e, n)

PendingRows == {i \in Execs \X Gens : outbox[i[1]][i[2]].status = "pending"}

\* Mutant: the guard is not looked at.
GuardUnchecked(e) == FALSE

Guarded(e) == guard[AdapterOf[e]].phase # "idle"

IncidentOpen(e) ==
    \E i \in Gens \X Kinds : incident[e][i] \in {"open", "terminating"}

\* Mutant: the Slot is not looked at.
SlotUnchecked(a) == FALSE

\* A Slot is busy only while its pointer names an active Attempt; a pointer
\* to a finished one is cleared by the next Claim.
SlotBusy(a) ==
    /\ slot[a].active # NoAttempt
    /\ Active(slot[a].active[1], slot[a].active[2])

-----------------------------------------------------------------------------
(* Pieces that several transactions share.                                 *)

\* require_outbox_capacity: room for one more pending row.  Its age limit only
\* refuses more.
OutboxCapacity == Cardinality(PendingRows) + 1 <= OutboxCap

\* reserve_admission: one charge against the Adapter's and the runtime's cap.
ReserveAdmission(e) ==
    /\ admission[AdapterOf[e]] + 1 <= AdapterCap
    /\ outstanding + 1 <= GlobalCap
    /\ admission' = [admission EXCEPT ![AdapterOf[e]] = @ + 1]
    /\ outstanding' = outstanding + 1

\* Mutant: only the Adapter's counter is given back.
ReleaseAdapterOnly(e) ==
    /\ admission' = [admission EXCEPT ![AdapterOf[e]] = @ - 1]
    /\ UNCHANGED outstanding

\* release_admission_once on an Execution that is terminal: the charge is
\* given back unless the release marker is already set, and the transaction
\* fails when a counter has drifted below the charge.
ReleaseAdmissionOnce(e) ==
    IF execution[e].released
    THEN UNCHANGED <<admission, outstanding>>
    ELSE /\ admission[AdapterOf[e]] >= 1
         /\ outstanding >= 1
         /\ admission' = [admission EXCEPT ![AdapterOf[e]] = @ - 1]
         /\ outstanding' = outstanding - 1

\* Mutant: a terminal path forgets the Incidents that wait for it.
NotConverged(e) == incident[e]

\* converge_terminal_dispositions_locked: a terminate that only requested
\* cancellation resolves its Incident once the Execution is terminal.
Converged(e) ==
    [i \in Gens \X Kinds |->
        IF incident[e][i] = "terminating" THEN "closed" ELSE incident[e][i]]

\* settle_pending_outbox: no pending generation of e may be published.
Settled(e) ==
    [g \in Gens |->
        IF outbox[e][g].status = "pending" THEN SettledRow ELSE outbox[e][g]]

\* create_dispatch_outbox: at most one row per generation.
CreateDispatchOutbox(e, g) ==
    outbox' = [outbox EXCEPT ![e][g] = IF @.status = "absent" THEN PendingRow ELSE @]

\* The Execution e reaches a terminal status s that is not an Attempt's.
Finalize(e, s) ==
    /\ execution' = [execution EXCEPT ![e] = [@ EXCEPT !.status = s, !.released = TRUE]]
    /\ ReleaseAdmissionOnce(e)
    /\ incident' = [incident EXCEPT ![e] = Converged(e)]

-----------------------------------------------------------------------------
(* Ingress.                                                                *)

\* accept_execution: admission, the queued Execution and the Outbox row of
\* generation 1 are one transaction; a full Adapter queue, a full runtime, a
\* full Outbox or a reclaimed cache refuses it as a whole.
AcceptExecution(e) ==
    /\ execution[e].status = "absent"
    /\ ~ Guarded(e)
    /\ ReserveAdmission(e)
    /\ OutboxCapacity
    /\ execution' = [execution EXCEPT ![e] = [@ EXCEPT !.status = "queued", !.gen = 1]]
    /\ CreateDispatchOutbox(e, 1)
    /\ UNCHANGED <<attempt, slot, incident, guard>>

-----------------------------------------------------------------------------
(* Claim.                                                                  *)

\* Mutant: a Claim reuses the Slot's fence.
SameFence(a) == slot[a].fence

\* A fence above every fence the Slot has issued.
NextFence(a) == slot[a].fence + 1

\* The new Attempt, its Slot and the running Execution.
ClaimAttempt(e, n) ==
    LET a == AdapterOf[e]
        f == NextFence(a)
    IN  /\ attempt' = [attempt EXCEPT ![e][n] =
                          [status |-> "claimed", fence |-> f, lease |-> LeaseTicks]]
        /\ execution' = [execution EXCEPT ![e] =
                            [@ EXCEPT !.status = "running", !.attempt_count = n]]
        /\ slot' = [slot EXCEPT ![a] = [active |-> <<e, n>>, fence |-> f]]
        /\ UNCHANGED <<outbox, incident, admission, outstanding, guard>>

\* Mutant: the delivery is acknowledged without taking the dispatch back.
DeferUnsaved(e, g) == outbox' = outbox

\* While the cache guard is held the Outbox row takes the dispatch back before
\* the delivery is acknowledged, whatever its status and its lease were.
DeferDispatch(e, g) == outbox' = [outbox EXCEPT ![e][g] = DeferredRow]

\* claim_dispatch of a queued Execution's current generation; a busy Slot, like
\* every other answer that is not here, rolls back.
ClaimDispatch(e, g) ==
    /\ execution[e].status = "queued"
    /\ execution[e].gen = g
    /\ IF execution[e].cancel_requested
       THEN /\ ~ HasActiveAttempt(e)
            /\ Finalize(e, "cancelled")
            /\ UNCHANGED <<attempt, slot, outbox, guard>>
       ELSE IF Guarded(e)
       THEN /\ DeferDispatch(e, g)
            /\ UNCHANGED <<execution, attempt, slot, incident, admission, outstanding, guard>>
       ELSE /\ ~ SlotBusy(AdapterOf[e])
            /\ IF execution[e].attempt_count + 1 > MaxAttempts
               THEN /\ Finalize(e, "dead_letter")
                    /\ slot' = [slot EXCEPT ![AdapterOf[e]].active = NoAttempt]
                    /\ UNCHANGED <<attempt, outbox, guard>>
               ELSE ClaimAttempt(e, execution[e].attempt_count + 1)

-----------------------------------------------------------------------------
(* Attempt reports.  A caller proves itself with the Attempt's own id, Claim *)
(* Token and fencing token; an active Attempt whose lease has run out        *)
(* refuses every report, a terminal one answers without changing anything.   *)

\* Mutant: a finished Attempt may report again.
MayReportAgain(e, n) == attempt[e][n].status # "absent" /\ attempt[e][n].lease > 0

MayReport(e, n) == Active(e, n) /\ attempt[e][n].lease > 0

\* Mutant: the cancellation that was asked for is not looked at.
StatusIgnoringCancel(e, n, r) ==
    IF r \in {"succeeded", "cancelled"} THEN r
    ELSE IF r \in Retryable /\ n < MaxAttempts
         THEN "retry_wait"
         ELSE "dead_letter"

\* Mutant: one attempt too many.
StatusOneMore(e, n, r) ==
    IF execution[e].cancel_requested \/ r = "cancelled" THEN "cancelled"
    ELSE IF r = "succeeded" THEN "succeeded"
    ELSE IF r \in Retryable /\ n <= MaxAttempts
         THEN "retry_wait"
         ELSE "dead_letter"

\* Mutant: the Attempt's result is written as the Execution's status.
StatusAsReported(e, n, r) ==
    IF execution[e].cancel_requested THEN "cancelled" ELSE r

\* The Execution status that result r of attempt n leads to.
StatusAfter(e, n, r) ==
    IF execution[e].cancel_requested \/ r = "cancelled" THEN "cancelled"
    ELSE IF r = "succeeded" THEN "succeeded"
    ELSE IF r \in Retryable /\ n < MaxAttempts
         THEN "retry_wait"
         ELSE "dead_letter"

\* _release_slot_locked: only the Attempt the Slot names, under its fence.
ReleaseSlot(e, n) ==
    LET a == AdapterOf[e]
    IN  slot' = IF slot[a].active = <<e, n>> /\ slot[a].fence = attempt[e][n].fence
                THEN [slot EXCEPT ![a].active = NoAttempt]
                ELSE slot

\* _apply_terminal_locked on an active Attempt.
ApplyTerminal(e, n, r) ==
    LET s == StatusAfter(e, n, r)
    IN  /\ attempt' = [attempt EXCEPT ![e][n].status = r]
        /\ ReleaseSlot(e, n)
        /\ IF s \in Terminal
           THEN Finalize(e, s)
           ELSE /\ execution' = [execution EXCEPT ![e].status = s]
                /\ UNCHANGED <<incident, admission, outstanding>>
        /\ UNCHANGED <<outbox, guard>>

\* start_attempt: the last gate before the Adapter's side effects.
StartAttempt(e, n) ==
    /\ MayReport(e, n)
    /\ attempt[e][n].status = "claimed"
    /\ IF execution[e].cancel_requested
       THEN ApplyTerminal(e, n, "cancelled")
       ELSE /\ attempt' = [attempt EXCEPT ![e][n].status = "running"]
            /\ UNCHANGED <<execution, slot, outbox, incident, admission, outstanding, guard>>

\* renew_attempt: a requested cancellation is answered instead of renewed.
RenewAttempt(e, n) ==
    /\ MayReport(e, n)
    /\ ~ execution[e].cancel_requested
    /\ attempt' = [attempt EXCEPT ![e][n].lease = LeaseTicks]
    /\ UNCHANGED <<execution, slot, outbox, incident, admission, outstanding, guard>>

\* finish_attempt.
FinishAttempt(e, n, r) ==
    /\ MayReport(e, n)
    /\ r \in Reports
    /\ ApplyTerminal(e, n, r)

\* prepare_failed: the Worker could not set the Attempt up.
PrepareFailed(e, n, r) ==
    /\ MayReport(e, n)
    /\ r \in {"failed", "failed_transient"}
    /\ ApplyTerminal(e, n, r)

\* One tick of the lease of an active Attempt goes by.
AttemptLeaseTick(e, n) ==
    /\ MayReport(e, n)
    /\ attempt' = [attempt EXCEPT ![e][n].lease = @ - 1]
    /\ UNCHANGED <<execution, slot, outbox, incident, admission, outstanding, guard>>

-----------------------------------------------------------------------------
(* The Attempt reconciler.                                                 *)

\* Mutant: an Attempt that never started is not recovered.
RecoverStartedOnly(e, n) ==
    /\ attempt[e][n].status = "running"
    /\ attempt[e][n].lease = 0
    /\ ApplyTerminal(e, n, "worker_lost")

\* Mutant: an Attempt that was asked to cancel is left to its Worker.
RecoverUncancelled(e, n) ==
    /\ Active(e, n)
    /\ attempt[e][n].lease = 0
    /\ ~ execution[e].cancel_requested
    /\ ApplyTerminal(e, n, "worker_lost")

\* _recover_reserved_attempt: an active Attempt whose lease ran out is lost.
RecoverExpiredAttempt(e, n) ==
    /\ Active(e, n)
    /\ attempt[e][n].lease = 0
    /\ ApplyTerminal(e, n, "worker_lost")

\* Mutant: the row of the new generation is not created.
RetryWithoutRow(e) ==
    /\ execution[e].status = "retry_wait"
    /\ execution[e].gen < MaxGen
    /\ execution' = [execution EXCEPT ![e].status = "queued", ![e].gen = @ + 1]
    /\ UNCHANGED <<attempt, slot, outbox, incident, admission, outstanding, guard>>

\* retry_dispatcher_once, one Execution: a new generation with its own row.
RetryDispatch(e) ==
    LET g == execution[e].gen + 1
    IN  /\ execution[e].status = "retry_wait"
        /\ ~ Guarded(e)
        /\ g <= MaxGen
        /\ execution' = [execution EXCEPT ![e] = [@ EXCEPT !.status = "queued", !.gen = g]]
        /\ CreateDispatchOutbox(e, g)
        /\ UNCHANGED <<attempt, slot, incident, admission, outstanding, guard>>

-----------------------------------------------------------------------------
(* Cancellation.                                                           *)

\* request_cancellation and the settlement of a waiting Execution, as
\* cancel_execution_locked applies them; inc is what incident[e] becomes.
CancelLocked(e, inc) ==
    \/ /\ execution[e].status \in Waiting
       /\ ~ HasActiveAttempt(e)
       /\ execution' = [execution EXCEPT ![e] =
                          [@ EXCEPT !.status = "cancelled", !.released = TRUE]]
       /\ ReleaseAdmissionOnce(e)
       /\ outbox' = [outbox EXCEPT ![e] = Settled(e)]
       /\ incident' = [incident EXCEPT ![e] = inc]
    \/ /\ execution[e].status = "running"
       /\ execution' = [execution EXCEPT ![e].cancel_requested = TRUE]
       /\ incident' = [incident EXCEPT ![e] = inc]
       /\ UNCHANGED <<outbox, admission, outstanding>>

\* cancel_execution; terminal Executions are returned unchanged.
CancelExecution(e) ==
    /\ CancelLocked(e, IF execution[e].status = "running" THEN incident[e] ELSE Converged(e))
    /\ UNCHANGED <<attempt, slot, guard>>

-----------------------------------------------------------------------------
(* The Outbox.                                                             *)

\* A row lease_due_outbox may hand out: pending, not leased by anybody alive,
\* and not a cache-deferred one whose guard is still held.
Due(e, g) ==
    LET row == outbox[e][g]
    IN  /\ row.status = "pending"
        /\ row.owner = NoOwner \/ ~ row.live
        /\ ~ (row.code = "deferred" /\ Guarded(e))

\* lease_due_outbox: SKIP LOCKED and the batch limit make the batch any set
\* of due rows.
LeaseDueOutbox(r, batch) ==
    /\ batch # {}
    /\ \A i \in batch : Due(i[1], i[2])
    /\ outbox' = [e \in Execs |-> [g \in Gens |->
          IF <<e, g>> \in batch
          THEN [outbox[e][g] EXCEPT !.owner = r, !.live = TRUE]
          ELSE outbox[e][g]]]
    /\ UNCHANGED <<execution, attempt, slot, incident, admission, outstanding, guard>>

\* The row is still pending and still leased to r.
Owns(r, e, g) == outbox[e][g].status = "pending" /\ outbox[e][g].owner = r

\* release_outbox_lease: a failed publication gives the row back.
ReleaseOutboxLease(r, e, g) ==
    /\ Owns(r, e, g)
    /\ outbox' = [outbox EXCEPT ![e][g] = PendingRow]
    /\ UNCHANGED <<execution, attempt, slot, incident, admission, outstanding, guard>>

\* mark_outbox_published after the Broker confirmed.
MarkOutboxPublished(r, e, g) ==
    /\ Owns(r, e, g)
    /\ outbox' = [outbox EXCEPT ![e][g] = PublishedRow]
    /\ UNCHANGED <<execution, attempt, slot, incident, admission, outstanding, guard>>

\* The Relay finds the Execution cancelled before it publishes.
SettleCancelledOutbox(e) ==
    /\ execution[e].status = "cancelled"
    /\ outbox' = [outbox EXCEPT ![e] = Settled(e)]
    /\ UNCHANGED <<execution, attempt, slot, incident, admission, outstanding, guard>>

OutboxLeaseExpire(e, g) ==
    /\ outbox[e][g].live
    /\ outbox' = [outbox EXCEPT ![e][g].live = FALSE]
    /\ UNCHANGED <<execution, attempt, slot, incident, admission, outstanding, guard>>

-----------------------------------------------------------------------------
(* Infrastructure incidents.                                               *)

\* A message of generation g exists only if its row was created.
Dispatched(e, g) == outbox[e][g].status # "absent"

\* reconcile_message of one well-formed dead letter of generation g.  An open
\* Incident of its kind is found again, otherwise a new one is opened; only a
\* queued current generation that did not hit the delivery limit goes back to
\* the Outbox.
ReconcileDeadLetter(e, g, k) ==
    LET requeue == /\ execution[e].status = "queued"
                   /\ execution[e].gen = g
                   /\ k # "delivery_limit"
                   /\ ~ Guarded(e)
        status == IF execution[e].status \in Terminal THEN "closed"
                  ELSE IF incident[e][<<g, k>>] = "terminating" THEN "terminating"
                  ELSE "open"
    IN  /\ Dispatched(e, g)
        /\ incident' = [incident EXCEPT ![e][<<g, k>>] = status]
        /\ outbox' = IF requeue THEN [outbox EXCEPT ![e][g] = PendingRow] ELSE outbox
        /\ UNCHANGED <<execution, attempt, slot, admission, outstanding, guard>>

\* Every disposition is of one recorded Incident i = <<generation, kind>>.
Recorded(e, i) == incident[e][i] # "absent"

CloseIncident(e, i) == incident' = [incident EXCEPT ![e][i] = "closed"]

\* Disposing an Incident whose Execution is terminal, or terminating one of
\* an older generation, only closes it.
CloseSettledIncident(e, i) ==
    /\ Recorded(e, i)
    /\ \/ execution[e].status \in Terminal
       \/ execution[e].status \in Outstanding /\ i[1] < execution[e].gen
    /\ CloseIncident(e, i)
    /\ UNCHANGED <<execution, attempt, slot, outbox, admission, outstanding, guard>>

\* terminate of the current generation: a waiting Execution is cancelled and
\* the Incident closed; a running one is asked to cancel and the Incident
\* waits for it.
TerminateIncident(e, i) ==
    /\ Recorded(e, i)
    /\ i[1] = execution[e].gen
    /\ CancelLocked(e, IF execution[e].status = "running"
                       THEN [incident[e] EXCEPT ![i] =
                                IF @ = "closed" THEN "closed" ELSE "terminating"]
                       ELSE [Converged(e) EXCEPT ![i] = "closed"])
    /\ UNCHANGED <<attempt, slot, guard>>

\* recover of the current generation of a queued Execution.
MayRecover(e, i) ==
    /\ Recorded(e, i)
    /\ ~ Guarded(e)
    /\ execution[e].status = "queued"
    /\ ~ execution[e].cancel_requested
    /\ ~ HasActiveAttempt(e)
    /\ i[1] = execution[e].gen
    /\ outbox[e][i[1]].code # "settled"

\* The row is pending and no live lease is publishing it: nothing to redo.
RecoverPendingDispatch(e, i) ==
    /\ MayRecover(e, i)
    /\ outbox[e][i[1]].status = "pending"
    /\ outbox[e][i[1]].owner = NoOwner \/ ~ outbox[e][i[1]].live
    /\ CloseIncident(e, i)
    /\ UNCHANGED <<execution, attempt, slot, outbox, admission, outstanding, guard>>

\* The row was published: a new generation replaces the dispatch, so that the
\* old message is stale wherever it is.
RecoverPublishedDispatch(e, i) ==
    LET g == execution[e].gen + 1
    IN  /\ MayRecover(e, i)
        /\ outbox[e][i[1]].status = "published"
        /\ g <= MaxGen
        /\ OutboxCapacity
        /\ execution' = [execution EXCEPT ![e].gen = g]
        /\ outbox' = [outbox EXCEPT ![e][g] = PendingRow]
        /\ CloseIncident(e, i)
        /\ UNCHANGED <<attempt, slot, admission, outstanding, guard>>

-----------------------------------------------------------------------------
(* Cache guards.  Workspace cleanup receipts and artifact holds, which also  *)
(* refuse a guard, are left out: the model grants guards more readily.       *)

\* reference_facts: the Execution e still needs the cached Revision.
Referencing(e) ==
    \/ execution[e].status \in Outstanding
    \/ HasActiveAttempt(e)
    \/ IncidentOpen(e)

\* _replacement_reference_facts: one that is only waiting may use the replaced
\* cache later.
ReferencingNow(e) ==
    \/ execution[e].status = "running"
    \/ HasActiveAttempt(e)
    \/ IncidentOpen(e)

\* acquire_guard for garbage collection: no reference to the Revision is left.
AcquireGcGuard(a) ==
    /\ guard[a].phase = "idle"
    /\ ~ \E e \in Execs : AdapterOf[e] = a /\ Referencing(e)
    /\ guard' = [guard EXCEPT ![a] = [phase |-> "gc", holder |-> NoAttempt]]
    /\ UNCHANGED <<execution, attempt, slot, outbox, incident, admission, outstanding>>

\* acquire_guard for a replacement by the running Attempt <<e, n>>, while the
\* other Executions of the Revision are only waiting.
AcquireReplacementGuard(e, n) ==
    LET a == AdapterOf[e]
    IN  /\ guard[a].phase = "idle"
        /\ attempt[e][n].status = "running"
        /\ attempt[e][n].lease > 0
        /\ execution[e].status = "running"
        /\ ~ execution[e].cancel_requested
        /\ slot[a].active = <<e, n>>
        /\ slot[a].fence = attempt[e][n].fence
        /\ ~ IncidentOpen(e)
        /\ ~ \E d \in Execs \ {e} : AdapterOf[d] = a /\ ReferencingNow(d)
        /\ guard' = [guard EXCEPT ![a] = [phase |-> "replacement", holder |-> <<e, n>>]]
        /\ UNCHANGED <<execution, attempt, slot, outbox, incident, admission, outstanding>>

\* finish_guard: the Worker reports the outcome, after a restart if need be.
FinishGuard(a) ==
    /\ guard[a].phase # "idle"
    /\ guard' = [guard EXCEPT ![a] = IdleGuard]
    /\ UNCHANGED <<execution, attempt, slot, outbox, incident, admission, outstanding>>

-----------------------------------------------------------------------------
Next ==
    \/ \E e \in Execs :
         \/ AcceptExecution(e)
         \/ RetryDispatch(e)
         \/ CancelExecution(e)
         \/ SettleCancelledOutbox(e)
    \/ \E e \in Execs, g \in Gens :
         \/ ClaimDispatch(e, g)
         \/ OutboxLeaseExpire(e, g)
         \/ \E r \in Relays : ReleaseOutboxLease(r, e, g) \/ MarkOutboxPublished(r, e, g)
         \/ \E k \in Kinds : ReconcileDeadLetter(e, g, k)
    \/ \E e \in Execs, n \in Attempts :
         \/ StartAttempt(e, n)
         \/ RenewAttempt(e, n)
         \/ AttemptLeaseTick(e, n)
         \/ RecoverExpiredAttempt(e, n)
         \/ AcquireReplacementGuard(e, n)
         \/ \E r \in Results : FinishAttempt(e, n, r) \/ PrepareFailed(e, n, r)
    \/ \E e \in Execs, i \in Gens \X Kinds :
         \/ CloseSettledIncident(e, i)
         \/ TerminateIncident(e, i)
         \/ RecoverPendingDispatch(e, i)
         \/ RecoverPublishedDispatch(e, i)
    \/ \E r \in Relays, batch \in SUBSET (Execs \X Gens) : LeaseDueOutbox(r, batch)
    \/ \E a \in Adapters : AcquireGcGuard(a) \/ FinishGuard(a)

Spec == Init /\ [][Next]_vars

-----------------------------------------------------------------------------
(* Correctness.                                                            *)

\* Serial execution and fencing (claim_dispatch, _apply_terminal_locked,
\* _release_slot_locked).  An Adapter's Slot names an Attempt exactly while
\* that Attempt is active, under the fence the Slot issued last; the Attempt is
\* the latest one of its Execution and the Execution is running.  So at most
\* one Attempt per Adapter is ever active, and every other fence is older.
SerialSlot ==
    /\ \A e \in Execs, n \in Attempts :
          Active(e, n) => /\ slot[AdapterOf[e]].active = <<e, n>>
                          /\ slot[AdapterOf[e]].fence = attempt[e][n].fence
                          /\ execution[e].status = "running"
                          /\ execution[e].attempt_count = n
    /\ \A a \in Adapters : slot[a].active # NoAttempt =>
          /\ Active(slot[a].active[1], slot[a].active[2])
          /\ AdapterOf[slot[a].active[1]] = a
    /\ \A e \in Execs : execution[e].status = "running" => HasActiveAttempt(e)

\* Fencing tokens of one Adapter are never reused (claim_dispatch): two
\* Attempts of an Adapter have different fences and the Slot's is the newest.
FencesUnique ==
    \A e, d \in Execs : \A n, m \in Attempts :
       /\ AdapterOf[e] = AdapterOf[d]
       /\ attempt[e][n].status # "absent"
       /\ attempt[d][m].status # "absent"
       => /\ attempt[e][n].fence <= slot[AdapterOf[e]].fence
          /\ attempt[e][n].fence = attempt[d][m].fence => e = d /\ n = m

OutstandingOf(a) == {e \in Execs : AdapterOf[e] = a /\ execution[e].status \in Outstanding}

\* Admission (reserve_admission, release_admission_once): through every
\* terminal path the counters equal the Executions that are not terminal, the
\* release marker is set exactly on terminal ones and no cap is exceeded.
AdmissionExact ==
    /\ \A a \in Adapters :
          /\ admission[a] = Cardinality(OutstandingOf(a))
          /\ admission[a] <= AdapterCap
    /\ outstanding = Cardinality({e \in Execs : execution[e].status \in Outstanding})
    /\ outstanding <= GlobalCap
    /\ \A e \in Execs : execution[e].released <=> execution[e].status \in Terminal

\* A requested cancellation is never lost (request_cancellation,
\* _apply_terminal_locked): the Execution stays running or ends cancelled; it
\* does not retry, succeed or go back to the queue.
CancelHonoured ==
    \A e \in Execs :
       execution[e].cancel_requested => execution[e].status \in {"running", "cancelled"}

\* What claim_dispatch relies on when it takes a queued Execution: an attempt
\* number is left, no older Attempt is active, and the Outbox row of the
\* current generation exists and was not settled by a cancellation.
QueuedClaimable ==
    \A e \in Execs : execution[e].status \in Waiting =>
       /\ execution[e].attempt_count < MaxAttempts
       /\ ~ HasActiveAttempt(e)
       /\ execution[e].gen \in Gens
       /\ outbox[e][execution[e].gen].status # "absent"
       /\ outbox[e][execution[e].gen].code # "settled"

\* Generations (create_dispatch_outbox, retry_dispatcher_once,
\* _install_published_dispatch): exactly the generations up to the current
\* one have a row, so no message of a future generation can exist.
GenerationRows ==
    \A e \in Execs, g \in Gens :
       outbox[e][g].status # "absent" <=> g <= execution[e].gen

\* Cache guards (acquire_guard, ensure_reference_allowed): while garbage
\* collection holds the guard nothing references the Revision, and while a
\* replacement holds it no other Attempt of the Adapter is active.
GuardExcludesUse ==
    \A e \in Execs, n \in Attempts :
       LET g == guard[AdapterOf[e]]
       IN  /\ g.phase = "gc" => execution[e].status \notin Outstanding
           /\ g.phase = "replacement" /\ Active(e, n) => g.holder = <<e, n>>

\* A terminal Execution is final: no later report, recovery, cancellation,
\* redelivery or disposition changes its row or claims another Attempt.
TerminalFinal ==
    [][\A e \in Execs : execution[e].status \in Terminal =>
          execution'[e] = execution[e] /\ attempt'[e] = attempt[e]]_vars

\* A terminate that waits for a running Execution (_dispose_incident_transaction)
\* is tracked to its end: its Incident is pending exactly while the Execution is
\* still running under a requested cancellation, and every terminal path
\* resolves it (converge_terminal_dispositions_locked).
TerminationTracked ==
    \A e \in Execs, i \in Gens \X Kinds : incident[e][i] = "terminating" =>
       execution[e].status = "running" /\ execution[e].cancel_requested

\* The lifecycle this machinery implements, under the mapping that forgets
\* everything but what a caller of the Execution API can see.
Lifecycle == INSTANCE ExecutionLifecycle WITH
    status <- [e \in Execs |-> execution[e].status],
    attempts <- [e \in Execs |-> execution[e].attempt_count],
    cancelling <- [e \in Execs |-> execution[e].cancel_requested]

\* The transactions implement the abstract lifecycle: serial per Adapter, at
\* most MaxAttempts attempts, one ending, capacity kept, cancellation final.
ImplementsLifecycle == Lifecycle!Spec
=============================================================================
