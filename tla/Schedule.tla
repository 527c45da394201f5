------------------------------- MODULE Schedule -------------------------------
(***************************************************************************)
(* One Adapter's Schedule: the cursor next_run_at, the three misfire       *)
(* policies and the audit trail of planned points.  Every Control process  *)
(* runs a scheduler loop; a tick reads the database clock and the due rows *)
(* once, and processes a row later, in a transaction of its own that locks *)
(* Adapter and Schedule and looks at the row again.                        *)
(*                                                                         *)
(* Time is a number of minutes.  A cron is its period: c plans the         *)
(* multiples of c.  Whether the row is structurally able to run, whether   *)
(* its input is valid and how much room the Admission counters and the     *)
(* Outbox leave may change between any two ticks, so every tick may find   *)
(* any of them.                                                            *)
(***************************************************************************)
EXTENDS Integers, FiniteSets, FiniteSetsExt, Sequences, SequencesExt

CONSTANTS
    Schedulers,    \* scheduler loops: one per Control process
    Crons,         \* periods a Schedule may have
    Policies,      \* misfire policies a Schedule may have
    MaxAge,        \* max_catchup_age_seconds, in minutes
    MaxCatchup,    \* max_catchup_count
    PageSize,      \* SCHEDULE_AUDIT_PAGE_SIZE
    QueueCap,      \* admission_adapter_max_count
    MaxTime,       \* bound of the model: the clock
    MaxBack,       \* bound of the model: how often the clock is set back
    MaxManual,     \* bound of the model: outstanding run-now Executions
    NoPoint        \* next_run_at of a disabled Schedule, an idle scheduler

ASSUME ConstantsAssumption ==
    /\ Crons \subseteq Nat \ {0}
    /\ IsFiniteSet(Crons) /\ Crons # {}
    /\ Policies \subseteq {"coalesce_latest", "skip_while_busy", "queue_every_occurrence"}
    /\ MaxAge \in Nat
    /\ MaxCatchup \in Nat \ {0}
    /\ PageSize \in Nat
    /\ PageSize >= MaxAge + 2
    /\ QueueCap \in Nat
    /\ MaxTime \in Nat
    /\ MaxBack \in Nat
    /\ MaxManual \in Nat
    /\ NoPoint \notin Nat

VARIABLES
    clock,         \* the database's clock_timestamp()
    back,          \* how often the clock was set back
    schedule,      \* the Schedule row
    outcomes,      \* schedule_dispatch_outcomes
    created,       \* Executions created per planned point
    active,        \* points whose Execution is outstanding
    manual,        \* outstanding run-now Executions of the Adapter
    running,       \* one of the outstanding Executions is running
    exclusive,     \* points in active accepted under skip_while_busy
    tick,          \* per scheduler: the now of its tick, while it has the row
    rebased        \* history: the cursor the last PUT set

scheduleVars ==
    <<clock, back, schedule, outcomes, created, active, manual, running, exclusive, tick, rebased>>

\* The Adapter's Executions.
executionVars == <<active, manual, running, exclusive>>

\* The clock's last planned points lie beyond it, at most a period away.
Points == 0..(MaxTime + Max(Crons))

Outcome ==
    [first: Points, last: Points, count: Nat, cron: Crons,
     outcome: {"enqueued", "coalesced", "skipped", "expired"},
     reason: {"accepted", "duplicate", "coalesce_latest", "catchup_age", "catchup_limit",
              "input_invalid", "adapter_busy", "admission_full", "runtime_worker_invalid"}]

STypeOK ==
    /\ clock \in 0..MaxTime
    /\ back \in 0..MaxBack
    /\ schedule \in [enabled: BOOLEAN, cron: Crons, policy: Policies,
                     next: Points \cup {NoPoint}]
    /\ outcomes \in Seq(Outcome)
    /\ created \in [Points -> Nat]
    /\ active \subseteq Points
    /\ manual \in 0..MaxManual
    /\ running \in BOOLEAN
    /\ exclusive \subseteq Points
    /\ tick \in [Schedulers -> (0..MaxTime) \cup {NoPoint}]
    /\ rebased \in Points \cup {NoPoint}

SInit ==
    /\ clock = 0
    /\ back = 0
    /\ schedule \in [enabled: {FALSE}, cron: Crons, policy: Policies, next: {NoPoint}]
    /\ outcomes = <<>>
    /\ created = [p \in Points |-> 0]
    /\ active = {}
    /\ manual = 0
    /\ running = FALSE
    /\ exclusive = {}
    /\ tick = [s \in Schedulers |-> NoPoint]
    /\ rebased = NoPoint

-----------------------------------------------------------------------------
(* Planned points.                                                         *)

\* Mutant: a point that is exactly now counts as the next one.
NextRunFrom(c, t) == IF t % c = 0 THEN t ELSE (t \div c + 1) * c

\* Mutant: off by one period.
NextButOne(c, t) == (t \div c + 2) * c

\* next_run_after: the first planned point strictly after t.
NextRunAfter(c, t) == (t \div c + 1) * c

\* Every point the cursor has to pass to get beyond t; the cursor itself is
\* always one of them.
Window(c, since, t) == {p \in since..t : p = since \/ p % c = 0}

\* Mutant: a page too short for the catch-up age.
ShortPage(c, since, t) ==
    LET w == Window(c, since, t)
    IN  {p \in w : Cardinality({q \in w : q < p}) < MaxAge}

\* _due_points: one page of the window, the oldest first.
DuePoints(c, since, t) ==
    LET w == Window(c, since, t)
    IN  {p \in w : Cardinality({q \in w : q < p}) < PageSize}

\* Points of a page of due points that are too old to be caught up.
TooOld(due, now) == {p \in due : p < now - MaxAge}

-----------------------------------------------------------------------------
(* Outcome records.                                                        *)

\* Mutant: a range is recorded without its last point.
RecordAllButLast(points, o, r) ==
    IF points = {} THEN {}
    ELSE {[first |-> Min(points), last |-> Max(points), count |-> Cardinality(points) - 1,
           cron |-> schedule.cron, outcome |-> o, reason |-> r]}

\* _record_outcome: one range with its count and the cron it was planned by.
Record(points, o, r) ==
    IF points = {} THEN {}
    ELSE {[first |-> Min(points), last |-> Max(points), count |-> Cardinality(points),
           cron |-> schedule.cron, outcome |-> o, reason |-> r]}

\* One record per point.
RecordEach(points, o, r) == UNION {Record({p}, o, r) : p \in points}

\* rebuild_schedule_outcome_points: the points of a range, from its snapshot.
Rebuild(r) == Window(r.cron, r.first, r.last)

-----------------------------------------------------------------------------
(* The policies.  Each answers with the outcome records, the points that   *)
(* become Executions and the new cursor.  room is how many Executions the  *)
(* Admission counters and the Outbox still take; invalid input is found    *)
(* before a full queue, and a full queue before a point that exists.       *)

\* Mutant: the database has no unique index on the planned point.
AlwaysFresh(p) == TRUE

\* uq_executions_schedule_point.
Fresh(p) == created[p] = 0

\* Mutant: only a running Execution makes the Adapter busy, as it does for
\* the runtime lock.
BusyWhileRunning == running

\* _rabbit_outstanding: queued, running or in retry_wait.
Busy == active # {} \/ manual > 0

Expired(old) == Record(old, "expired", "catchup_age")

\* _process_coalesce_latest: the newest point stands for all; a full queue
\* leaves the whole row due.
CoalesceLatest(now, old, eligible, valid, room) ==
    LET latest == Max(eligible)
        earlier == Record(eligible \ {latest}, "coalesced", "coalesce_latest")
        next == NextRunAfter(schedule.cron, now)
    IN  IF ~ valid
        THEN [records |-> Expired(old) \cup earlier
                            \cup Record({latest}, "skipped", "input_invalid"),
              accepted |-> {}, next |-> next]
        ELSE IF room = 0
        THEN [records |-> {}, accepted |-> {}, next |-> schedule.next]
        ELSE [records |-> Expired(old) \cup earlier
                            \cup Record({latest}, "enqueued",
                                        IF Fresh(latest) THEN "accepted" ELSE "duplicate"),
              accepted |-> {p \in {latest} : Fresh(p)}, next |-> next]

\* _process_skip_while_busy: the oldest point that is new is queued, what
\* follows it meets a busy Adapter.
SkipWhileBusy(now, old, eligible, valid, room) ==
    LET new == {p \in eligible : Fresh(p)}
        chosen == IF new = {} THEN {} ELSE {Min(new)}
        known == {p \in eligible : \A q \in new : p < q}
        tail == eligible \ (known \cup chosen)
        records ==
            IF Busy THEN Record(eligible, "skipped", "adapter_busy")
            ELSE IF ~ valid THEN Record(eligible, "skipped", "input_invalid")
            ELSE IF room = 0 THEN Record(eligible, "skipped", "admission_full")
            ELSE Record(known, "skipped", "duplicate")
                    \cup Record(chosen, "enqueued", "accepted")
                    \cup Record(tail, "skipped", "adapter_busy")
    IN  [records |-> Expired(old) \cup records,
         accepted |-> IF ~ Busy /\ valid /\ room > 0 THEN chosen ELSE {},
         next |-> NextRunAfter(schedule.cron, now)]

\* _process_queue_every_occurrence: the last MaxCatchup points in order, up
\* to the first one that finds no room; the cursor stays on that one.
QueueEveryOccurrence(now, old, eligible, valid, room) ==
    LET queue == {p \in eligible :
                    Cardinality({q \in eligible : q > p}) < MaxCatchup}
        ahead(p) == Cardinality({q \in queue : q < p /\ Fresh(q)})
        unaccepted == {p \in queue : valid /\ ahead(p) >= room}
        done == queue \ unaccepted
        accepted == {p \in done : valid /\ Fresh(p)}
    IN  [records |-> Expired(old)
                       \cup Record(eligible \ queue, "expired", "catchup_limit")
                       \cup RecordEach(accepted, "enqueued", "accepted")
                       \cup RecordEach(done \ accepted, "skipped",
                                       IF valid THEN "duplicate" ELSE "input_invalid"),
         accepted |-> accepted,
         next |-> IF unaccepted = {} THEN NextRunAfter(schedule.cron, now)
                  ELSE Min(unaccepted)]

\* _process_structural_due_schedule: a row that cannot be dispatched at all
\* passes a page of points.
Structural(now, due) ==
    LET rest == Window(schedule.cron, schedule.next, now) \ due
    IN  [records |-> Record(due, "skipped", "runtime_worker_invalid"),
         accepted |-> {},
         next |-> IF rest = {} THEN NextRunAfter(schedule.cron, now) ELSE Min(rest)]

\* _process_rabbitmq_due_schedule up to the choice of the policy: a page that
\* is too old, or the old part of a page that was cut off, is passed first.
\* A page that was cut off with nothing old in it is held.
RabbitmqDue(now, due, valid, room) ==
    LET old == TooOld(due, now)
        eligible == due \ old
        rest == Window(schedule.cron, schedule.next, now) \ due
    IN  IF eligible = {}
        THEN [records |-> Expired(old), accepted |-> {},
              next |-> IF rest = {} THEN NextRunAfter(schedule.cron, now) ELSE Min(rest)]
        ELSE IF rest # {}
        THEN [records |-> Expired(old), accepted |-> {}, next |-> Min(eligible)]
        ELSE CASE schedule.policy = "coalesce_latest" ->
                    CoalesceLatest(now, old, eligible, valid, room)
               [] schedule.policy = "skip_while_busy" ->
                    SkipWhileBusy(now, old, eligible, valid, room)
               [] OTHER ->
                    QueueEveryOccurrence(now, old, eligible, valid, room)

-----------------------------------------------------------------------------
(* The scheduler loops.                                                    *)

Due(now) == schedule.enabled /\ schedule.next # NoPoint /\ schedule.next <= now

\* scheduler_tick: the clock and the due rows are read.
SchedulerTick(s) ==
    /\ tick[s] = NoPoint
    /\ Due(clock)
    /\ tick' = [tick EXCEPT ![s] = clock]
    /\ UNCHANGED <<clock, back, schedule, outcomes, created, rebased, executionVars>>

\* What a tick's result does to the rows, as one transaction; in which order
\* its outcome rows are inserted is not modelled.  An Execution keeps the
\* policy it was accepted under as its schedule_policy_snapshot.
Commit(s, result) ==
    /\ schedule' = [schedule EXCEPT !.next = result.next]
    /\ outcomes' = outcomes \o SetToSeq(result.records)
    /\ created' = [p \in Points |-> IF p \in result.accepted THEN created[p] + 1 ELSE created[p]]
    /\ active' = active \cup result.accepted
    /\ exclusive' = IF schedule.policy = "skip_while_busy"
                    THEN exclusive \cup result.accepted ELSE exclusive
    /\ tick' = [tick EXCEPT ![s] = NoPoint]
    /\ UNCHANGED <<clock, back, manual, running, rebased>>

\* _process_due_row of a row that is still due under its locks.
ProcessDueRow(s, runnable, valid, room) ==
    /\ tick[s] # NoPoint
    /\ Due(tick[s])
    /\ room <= Max({0, QueueCap - Cardinality(active) - manual})
    /\ LET due == DuePoints(schedule.cron, schedule.next, tick[s])
       IN  Commit(s, IF runnable THEN RabbitmqDue(tick[s], due, valid, room)
                     ELSE Structural(tick[s], due))

\* The row is no longer due for this tick.
SkipRow(s) ==
    /\ tick[s] # NoPoint
    /\ ~ Due(tick[s])
    /\ tick' = [tick EXCEPT ![s] = NoPoint]
    /\ UNCHANGED <<clock, back, schedule, outcomes, created, rebased, executionVars>>

\* The row is locked by somebody else, the transaction fails and is rolled
\* back, or the Control process dies and starts again.
TickFails(s) ==
    /\ tick[s] # NoPoint
    /\ tick' = [tick EXCEPT ![s] = NoPoint]
    /\ UNCHANGED <<clock, back, schedule, outcomes, created, rebased, executionVars>>

-----------------------------------------------------------------------------
(* The Schedule API and the rest of the Adapter.                           *)

\* adapter_runtime_locked: ACTIVE_EXECUTION_STATUSES is running alone, so an
\* Execution that waits in the queue or for its retry locks nothing.
RuntimeLocked == running \/ schedule.enabled

\* upsert_schedule: the cursor is always set to the next future point.  A
\* locked Adapter only takes a PUT that does nothing but disable.
UpsertSchedule(c, policy, enabled) ==
    /\ \/ ~ RuntimeLocked
       \/ schedule.enabled /\ ~ enabled /\ c = schedule.cron /\ policy = schedule.policy
    /\ schedule' = [enabled |-> enabled, cron |-> c, policy |-> policy,
                    next |-> IF enabled THEN NextRunAfter(c, clock) ELSE NoPoint]
    /\ rebased' = schedule'.next
    /\ UNCHANGED <<clock, back, outcomes, created, tick, executionVars>>

\* create_execution: a run-now, which takes the same locks.
RunNow ==
    /\ manual < MaxManual
    /\ Cardinality(active) + manual < QueueCap
    /\ manual' = manual + 1
    /\ UNCHANGED <<clock, back, schedule, outcomes, created, active, running, exclusive, tick,
                   rebased>>

\* claim_dispatch: one of the waiting Executions takes the Adapter's Slot.
ExecutionStarts ==
    /\ ~ running /\ Busy
    /\ running' = TRUE
    /\ UNCHANGED <<clock, back, schedule, outcomes, created, active, manual, exclusive, tick,
                   rebased>>

\* The Attempt fails or is lost and its Execution waits for its retry.
ExecutionRetries ==
    /\ running
    /\ running' = FALSE
    /\ UNCHANGED <<clock, back, schedule, outcomes, created, active, manual, exclusive, tick,
                   rebased>>

\* An Execution of the Adapter reaches a terminal status: the running one, or
\* beside it a waiting one that is cancelled or given up.
ExecutionEnds ==
    /\ \/ /\ \E p \in active : active' = active \ {p}
          /\ UNCHANGED manual
       \/ /\ manual > 0
          /\ manual' = manual - 1
          /\ UNCHANGED active
    /\ exclusive' = exclusive \cap active'
    /\ running' \in {FALSE, running}
    /\ running' => active' # {} \/ manual' > 0
    /\ UNCHANGED <<clock, back, schedule, outcomes, created, tick, rebased>>

TimePasses ==
    /\ clock < MaxTime
    /\ clock' = clock + 1
    /\ UNCHANGED <<back, schedule, outcomes, created, tick, rebased, executionVars>>

\* The database host's clock is corrected.
ClockSetBack ==
    /\ back < MaxBack
    /\ \E t \in 0..(clock - 1) : clock' = t
    /\ back' = back + 1
    /\ UNCHANGED <<schedule, outcomes, created, tick, rebased, executionVars>>

ProcessRow(s) ==
    \E runnable, valid \in BOOLEAN, room \in 0..QueueCap :
        ProcessDueRow(s, runnable, valid, room)

\* A PUT at the end of the model's time would plan nothing that comes due.
Upsert ==
    /\ clock < MaxTime
    /\ \E c \in Crons, policy \in Policies, enabled \in BOOLEAN :
          UpsertSchedule(c, policy, enabled)

\* What a Schedule goes through while nobody runs the Adapter by hand and the
\* clock only advances: the case the audit trail is defined for.
PlannedNext ==
    \/ \E s \in Schedulers :
          SchedulerTick(s) \/ ProcessRow(s) \/ SkipRow(s) \/ TickFails(s)
    \/ Upsert
    \/ ExecutionStarts
    \/ ExecutionRetries
    \/ ExecutionEnds
    \/ TimePasses

PlannedSpec == SInit /\ [][PlannedNext]_scheduleVars

SNext == PlannedNext \/ RunNow \/ ClockSetBack

SSpec == SInit /\ [][SNext]_scheduleVars

\* The loops never end, an Execution is never given up, and once the clock
\* has run out of the model's bound no tick fails for ever and no other
\* Adapter takes all the room.
TakesItsRoom(s) ==
    \E runnable, valid \in BOOLEAN :
        ProcessDueRow(s, runnable, valid, Max({0, QueueCap - Cardinality(active) - manual}))

SFairness ==
    /\ \A s \in Schedulers :
          /\ WF_scheduleVars(SchedulerTick(s))
          /\ WF_scheduleVars(SkipRow(s))
          /\ SF_scheduleVars(TakesItsRoom(s))
    /\ WF_scheduleVars(ExecutionEnds)

-----------------------------------------------------------------------------
(* Properties.                                                             *)

\* validate_schedule_outcomes never finds anything: every recorded range is
\* rebuilt from its cron snapshot to exactly its count, and no two ranges
\* overlap, whatever policies, pages, PUTs and racing schedulers made them.
AuditSound ==
    back = 0 =>
    /\ \A i \in DOMAIN outcomes : Cardinality(Rebuild(outcomes[i])) = outcomes[i].count
    /\ \A i, j \in DOMAIN outcomes :
          i # j => Rebuild(outcomes[i]) \cap Rebuild(outcomes[j]) = {}

\* No point is lost: every point planned since the last PUT and behind the
\* cursor is in the audit trail (design of the three misfire policies), and no
\* point at or beyond the cursor is.
EveryPointAccounted ==
    (schedule.enabled /\ back = 0) =>
        LET audited == UNION {Rebuild(outcomes[i]) : i \in DOMAIN outcomes}
        IN  /\ Window(schedule.cron, rebased, schedule.next - 1) \subseteq audited
            /\ \A p \in audited : p < schedule.next

\* A planned point never becomes two Executions, even when the clock is set
\* back under running schedulers and PUTs.
OneExecutionPerPoint == \A p \in Points : created[p] <= 1

\* What skip_while_busy accepts never runs into other planned work: two of its
\* Executions are never outstanding together, and the one there is has no older
\* point outstanding beside it, although PUTs switch to the policy and away from
\* it while Executions still wait, and racing schedulers decide from ticks they
\* read before.  Executions that an earlier policy queued stay outstanding after
\* the switch, and a later policy may queue younger ones.
SkipNeverOverlaps ==
    /\ Cardinality(exclusive) <= 1
    /\ back = 0 => \A p \in exclusive, q \in active : p <= q

\* A due Schedule does not stay behind: it catches up with the clock or is
\* disabled, unless run-now Executions keep taking the queue.  In particular a
\* page is never held for ever, and a full queue holds a point only for a while.
CursorMoves == Due(clock) ~> (~ Due(clock) \/ manual > 0)

=============================================================================
