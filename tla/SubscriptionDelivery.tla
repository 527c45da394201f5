------------------------ MODULE SubscriptionDelivery ------------------------
(***************************************************************************)
(* Custody of received events, from T1 to retention: one subscription and  *)
(* one serial shard (subscription_delivery.py, subscription_t1_unit.py,    *)
(* subscription_business_batch.py, subscription_batch_retention.py, the    *)
(* repair operations of subscription_management.py).                       *)
(*                                                                         *)
(* A receipt is named by its sequence in the shard.  Duplicate detection,  *)
(* leases and acknowledgement are in SubscriptionListener; Admission and   *)
(* the Attempts of an Execution are in ReliableControl, here an Execution  *)
(* is live until it reports how many of its members succeeded.  Every      *)
(* transaction locks Adapter and Subscription first, so it is one action.  *)
(* Both quota scopes take the same deltas; one stands for the tighter.     *)
(***************************************************************************)
EXTENDS Integers, Sequences, FiniteSets, FiniteSetsExt

CONSTANTS DeliveryModes, \* processing modes of the activation
          MaxSequence,   \* bound on receipts
          MaxOrdinal,    \* bound on deliveries of a receipt
          BatchMembers,  \* MAX_MEMBERS of a business batch
          UnitItems,     \* MAX_ITEMS of a T1 unit
          PendingMax, HistoryMax, DedupeMax,   \* quota limits
          MaxRevisions,  \* bound on repair revisions
          MaxAudits      \* bound on audit rows without a receipt

ASSUME DeliveryAssumption ==
  /\ DeliveryModes \subseteq {"single", "business_batch"}
  /\ \A n \in {MaxSequence, MaxOrdinal, BatchMembers, UnitItems, PendingMax,
               HistoryMax, DedupeMax} : n \in Nat \ {0}
  /\ MaxRevisions \in Nat /\ MaxAudits \in Nat

VARIABLES mode,          \* the activation's processing mode
          reception,     \* desired_state: "enabled" or "disabled" and closed
          deliveryState, \* EventSubscription.delivery_state
          repairRevision,\* repair_revision_id, 0 when there is none
          revisions,     \* repair revisions saved so far
          receipts,      \* sequence of EventReceipt rows with deliveries
          shared,        \* Executions, by the delivery that heads them
          blocker,       \* SourceCheckpoint.blocked_receipt_id, 0 for null
          quota,         \* SubscriptionQuota
          audits         \* DeliveryDisposition rows without a receipt

deliveryVars == <<mode, reception, deliveryState, repairRevision, revisions,
                  receipts, shared, blocker, quota, audits>>

Settled == {"succeeded", "skipped"}      \* the TERMINAL receipt states met here
Absent  == <<0, 0>>                      \* a delivery without an Execution
Never   == -2                            \* an Execution that was not accepted
Live    == -1                            \* one that is not terminal

Stored == {s \in DOMAIN receipts : receipts[s].state # "deleted"}
Last(s) == receipts[s].deliveries[Len(receipts[s].deliveries)]
Ordinal(s) == Len(receipts[s].deliveries)
IsUnfinished(rs, s) == rs[s].state \notin Settled \cup {"deleted"}
Unfinished(rs) == {s \in DOMAIN rs : IsUnfinished(rs, s)}
Members(x) == {s \in Stored : \E i \in DOMAIN receipts[s].deliveries :
                                 receipts[s].deliveries[i].execution = x}
LiveExecution == \E x \in DOMAIN shared : shared[x] = Live

NewDelivery(revision) == [state |-> "pending", execution |-> Absent,
                          kept |-> TRUE, revision |-> revision]
NewReceipt == [state |-> "pending", payload |-> TRUE, age |-> 0,
               deliveries |-> <<NewDelivery(0)>>]

CTypeOK ==
  /\ mode \in DeliveryModes
  /\ reception \in {"enabled", "disabled"}
  /\ deliveryState \in {"idle", "pending", "processing", "draining",
                        "blocked", "repair"}
  /\ repairRevision \in 0..revisions /\ revisions \in 0..MaxRevisions
  /\ Len(receipts) <= MaxSequence
  /\ \A s \in DOMAIN receipts :
       /\ receipts[s].state \in {"pending", "processing", "failed",
                                 "succeeded", "skipped", "deleted"}
       /\ receipts[s].payload \in BOOLEAN /\ receipts[s].age \in 0..2
       /\ Len(receipts[s].deliveries) <= MaxOrdinal
       /\ \A i \in DOMAIN receipts[s].deliveries :
            receipts[s].deliveries[i] \in
              [state : {"pending", "processing", "failed", "succeeded",
                        "skipped", "deleted"},
               execution : ((1..MaxSequence) \X (1..MaxOrdinal)) \cup {Absent},
               kept : BOOLEAN, revision : 0..MaxRevisions]
  /\ shared \in [(1..MaxSequence) \X (1..MaxOrdinal) -> Never..BatchMembers]
  /\ blocker \in 0..MaxSequence
  /\ quota \in [pending : 0..PendingMax, history : 0..HistoryMax,
                dedupe : 0..DedupeMax, paused : BOOLEAN]
  /\ audits \in 0..MaxAudits

CInit ==
  /\ mode \in DeliveryModes
  /\ reception = "enabled" /\ deliveryState = "idle"
  /\ repairRevision = 0 /\ revisions = 0
  /\ receipts = <<>>
  /\ shared = [x \in ((1..MaxSequence) \X (1..MaxOrdinal)) |-> Never]
  /\ blocker = 0
  /\ quota = [pending |-> 0, history |-> 0, dedupe |-> 0, paused |-> FALSE]
  /\ audits = 0

-----------------------------------------------------------------------------
(* Helpers the transactions share.                                         *)

(* refresh_delivery_state: the status derived from the receipts; repair    *)
(* is left only by exit_repair.                                            *)
Projection(rs, wanted) ==
  LET some(state) == \E s \in DOMAIN rs : rs[s].state = state
  IN CASE some("failed") -> "blocked"
       [] wanted = "disabled" /\ (some("pending") \/ some("processing"))
            -> "draining"
       [] some("processing") -> "processing"
       [] some("pending") -> "pending"
       [] OTHER -> "idle"

Refresh == deliveryState' = IF deliveryState = "repair" THEN "repair"
                            ELSE Projection(receipts', reception)

(* Mutant: the latest one.                                                 *)
RecomputeLatest(rs) == IF Unfinished(rs) = {} THEN 0 ELSE Max(Unfinished(rs))

(* business_batch.recompute_blocker: the earliest receipt that is not      *)
(* terminal, whatever its state.                                           *)
RecomputeBlocker(rs) == IF Unfinished(rs) = {} THEN 0 ELSE Min(Unfinished(rs))

(* audit_quota: the EventDelivery rows by receipt and ordinal, those that  *)
(* wait for dispatch and those that count for the retained history.        *)
DeliveryRows(rs) == {d \in (DOMAIN rs) \X (1..MaxOrdinal) :
                       d[2] <= Len(rs[d[1]].deliveries)}
Retains(r, d) == d.state # "deleted" /\ (r.payload \/ d.kept)
PendingRows(rs) == {d \in DeliveryRows(rs) :
                      rs[d[1]].deliveries[d[2]].state = "pending"}
HeldRows(rs) == {d \in DeliveryRows(rs) :
                   Retains(rs[d[1]], rs[d[1]].deliveries[d[2]])}

(* _reserve: below 80 % of every limit a capacity pause ends.              *)
LowWater == /\ 10 * quota.pending <= 8 * PendingMax
            /\ 10 * quota.history <= 8 * HistoryMax
            /\ 10 * quota.dedupe  <= 8 * DedupeMax
(* Mutant: a unit reserves room for its first item only.                   *)
RoomForOne(n) == /\ quota.pending + 1 <= PendingMax
                 /\ quota.history + 1 <= HistoryMax
                 /\ quota.dedupe + 1 <= DedupeMax

(* A unit of n items needs n free places under every limit.                *)
Room(n) == /\ quota.paused => LowWater
           /\ quota.pending + n <= PendingMax
           /\ quota.history + n <= HistoryMax
           /\ quota.dedupe + n <= DedupeMax

SetLast(r, d) == [r EXCEPT !.deliveries[Len(r.deliveries)] = d]

-----------------------------------------------------------------------------
(* T1.  receive_event stores one event; a T1 unit of a business batch      *)
(* stores the accepted prefix of a group in one transaction.               *)
Receive(n) ==
  /\ reception = "enabled" /\ n \in 1..UnitItems
  /\ mode = "single" => n = 1
  /\ Len(receipts) + n <= MaxSequence
  /\ Room(n)
  /\ receipts' = receipts \o [i \in 1..n |-> NewReceipt]
  /\ quota' = [pending |-> quota.pending + n, history |-> quota.history + n,
               dedupe |-> quota.dedupe + n, paused |-> FALSE]
  /\ Refresh
  /\ UNCHANGED <<mode, reception, repairRevision, revisions, shared, blocker,
                 audits>>

(* record_rejection of a capacity refusal pauses intake until low water.   *)
RefuseCapacity ==
  /\ reception = "enabled" /\ ~Room(1) /\ ~quota.paused
  /\ quota' = [quota EXCEPT !.paused = TRUE]
  /\ UNCHANGED <<mode, reception, deliveryState, repairRevision, revisions,
                 receipts, shared, blocker, audits>>

-----------------------------------------------------------------------------
(* T2.  dispatch_delivery and materialize_batch.                           *)

(* Mutants: only pending receipts are waited for; skipped ones are too.    *)
IsPendingHead(s) == \A t \in Unfinished(receipts) :
                      receipts[t].state = "pending" => s <= t
IsHeadOfSkipped(s) == \A t \in Stored : receipts[t].state # "succeeded" => s <= t

(* No earlier receipt of the shard may be unfinished.                      *)
IsHead(s) == \A t \in Unfinished(receipts) : s <= t

(* In repair only the explicitly selected replay of the blocker runs.      *)
RepairAllows(s) == deliveryState = "repair" =>
                     /\ Last(s).revision # 0
                     /\ Last(s).revision = repairRevision
                     /\ blocker = s

(* Receipts that may share an Execution with head s: the unbroken run of   *)
(* first deliveries behind it; a replay runs alone.                        *)
Joins(s, t) == /\ receipts[t].state = "pending" /\ Last(t).state = "pending"
               /\ Last(t).revision = Last(s).revision
               /\ t # s => Ordinal(t) = 1
MemberRun(s) ==
  LET behind == {t \in Unfinished(receipts) : t >= s}
      run == {t \in behind : \A u \in behind : u <= t => Joins(s, u)}
  IN IF mode = "single" \/ Ordinal(s) > 1 THEN {s}
     ELSE {t \in run : Cardinality({u \in run : u < t}) < BatchMembers}

(* The Execution, its members, the quota and the blocker change together;  *)
(* the byte budget may cut the run short.  A refused Admission rolls back  *)
(* and only postpones the delivery (retry_after).                          *)
Dispatch(s, taken) ==
  /\ s \in Stored /\ receipts[s].state = "pending" /\ Last(s).state = "pending"
  /\ RepairAllows(s) /\ IsHead(s)
  /\ taken \subseteq MemberRun(s) /\ s \in taken
  /\ \A t \in MemberRun(s) \ taken : \A u \in taken : u < t
  /\ LET x == <<s, Ordinal(s)>> IN
       /\ shared' = [shared EXCEPT ![x] = Live]
       /\ receipts' = [t \in DOMAIN receipts |->
            IF t \in taken
            THEN SetLast([receipts[t] EXCEPT !.state = "processing"],
                         [Last(t) EXCEPT !.state = "processing",
                                         !.execution = x])
            ELSE receipts[t]]
  /\ blocker' = s
  /\ quota' = [quota EXCEPT !.pending = @ - Cardinality(taken)]
  /\ Refresh
  /\ UNCHANGED <<mode, reception, repairRevision, revisions, audits>>

(* The Execution becomes terminal.  A validated batch result is a prefix   *)
(* of successes; every other terminal outcome counts no success.           *)
FinishExecution(x) ==
  /\ shared[x] = Live
  /\ \E n \in 0..Cardinality(Members(x)) : shared' = [shared EXCEPT ![x] = n]
  /\ UNCHANGED <<mode, reception, deliveryState, repairRevision, revisions,
                 receipts, blocker, quota, audits>>

(* observe_terminal and settle_batch: member outcomes become receipt       *)
(* states.  A single event clears or keeps its own barrier, a batch        *)
(* recomputes it.                                                          *)
ObserveTerminal(x) ==
  LET members == {s \in Members(x) : Last(s).execution = x
                                     /\ Last(s).state = "processing"}
      succeeded(s) == Cardinality({t \in members : t < s}) < shared[x]
      outcome(s) == IF succeeded(s) THEN "succeeded" ELSE "failed"
  IN /\ shared[x] >= 0 /\ members # {}
     /\ receipts' = [s \in DOMAIN receipts |->
          IF s \in members
          THEN SetLast([receipts[s] EXCEPT !.state = outcome(s), !.age = 0],
                       [Last(s) EXCEPT !.state = outcome(s)])
          ELSE receipts[s]]
     /\ blocker' = IF mode = "business_batch" THEN RecomputeBlocker(receipts')
                   ELSE IF shared[x] > 0 THEN 0 ELSE x[1]
     /\ shared' = [shared EXCEPT ![x] = 0]   \* its counts are not read again
     /\ Refresh
     /\ UNCHANGED <<mode, reception, repairRevision, revisions, quota, audits>>

-----------------------------------------------------------------------------
(* Operator dispositions.                                                  *)

(* replay_event refuses an expired payload.                                *)
ReplayPayload(s) == receipts[s].payload

(* replay_event: a new delivery of a settled or failed receipt.  Without a *)
(* drained stop only the barrier itself may be replayed.                   *)
Replay(s, revision) ==
  /\ s \in Stored /\ Ordinal(s) \in 1..MaxOrdinal - 1
  /\ ReplayPayload(s)
  /\ Last(s).state \notin {"pending", "processing"}
  /\ blocker = s \/ (reception = "disabled" /\ Unfinished(receipts) = {})
  /\ revision # 0 => /\ deliveryState = "repair" /\ blocker = s
                     /\ revision = repairRevision
  /\ quota.pending + 1 <= PendingMax /\ quota.history + 1 <= HistoryMax
  /\ quota' = [quota EXCEPT !.pending = @ + 1, !.history = @ + 1]
  /\ receipts' = [receipts EXCEPT
       ![s].deliveries = Append(@, NewDelivery(revision)),
       ![s].state = "pending", ![s].age = 0]
  /\ Refresh
  /\ UNCHANGED <<mode, reception, repairRevision, revisions, shared, blocker,
                 audits>>

(* Mutant: every skip returns a pending place.                             *)
AlwaysReleases(s) == [quota EXCEPT !.pending = @ - 1]

(* Only a delivery that was never dispatched still holds a pending place.  *)
SkipReleases(s) == IF Last(s).state = "pending"
                   THEN [quota EXCEPT !.pending = @ - 1] ELSE quota

(* skip_event: an undispatched or failed receipt is given up.              *)
Skip(s) ==
  /\ s \in Unfinished(receipts) /\ Last(s).state # "processing"
  /\ quota' = SkipReleases(s)
  /\ receipts' = [receipts EXCEPT
       ![s] = SetLast([@ EXCEPT !.state = "skipped", !.age = 0],
                      [Last(s) EXCEPT !.state = "skipped"])]
  /\ blocker' = RecomputeBlocker(receipts')
  /\ Refresh
  /\ UNCHANGED <<mode, reception, repairRevision, revisions, shared, audits>>

(* reset, quota_repair, skip_unaccepted: an audit row without a receipt    *)
(* is charged to the dedupe budget (reserve_disposition_metadata).         *)
AuditDisposition ==
  /\ audits < MaxAudits /\ quota.dedupe + 1 <= DedupeMax
  /\ audits' = audits + 1
  /\ quota' = [quota EXCEPT !.dedupe = @ + 1]
  /\ UNCHANGED <<mode, reception, deliveryState, repairRevision, revisions,
                 receipts, shared, blocker>>

(* disable_subscription (with the listener closed), enable_subscription.   *)
DisableReception ==
  /\ reception = "enabled"
  /\ reception' = "disabled"
  /\ deliveryState' = Projection(receipts, "disabled")
  /\ UNCHANGED <<mode, repairRevision, revisions, receipts, shared, blocker,
                 quota, audits>>

EnableReception ==
  /\ reception = "disabled" /\ deliveryState # "repair"
  /\ Unfinished(receipts) = {} /\ ~LiveExecution
  /\ reception' = "enabled" /\ deliveryState' = "idle"
  /\ UNCHANGED <<mode, repairRevision, revisions, receipts, shared, blocker,
                 quota, audits>>

EnterRepair ==
  /\ reception = "disabled" /\ deliveryState # "repair"
  /\ deliveryState' = "repair" /\ repairRevision' = 0
  /\ UNCHANGED <<mode, reception, revisions, receipts, shared, blocker, quota,
                 audits>>

SaveRepairRevision ==
  /\ deliveryState = "repair" /\ ~LiveExecution
  /\ revisions < MaxRevisions
  /\ revisions' = revisions + 1 /\ repairRevision' = revisions + 1
  /\ UNCHANGED <<mode, reception, deliveryState, receipts, shared, blocker,
                 quota, audits>>

(* exit_repair: refused while any checkpoint names a blocked receipt.      *)
ExitRepair ==
  /\ deliveryState = "repair" /\ ~LiveExecution
  /\ blocker = 0
  /\ deliveryState' = Projection(receipts, reception)
  /\ repairRevision' = 0
  /\ UNCHANGED <<mode, reception, revisions, receipts, shared, blocker, quota,
                 audits>>

-----------------------------------------------------------------------------
(* Retention.  Age 1 is past the payload window, age 2 past the metadata   *)
(* window; both are measured from terminal_at.                             *)
Settles(s) == s \in Stored /\ receipts[s].state \in Settled
Elapse ==
  /\ \E s \in DOMAIN receipts : Settles(s) /\ receipts[s].age < 2
  /\ receipts' = [s \in DOMAIN receipts |->
       IF Settles(s) THEN [receipts[s] EXCEPT !.age = Min({@ + 1, 2})]
       ELSE receipts[s]]
  /\ UNCHANGED <<mode, reception, deliveryState, repairRevision, revisions,
                 shared, blocker, quota, audits>>

Expired(s) == receipts[s].state \in Settled /\ receipts[s].age = 2

(* cleanup_batches: deliveries skipped before their receipt's first batch, *)
(* then whole batches whose members are all past the metadata window and   *)
(* whose deliveries are the oldest that remain.                            *)
ReclaimedPrefix(s, i) ==
  LET ds == receipts[s].deliveries IN
  /\ Expired(s) /\ ds[i].state = "skipped" /\ ds[i].execution = Absent
  /\ \E j \in i + 1..Len(ds) : /\ ds[j].state # "deleted"
                               /\ ds[j].execution # Absent
Reclaimable(x) ==
  /\ shared[x] >= 0
  /\ \A s \in Members(x) :
       /\ Expired(s)
       /\ \A i \in DOMAIN receipts[s].deliveries :
            receipts[s].deliveries[i].execution = x =>
              \A j \in 1..i - 1 :
                 \/ receipts[s].deliveries[j].state = "deleted"
                 \/ ReclaimedPrefix(s, j)
AfterBatches(s) ==
  LET ds == receipts[s].deliveries
      reclaimed(i) == \/ ReclaimedPrefix(s, i)
                      \/ ds[i].execution # Absent /\ Reclaimable(ds[i].execution)
  IN IF mode = "single" THEN receipts[s]
     ELSE [receipts[s] EXCEPT !.deliveries = [i \in DOMAIN ds |->
             IF reclaimed(i) THEN [ds[i] EXCEPT !.state = "deleted"] ELSE ds[i]]]

(* cleanup_history: payloads expire, input budgets without an Execution    *)
(* are released, and unreferenced receipts are deleted with their rows.    *)
Cleaned(s) ==
  LET r == AfterBatches(s)
      ds == r.deliveries
      member == mode = "business_batch"
                /\ \E i \in DOMAIN ds : /\ ds[i].state # "deleted"
                                        /\ ds[i].execution # Absent
      due == /\ r.state \in Settled /\ r.age >= 1 /\ s # blocker
             /\ \/ r.payload
                \/ r.age = 2 /\ ~member
                \/ \E i \in DOMAIN ds : /\ ds[i].state # "deleted"
                                        /\ ds[i].execution = Absent
                                        /\ ds[i].kept
      released == [r EXCEPT !.payload = FALSE,
                            !.deliveries = [i \in DOMAIN ds |->
                               IF ds[i].execution = Absent
                               THEN [ds[i] EXCEPT !.kept = FALSE] ELSE ds[i]]]
  IN IF ~due THEN r
     ELSE IF r.age = 2 /\ ~member
          THEN [state |-> "deleted", payload |-> FALSE, age |-> 0,
                deliveries |-> <<>>]
     ELSE released

CleanupHistory ==
  LET cleaned == [s \in DOMAIN receipts |-> IF s \in Stored THEN Cleaned(s)
                                            ELSE receipts[s]]
      freed == HeldRows(receipts) \ HeldRows(cleaned)
      deleted == {s \in Stored : cleaned[s].state = "deleted"}
      gone(x) == shared[x] >= 0 /\ \A s \in Members(x) : s \in deleted
  IN /\ cleaned # receipts \/ audits > 0
     /\ receipts' = cleaned
     /\ shared' = [x \in DOMAIN shared |-> IF gone(x) THEN Never ELSE shared[x]]
     /\ \E old \in 0..audits :
          /\ audits' = audits - old
          /\ quota' = [quota EXCEPT
               !.history = @ - Cardinality(freed),
               !.dedupe  = @ - Cardinality(deleted) - old]
     /\ Refresh
     /\ UNCHANGED <<mode, reception, repairRevision, revisions, blocker>>

-----------------------------------------------------------------------------
(* maintenance_tick and the scheduler keep observing completions and       *)
(* dispatching heads; an Execution ends by its result, its Attempt limit,  *)
(* its lease or its expiry (ReliableControl).                              *)
AnyDispatch == \E s \in Unfinished(receipts) : \E taken \in SUBSET MemberRun(s) :
                  Dispatch(s, taken)
AnyFinish == \E x \in DOMAIN shared : FinishExecution(x)
AnyObserve == \E x \in DOMAIN shared : ObserveTerminal(x)

CNext ==
  \/ \E n \in 1..UnitItems : Receive(n)
  \/ RefuseCapacity
  \/ AnyDispatch \/ AnyFinish \/ AnyObserve
  \/ \E s \in DOMAIN receipts :
       \/ \E revision \in {0, repairRevision} : Replay(s, revision)
       \/ Skip(s)
  \/ AuditDisposition
  \/ DisableReception \/ EnableReception
  \/ EnterRepair \/ SaveRepairRevision \/ ExitRepair
  \/ Elapse \/ CleanupHistory

CSpec == CInit /\ [][CNext]_deliveryVars

CFairness == /\ WF_deliveryVars(AnyDispatch)
             /\ WF_deliveryVars(AnyFinish)
             /\ WF_deliveryVars(AnyObserve)

-----------------------------------------------------------------------------
(* The quota rows equal what audit_quota recounts from receipts,           *)
(* deliveries and audit rows, after any mix of T1 units, batches, replays, *)
(* skips and partial retention: no transaction leaks or double-releases.   *)
LedgerMatches ==
  /\ quota.pending = Cardinality(PendingRows(receipts))
  /\ quota.history = Cardinality(HeldRows(receipts))
  /\ quota.dedupe = Cardinality(Stored) + audits

(* Serial shard: while a receipt is being processed, every earlier receipt *)
(* is settled or shares its Execution, whatever was replayed or skipped.   *)
ShardOrder ==
  \A s, t \in Unfinished(receipts) :
    receipts[s].state = "processing" /\ t < s =>
      /\ receipts[t].state = "processing"
      /\ Last(t).execution = Last(s).execution

(* What is owed can always be delivered.  Retention never takes the        *)
(* payload of an unsettled event, so dispatch never meets                  *)
(* event_payload_expired; and once nothing is being processed a failed     *)
(* head is named by its checkpoint's barrier, the only receipt replay_event*)
(* accepts without a drained stop.                                         *)
OwedRecoverable ==
  LET owed == Unfinished(receipts) IN
  /\ \A s \in owed : receipts[s].payload
  /\ /\ owed # {} /\ receipts[Min(owed)].state = "failed"
     /\ \A s \in owed : receipts[s].state # "processing"
     => blocker = Min(owed)

(* Outside repair, events that wait behind no failure are eventually all   *)
(* dispatched or given up: skipped, deleted and replayed neighbours never  *)
(* strand a shard.                                                         *)
BacklogDrains ==
  LET someIn(state) == \E s \in DOMAIN receipts : receipts[s].state = state IN
  someIn("pending") ~> \/ ~someIn("pending") \/ someIn("failed")
                       \/ deliveryState = "repair"

(* What the specification promises for a code defect in front of a         *)
(* backlog: once the failed event has succeeded on the repair Revision and *)
(* nothing is running or failed, exit_repair lets the untouched successors *)
(* drain.                                                                  *)
RepairExits ==
  /\ deliveryState = "repair" /\ ~LiveExecution
  /\ \E s \in Stored : /\ receipts[s].state = "succeeded"
                       /\ Last(s).revision = repairRevision
                       /\ repairRevision # 0
  /\ \A s \in Unfinished(receipts) :
       receipts[s].state = "pending" /\ Ordinal(s) = 1
  => blocker = 0
=============================================================================
