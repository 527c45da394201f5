------------------------ MODULE SubscriptionListener ------------------------
(***************************************************************************)
(* Reception of one event subscription from a queue source (RabbitMQ or    *)
(* RocketMQ): the database lease and its fencing, the owner threads of the *)
(* Control processes (subscription_runtime.py), the runner loop that       *)
(* polls, takes custody and acknowledges (subscription_queue.py) and the   *)
(* operator's enable and disable (subscription_management.py).             *)
(*                                                                         *)
(* One database transaction is one action: Adapter, Subscription, Lease    *)
(* and Checkpoint rows stay locked until it commits.  An owner id is a     *)
(* fresh uuid at each acquisition, so it is represented by the generation  *)
(* that acquisition produced; 0 is the empty owner id and the null         *)
(* closing_generation.  What happens to an event after T1 is the subject   *)
(* of SubscriptionDelivery; here custody is the set of stored receipts.    *)
(***************************************************************************)
EXTENDS Integers, FiniteSets

CONSTANTS Procs,        \* Control processes
          Messages,     \* messages of the source queue, by stable message id
          Malformed,    \* those whose content T1 always refuses
          MaxGeneration,\* bound: no start and no operator action beyond it
          MaxCrashes    \* bound on process crashes

ASSUME ListenerAssumption == /\ Malformed \subseteq Messages
                             /\ MaxGeneration \in Nat
                             /\ MaxCrashes \in Nat

VARIABLES desired,      \* EventSubscription.desired_state
          connection,   \* EventSubscription.connection_state
          lastError,    \* EventSubscription.last_error_code, classified
          lease,        \* SubscriptionLease
          owner,        \* per process: its entry in _owners and that thread
          broker,       \* per message: still queued at the source, or acked
          custody,      \* messages with a committed receipt
          unaccepted,   \* SourceCheckpoint.blocked_unaccepted
          acquired,     \* history: the generation last handed to an owner
          crashes

listenerVars == <<desired, connection, lastError, lease, owner, broker,
                  custody, unaccepted, acquired, crashes>>

NoMessage == "no_message"
Capacity  == "capacity"
NoFault   == "no_fault"

(* SourceFailure.disposition of the failure that ended a run; "message" is *)
(* a blocked failure caused by the content of the held message.            *)
Failures == {"none", "backoff", Capacity, "message", "blocked"}

NoOwner == [gen |-> 0, pc |-> "none", msg |-> NoMessage, stop |-> FALSE,
            failure |-> "none"]

(* The native client of an owner exists from open until close returns.     *)
NativeOpen(p) == owner[p].pc \in {"connecting", "polling", "holding",
                                  "faulting", "committed", "closing",
                                  "failing", "unconfirmed"}

LeaseRow == [owner : Nat, gen : Nat, closing : Nat, live : BOOLEAN]

OwnerEntry == [gen : Nat,
               pc : {"none", "opening", "connecting", "polling", "holding",
                     "faulting", "committed", "closing", "finishing",
                     "failing", "unconfirmed"},
               msg : Messages \cup {NoMessage},
               stop : BOOLEAN,
               failure : Failures]

LTypeOK ==
  /\ desired \in {"enabled", "disabled"}
  /\ connection \in {"stopped", "starting", "listening", "reconnecting",
                     "stopping", "blocked"}
  /\ lastError \in {"none", "backoff", Capacity, "message", "blocked",
                    "close_unconfirmed"}
  /\ lease \in LeaseRow
  /\ lease.closing < lease.gen \/ lease.gen = 0
  /\ owner \in [Procs -> OwnerEntry]
  /\ broker \in [Messages -> {"queued", "acked"}]
  /\ custody \subseteq Messages \ Malformed
  /\ unaccepted \in Messages \cup {NoFault, Capacity}
  /\ acquired \in 0..MaxGeneration
  /\ crashes \in 0..MaxCrashes

LInit ==
  /\ desired = "disabled" /\ connection = "stopped" /\ lastError = "none"
  /\ lease = [owner |-> 0, gen |-> 0, closing |-> 0, live |-> FALSE]
  /\ owner = [p \in Procs |-> NoOwner]
  /\ broker = [m \in Messages |-> "queued"]
  /\ custody = {} /\ unaccepted = NoFault /\ acquired = 0
  /\ crashes = 0

-----------------------------------------------------------------------------
(* The lease.                                                              *)

(* subscription_delivery._lease: every transaction of a listener rechecks  *)
(* owner, generation, expiry and the desired state under the row lock.     *)
LeaseValid(p) == /\ lease.owner = owner[p].gen
                 /\ lease.gen = owner[p].gen
                 /\ lease.live
                 /\ desired = "enabled"

(* Mutant: the generation that owes its close is not remembered.           *)
FenceForgets(l) == [l EXCEPT !.gen = @ + 1, !.live = FALSE]

(* management._fence: retire the current generation; the first generation  *)
(* that still owes its close acknowledgement is remembered.                *)
Fence(l) == [owner |-> l.owner,
             gen |-> l.gen + 1,
             closing |-> IF l.owner # 0 /\ l.closing = 0 THEN l.gen
                                                         ELSE l.closing,
             live |-> FALSE]

(* management.listener_closed: the close acknowledgement.                  *)
ClosedLease(l) == [l EXCEPT !.owner = 0, !.closing = 0, !.live = FALSE]

Retire(p, failure) ==
  owner' = [owner EXCEPT ![p].pc = "closing", ![p].msg = NoMessage,
                         ![p].failure = failure]

-----------------------------------------------------------------------------
(* SubscriptionRuntimeManager.                                             *)

(* start_once with acquire_lease: a process holds at most one owner of the *)
(* subscription, and a live lease refuses every other acquisition.         *)
StartOnce(p) ==
  /\ owner[p] = NoOwner
  /\ desired = "enabled" /\ connection # "blocked"
  /\ ~lease.live /\ lease.gen < MaxGeneration
  /\ lease' = [owner |-> lease.gen + 1, gen |-> lease.gen + 1,
               closing |-> 0, live |-> TRUE]
  /\ connection' = "starting"
  /\ owner' = [owner EXCEPT ![p] = [NoOwner EXCEPT !.gen = lease.gen + 1,
                                                   !.pc = "opening"]]
  /\ acquired' = lease.gen + 1
  /\ UNCHANGED <<desired, lastError, broker, custody, unaccepted, crashes>>

(* QueueSourceRunner.run up to the transport: a stop request, no capacity, *)
(* an unreachable or a refusing source end the run before a client exists. *)
OpenTransport(p) ==
  /\ owner[p].pc = "opening"
  /\ \/ /\ ~owner[p].stop
        /\ owner' = [owner EXCEPT ![p].pc = "connecting"]
     \/ /\ owner[p].stop
        /\ owner' = [owner EXCEPT ![p].pc = "finishing"]
     \/ /\ ~owner[p].stop
        /\ \E failure \in {"backoff", Capacity, "blocked"} :
             owner' = [owner EXCEPT ![p].pc = "finishing",
                                    ![p].failure = failure]
  /\ UNCHANGED <<desired, connection, lastError, lease, broker, custody,
                 unaccepted, acquired, crashes>>

(* _connected: the run is announced only under a valid lease.              *)
Connected(p) ==
  /\ owner[p].pc = "connecting"
  /\ IF ~owner[p].stop /\ LeaseValid(p)
     THEN /\ connection' = "listening" /\ lastError' = "none"
          /\ owner' = [owner EXCEPT ![p].pc = "polling"]
     ELSE /\ Retire(p, "backoff")
          /\ UNCHANGED <<connection, lastError>>
  /\ UNCHANGED <<desired, lease, broker, custody, unaccepted, acquired, crashes>>

(* The head of the loop: stop, capacity_ready, transport.poll.             *)
Poll(p) ==
  /\ owner[p].pc = "polling"
  /\ \/ owner[p].stop /\ Retire(p, "none")
     \/ ~owner[p].stop /\ \E failure \in {"backoff", Capacity} :
                            Retire(p, failure)
     \/ /\ ~owner[p].stop
        /\ \E m \in Messages :
             /\ broker[m] = "queued"
             /\ owner' = [owner EXCEPT ![p].pc = "holding", ![p].msg = m]
  /\ UNCHANGED <<desired, connection, lastError, lease, broker, custody,
                 unaccepted, acquired, crashes>>

(* Mutant: an error at COMMIT is taken for a commit.                       *)
BlindCommit == {[stored |-> TRUE, known |-> TRUE],
                [stored |-> FALSE, known |-> TRUE]}

(* How a T1 transaction ends: an error at COMMIT leaves the outcome        *)
(* unknown, whether the rows are there or not.                             *)
CommitOutcomes == {[stored |-> TRUE,  known |-> TRUE],
                   [stored |-> TRUE,  known |-> FALSE],
                   [stored |-> FALSE, known |-> FALSE]}

(* T1 of the held message (take_custody, receive_event).  A stop request   *)
(* rolls the transaction back; a known message is a duplicate and may be   *)
(* acknowledged; an unresolved message fault blocks the shard; the quota   *)
(* may refuse; an unknown outcome never permits an acknowledgement.        *)
TakeCustody(p) ==
  LET m == owner[p].msg
      refuse(failure) ==
        /\ owner' = [owner EXCEPT ![p].pc = "faulting",
                                  ![p].failure = failure]
        /\ UNCHANGED <<custody, unaccepted>>
      giveUp(failure) == Retire(p, failure) /\ UNCHANGED <<custody, unaccepted>>
      commit == owner' = [owner EXCEPT ![p].pc = "committed"]
      store(outcome) ==
        /\ custody' = IF outcome.stored THEN custody \cup {m} ELSE custody
        /\ unaccepted' = IF outcome.stored /\ unaccepted = Capacity
                         THEN NoFault ELSE unaccepted
        /\ IF outcome.known THEN commit ELSE Retire(p, "backoff")
      new == m \notin custody
      open == unaccepted \in {NoFault, Capacity}
  IN /\ owner[p].pc = "holding"
     /\ \/ owner[p].stop /\ giveUp("none")
        \/ ~owner[p].stop /\ m \in Malformed /\ refuse("message")
        \/ /\ ~owner[p].stop /\ m \notin Malformed
           /\ \/ ~LeaseValid(p) /\ giveUp("backoff")
              \/ /\ LeaseValid(p) /\ ~new
                 /\ commit /\ UNCHANGED <<custody, unaccepted>>
              \/ LeaseValid(p) /\ new /\ ~open /\ giveUp("blocked")
              \/ LeaseValid(p) /\ new /\ open /\ refuse(Capacity)
              \/ /\ LeaseValid(p) /\ new /\ open
                 /\ \E outcome \in CommitOutcomes : store(outcome)
     /\ UNCHANGED <<desired, connection, lastError, lease, broker, acquired,
                    crashes>>

(* record_fault, record_rejection: a bounded diagnosis in a transaction of *)
(* its own, after the refused T1 rolled back.  The first message fault of  *)
(* the shard stays; a stale owner records nothing.                         *)
RecordFault(p) ==
  LET fault == IF owner[p].failure = Capacity THEN Capacity ELSE owner[p].msg
      recordable == unaccepted \in {NoFault, Capacity, fault}
  IN /\ owner[p].pc = "faulting"
     /\ \/ /\ owner[p].stop /\ Retire(p, owner[p].failure)
           /\ UNCHANGED <<unaccepted, connection, lastError>>
        \/ /\ ~owner[p].stop /\ LeaseValid(p) /\ recordable
           /\ unaccepted' = fault
           /\ connection' = "blocked" /\ lastError' = owner[p].failure
           /\ Retire(p, owner[p].failure)
        \/ /\ ~owner[p].stop /\ ~LeaseValid(p) /\ Retire(p, "backoff")
           /\ UNCHANGED <<unaccepted, connection, lastError>>
        \/ /\ ~owner[p].stop /\ LeaseValid(p) /\ ~recordable
           /\ Retire(p, "blocked")
           /\ UNCHANGED <<unaccepted, connection, lastError>>
     /\ UNCHANGED <<desired, lease, broker, custody, acquired,
                    crashes>>

(* transport.ack after the commit: it may be lost, or take effect although *)
(* the client reports an error.                                            *)
Acknowledge(p) ==
  LET acked == broker' = [broker EXCEPT ![owner[p].msg] = "acked"]
  IN /\ owner[p].pc = "committed"
     /\ \/ /\ acked
           /\ owner' = [owner EXCEPT ![p].pc = "polling", ![p].msg = NoMessage]
        \/ acked /\ Retire(p, "backoff")
        \/ UNCHANGED broker /\ Retire(p, "backoff")
     /\ UNCHANGED <<desired, connection, lastError, lease, custody,
                    unaccepted, acquired, crashes>>

(* transport.close: a close that raises keeps the permit and the client.   *)
CloseTransport(p) ==
  /\ owner[p].pc = "closing"
  /\ \E pc \in {"finishing", "failing"} :
       owner' = [owner EXCEPT ![p].pc = pc]
  /\ UNCHANGED <<desired, connection, lastError, lease, broker, custody,
                 unaccepted, acquired, crashes>>

(* _finish_owner fences the own generation before anything else.           *)
OwnLease(p) == IF lease.owner = owner[p].gen /\ lease.gen = owner[p].gen
               THEN Fence(lease) ELSE lease
Awaited(p) == /\ lease.owner = owner[p].gen
              /\ OwnLease(p).closing = owner[p].gen

(* Mutant: a capacity pause waits for the operator.                        *)
CapacityBlocks(failure) ==
  IF failure = "none" THEN "starting" ELSE "blocked"

(* The connection state an ended run leaves behind while enabled.          *)
RunOutcome(failure) == CASE failure = "none" -> "starting"
                         [] failure \in {"message", "blocked"} -> "blocked"
                         [] OTHER -> "reconnecting"

(* _finish_owner after a confirmed close: acknowledge it if this owner is  *)
(* the one whose close is awaited.  A database failure only repeats the    *)
(* transaction (reconcile_once), which is a stuttering step.               *)
FinishOwner(p) ==
  LET failure == owner[p].failure
  IN /\ owner[p].pc = "finishing"
     /\ lease' = IF Awaited(p) THEN ClosedLease(OwnLease(p)) ELSE OwnLease(p)
     /\ connection' = CASE ~Awaited(p) -> connection
                        [] Awaited(p) /\ desired = "disabled" -> "stopped"
                        [] OTHER -> RunOutcome(failure)
     /\ lastError' = IF Awaited(p) /\ desired = "enabled" THEN failure
                                                          ELSE lastError
     /\ owner' = [owner EXCEPT ![p] = NoOwner]
     /\ UNCHANGED <<desired, broker, custody, unaccepted, acquired, crashes>>

(* _finish_owner after a failed close: the owner is fenced and reported,   *)
(* never acknowledged, and keeps its permit.  The transaction is tried     *)
(* once.                                                                   *)
FinishUnconfirmed(p) ==
  /\ owner[p].pc = "failing"
  /\ owner' = [owner EXCEPT ![p].pc = "unconfirmed", ![p].stop = TRUE]
  /\ \/ /\ lease' = OwnLease(p)
        /\ connection' = IF Awaited(p) THEN "blocked" ELSE connection
        /\ lastError' = IF Awaited(p) THEN "close_unconfirmed" ELSE lastError
     \/ UNCHANGED <<lease, connection, lastError>>
  /\ UNCHANGED <<desired, broker, custody, unaccepted, acquired, crashes>>

(* reconcile_once, _record_unowned_failure of such an owner.               *)
ReportUnconfirmed(p) ==
  /\ owner[p].pc = "unconfirmed" /\ desired = "enabled"
  /\ connection' = "blocked" /\ lastError' = "close_unconfirmed"
  /\ UNCHANGED <<desired, lease, owner, broker, custody, unaccepted, acquired,
                 crashes>>

(* renew_once: an unrenewable lease stops the owner.                       *)
Renew(p) ==
  LET renewable == /\ lease.owner = owner[p].gen /\ lease.gen = owner[p].gen
                   /\ lease.live
  IN /\ owner[p] # NoOwner /\ ~owner[p].stop /\ ~renewable
     /\ owner' = [owner EXCEPT ![p].stop = TRUE]
     /\ UNCHANGED <<desired, connection, lastError, lease, broker, custody,
                    unaccepted, acquired, crashes>>

(* reconcile_once, stop_single: an owner that lost its lease or whose      *)
(* subscription is no longer enabled is fenced and told to stop.           *)
StopSingle(p) ==
  LET mine == lease.owner = owner[p].gen
  IN /\ owner[p].pc \notin {"none", "unconfirmed"}
     /\ ~owner[p].stop
     /\ desired # "enabled" \/ ~mine \/ lease.gen # owner[p].gen
     /\ lease' = IF mine /\ lease.gen = owner[p].gen THEN Fence(lease)
                                                     ELSE lease
     /\ connection' = CASE ~mine \/ connection = "blocked" -> connection
                        [] desired = "disabled" -> "stopping"
                        [] OTHER -> "starting"
     /\ owner' = [owner EXCEPT ![p].stop = TRUE]
     /\ UNCHANGED <<desired, lastError, broker, custody, unaccepted, acquired, crashes>>

-----------------------------------------------------------------------------
(* The operator, the passage of time and process crashes.                  *)

(* enable_subscription of a stopped subscription (custody drained).        *)
Enable ==
  /\ desired = "disabled" /\ connection = "stopped"
  /\ lease.gen < MaxGeneration
  /\ lease' = Fence(lease)
  /\ desired' = "enabled" /\ connection' = "starting" /\ lastError' = "none"
  /\ UNCHANGED <<owner, broker, custody, unaccepted, acquired, crashes>>

(* enable_subscription of a blocked one: an explicit resume.               *)
Resume ==
  /\ desired = "enabled" /\ connection = "blocked"
  /\ lease.gen < MaxGeneration
  /\ lease' = Fence(lease)
  /\ connection' = "starting" /\ lastError' = "none"
  /\ UNCHANGED <<desired, owner, broker, custody, unaccepted, acquired, crashes>>

(* Mutant: the row alone decides.                                          *)
StoppedAtOnce == "stopped"

(* "stopped" only without an owner that still has to close.                *)
DisabledState == IF lease.owner # 0 THEN "stopping" ELSE "stopped"

(* disable_subscription: fence first.                                      *)
Disable ==
  /\ desired = "enabled"
  /\ lease' = Fence(lease)
  /\ desired' = "disabled"
  /\ connection' = DisabledState
  /\ UNCHANGED <<lastError, owner, broker, custody, unaccepted, acquired, crashes>>

(* The lease is not renewed in time.                                       *)
ExpireLease ==
  /\ lease.live
  /\ lease' = [lease EXCEPT !.live = FALSE]
  /\ UNCHANGED <<desired, connection, lastError, owner, broker, custody,
                 unaccepted, acquired, crashes>>

(* A Control process dies with its native clients; only rows survive.      *)
Crash(p) ==
  /\ owner[p] # NoOwner /\ crashes < MaxCrashes
  /\ owner' = [owner EXCEPT ![p] = NoOwner]
  /\ crashes' = crashes + 1
  /\ UNCHANGED <<desired, connection, lastError, lease, broker, custody,
                 unaccepted, acquired>>

OwnerStep(p) == \/ OpenTransport(p) \/ Connected(p) \/ Poll(p)
                \/ TakeCustody(p) \/ RecordFault(p) \/ Acknowledge(p)
                \/ CloseTransport(p) \/ FinishOwner(p)
                \/ FinishUnconfirmed(p)

LNext == \/ \E p \in Procs : \/ StartOnce(p) \/ OpenTransport(p)
                             \/ Connected(p) \/ Poll(p) \/ TakeCustody(p)
                             \/ RecordFault(p) \/ Acknowledge(p)
                             \/ CloseTransport(p) \/ FinishOwner(p)
                             \/ FinishUnconfirmed(p) \/ ReportUnconfirmed(p)
                             \/ Renew(p) \/ StopSingle(p) \/ Crash(p)
         \/ Enable \/ Resume \/ Disable \/ ExpireLease

LSpec == LInit /\ [][LNext]_listenerVars

(* Each process runs its owner thread and a reconcile loop.                *)
LFairness == \A p \in Procs : /\ WF_listenerVars(OwnerStep(p))
                              /\ WF_listenerVars(StopSingle(p))

-----------------------------------------------------------------------------
(* Properties.                                                             *)

(* A message leaves the source only when its receipt is committed: lost    *)
(* acknowledgements, unknown commits, stop requests, fencing and crashes   *)
(* never drop one (take_custody and the ACK that follows it).              *)
AckAfterCustody == \A m \in Messages : broker[m] = "acked" => m \in custody

(* "stopped" is reported to the operator only after the native client of   *)
(* the last acquisition has closed; a client that is still open belongs to *)
(* an owner replaced after its lease ran out (disable_subscription,        *)
(* listener_closed: "Acknowledge actual native close").                    *)
StoppedMeansClosed ==
  connection = "stopped" =>
     \A p \in Procs : NativeOpen(p) => owner[p].gen < acquired

(* A pause for capacity resumes by itself: as long as no process crashed,  *)
(* the owner that reported it is still there to close and to leave the     *)
(* subscription reconnecting (record_rejection, then _finish_owner).       *)
CapacityPauseResumes ==
  (connection = "blocked" /\ lastError = Capacity /\ crashes = 0) =>
     \E p \in Procs : /\ owner[p].pc \in {"closing", "finishing",
                                          "failing", "unconfirmed"}
                      /\ owner[p].gen = lease.owner

(* Disabling completes: unless a process crashed or a close failed, every  *)
(* disable reaches "stopped" (fencing keeps the closing generation that    *)
(* the owner will acknowledge).                                            *)
StopCompletes ==
  (desired = "disabled") ~> \/ connection = "stopped"
                            \/ desired = "enabled"
                            \/ crashes > 0
                            \/ \E p \in Procs : owner[p].pc \in {"failing",
                                                                "unconfirmed"}
=============================================================================
