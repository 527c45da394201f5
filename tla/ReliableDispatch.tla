-------------------------- MODULE ReliableDispatch --------------------------
(***************************************************************************)
(* The dispatch path end to end: Outbox Relays of the Control processes,   *)
(* the Worker's quorum queue and the Infrastructure DLQ, the consumer      *)
(* tickets of the Worker, and ReliableControl as the authority they call.  *)
(* Every step here performs at most one Control transaction, so each       *)
(* behaviour is also one of ReliableControl; what is added is which calls  *)
(* really happen, in which order, and what is lost on the way.             *)
(*                                                                         *)
(* The Broker may deliver in any order, requeues what a dead connection    *)
(* leaves unacknowledged, and dead-letters a message at its delivery       *)
(* limit.  A message is identified by <<Execution, generation>>; the Relay *)
(* republishes a row under the same identity.                              *)
(***************************************************************************)
EXTENDS ReliableControl

CONSTANTS
    Tickets,     \* execution slots of the Worker, each with one SlotTicket
    MaxCopies,   \* bound of the model: copies of one message in the Broker
    NoMessage    \* what an idle Relay or ticket works on

Messages == Execs \X Gens

ASSUME DispatchAssumption ==
    /\ MaxCopies \in Nat \ {0}
    /\ NoMessage \notin Messages

VARIABLES
    relay,       \* per Relay: where _relay_once is, its row, the rows left
    ready,       \* copies of every message ready in the Worker queue
    dlq,         \* messages in the DLQ with their death reason
    ticket       \* per ticket: where _process_ticket is, message, attempt

transport == <<relay, ready, dlq, ticket>>

dvars == <<execution, attempt, slot, outbox, incident, admission, outstanding, guard,
           relay, ready, dlq, ticket>>

\* Where a ticket is while the Broker still holds its delivery unacknowledged.
Unacked == {"delivered", "execute", "journaled", "ack", "defer", "reject"}
\* Where a ticket is while it works for the Attempt it claimed.
Working == {"execute", "journaled", "acked", "running"}

DTypeOK ==
    /\ relay \in [Relays -> [pc: {"idle", "leased", "batch", "checked", "confirmed", "failed"},
                             cur: Messages \cup {NoMessage},
                             rest: SUBSET Messages]]
    /\ ready \in [Messages -> Nat]
    /\ dlq \in SUBSET (Messages \X Kinds)
    /\ ticket \in [Tickets -> [pc: {"free", "orphan", "acked", "running"} \cup Unacked,
                               msg: Messages \cup {NoMessage},
                               n: 0..MaxAttempts]]

FreeTicket == [pc |-> "free", msg |-> NoMessage, n |-> 0]
IdleRelay == [pc |-> "idle", cur |-> NoMessage, rest |-> {}]

DInit ==
    /\ Init
    /\ relay = [r \in Relays |-> IdleRelay]
    /\ ready = [m \in Messages |-> 0]
    /\ dlq = {}
    /\ ticket = [t \in Tickets |-> FreeTicket]

Holders(m) == {t \in Tickets : ticket[t].pc \in Unacked /\ ticket[t].msg = m}

DeadLettered(m) == \E k \in Kinds : <<m, k>> \in dlq

-----------------------------------------------------------------------------
(* The Outbox Relay.                                                       *)

\* A cycle that has rows left goes on, one that has none is over.
After(rest) ==
    IF rest = {} THEN IdleRelay ELSE [pc |-> "batch", cur |-> NoMessage, rest |-> rest]

RelayLease(r) ==
    /\ relay[r].pc = "idle"
    /\ \E batch \in SUBSET Messages :
          /\ LeaseDueOutbox(r, batch)
          /\ relay' = [relay EXCEPT ![r] =
                [pc |-> "leased", cur |-> NoMessage, rest |-> batch]]
    /\ UNCHANGED <<ready, dlq, ticket>>

\* The Execution's status is read in a transaction of its own: a cancelled
\* one has its rows settled, any other is published from here on without
\* looking at the database again.
RelayCheck(r) ==
    /\ relay[r].pc \in {"leased", "batch"}
    /\ \E m \in relay[r].rest :
          IF execution[m[1]].status = "cancelled"
          THEN /\ SettleCancelledOutbox(m[1])
               /\ relay' = [relay EXCEPT ![r] = After(@.rest \ {m})]
          ELSE /\ relay' = [relay EXCEPT ![r] =
                     [pc |-> "checked", cur |-> m, rest |-> @.rest \ {m}]]
               /\ UNCHANGED vars
    /\ UNCHANGED <<ready, dlq, ticket>>

Copies(m) ==
    ready[m] + Cardinality(Holders(m)) + Cardinality({k \in Kinds : <<m, k>> \in dlq})

\* The publisher confirm arrived.
RelayPublish(r) ==
    /\ relay[r].pc = "checked"
    /\ Copies(relay[r].cur) < MaxCopies
    /\ ready' = [ready EXCEPT ![relay[r].cur] = @ + 1]
    /\ relay' = [relay EXCEPT ![r].pc = "confirmed"]
    /\ UNCHANGED <<vars, dlq, ticket>>

\* Mutant: a publication that failed is taken for a confirmed one.
RelayAssumesConfirm(r) ==
    /\ relay[r].pc = "checked"
    /\ relay' = [relay EXCEPT ![r].pc = "confirmed"]
    /\ UNCHANGED <<vars, ready, dlq, ticket>>

\* The connection, the confirm or its deadline failed: the Broker may or may
\* not have the message, and the rest of the batch is given up with it.
RelayPublishFails(r) ==
    /\ relay[r].pc = "checked"
    /\ \/ ready' = ready
       \/ /\ Copies(relay[r].cur) < MaxCopies
          /\ ready' = [ready EXCEPT ![relay[r].cur] = @ + 1]
    /\ relay' = [relay EXCEPT ![r] =
          [pc |-> "failed", cur |-> NoMessage, rest |-> @.rest \cup {@.cur}]]
    /\ UNCHANGED <<vars, dlq, ticket>>

\* No connection or no topology: nothing of the batch was published.
RelayConnectFails(r) ==
    /\ relay[r].pc = "leased"
    /\ relay' = [relay EXCEPT ![r].pc = "failed"]
    /\ UNCHANGED <<vars, ready, dlq, ticket>>

\* mark_outbox_published does nothing when the row is no longer this Relay's.
RelayMark(r) ==
    LET m == relay[r].cur
    IN  /\ relay[r].pc = "confirmed"
        /\ IF Owns(r, m[1], m[2])
           THEN MarkOutboxPublished(r, m[1], m[2])
           ELSE UNCHANGED vars
        /\ relay' = [relay EXCEPT ![r] = After(@.rest)]
        /\ UNCHANGED <<ready, dlq, ticket>>

\* release_outbox_lease, for one row of a failed batch after the other.
RelayRelease(r) ==
    /\ relay[r].pc = "failed"
    /\ \E m \in relay[r].rest :
          /\ IF Owns(r, m[1], m[2])
             THEN ReleaseOutboxLease(r, m[1], m[2])
             ELSE UNCHANGED vars
          /\ relay' = [relay EXCEPT ![r] =
                IF @.rest = {m} THEN IdleRelay
                ELSE [pc |-> "failed", cur |-> NoMessage, rest |-> @.rest \ {m}]]
    /\ UNCHANGED <<ready, dlq, ticket>>

\* The cycle dies with an error or with its process; its leases stay.
RelayCrash(r) ==
    /\ relay[r].pc # "idle"
    /\ relay' = [relay EXCEPT ![r] = IdleRelay]
    /\ UNCHANGED <<vars, ready, dlq, ticket>>

-----------------------------------------------------------------------------
(* The Worker's tickets.                                                   *)

\* The Broker delivers a copy to the ticket's consumer, which cancels itself
\* and hands the delivery to a worker thread.
Deliver(t, m) ==
    /\ ticket[t].pc = "free"
    /\ ready[m] > 0
    /\ ready' = [ready EXCEPT ![m] = @ - 1]
    /\ ticket' = [ticket EXCEPT ![t] = [pc |-> "delivered", msg |-> m, n |-> 0]]
    /\ UNCHANGED <<vars, relay, dlq>>

\* Mutant: a redelivery of the running generation is executed again.
ClaimReplyAgain(m) ==
    IF execution[m[1]].gen = m[2] /\ execution[m[1]].status \in {"queued", "running"}
    THEN "execute"
    ELSE "ack"

\* Mutant: an answer that is none of a ticket's dispositions.
ClaimReplyUnknown(m) ==
    IF execution[m[1]].status = "queued" THEN "execute" ELSE "noop"

\* What claim_dispatch decides about the delivery of m, in the order of its
\* checks; "execute" carries the Attempt it creates.
ClaimReply(m) ==
    LET e == m[1]
        x == execution[e]
    IN  IF x.status = "absent" \/ m[2] > x.gen THEN "reject"
        ELSE IF m[2] < x.gen \/ x.status # "queued" THEN "ack"
        ELSE IF x.cancel_requested \/ Guarded(e) THEN "ack"
        ELSE IF SlotBusy(AdapterOf[e]) THEN "defer"
        ELSE IF x.attempt_count + 1 > MaxAttempts THEN "ack"
        ELSE "execute"

\* The transaction of a Claim for the delivery of m.
ClaimTransaction(m) ==
    LET e == m[1]
    IN  IF execution[e].status = "queued" /\ execution[e].gen = m[2] /\ ClaimReply(m) # "defer"
        THEN ClaimDispatch(e, m[2])
        ELSE UNCHANGED vars

\* claim_v3: the Claim transaction and its answer.
TicketClaim(t) ==
    LET m == ticket[t].msg
        reply == ClaimReply(m)
    IN  /\ ticket[t].pc = "delivered"
        /\ ClaimTransaction(m)
        /\ ticket' = [ticket EXCEPT ![t].pc = reply,
                                    ![t].n = IF reply = "execute"
                                             THEN execution[m[1]].attempt_count + 1
                                             ELSE 0]
        /\ UNCHANGED <<relay, ready, dlq>>

\* The Attempt journal is written before the delivery is acknowledged.
TicketJournal(t) ==
    /\ ticket[t].pc = "execute"
    /\ ticket' = [ticket EXCEPT ![t].pc = "journaled"]
    /\ UNCHANGED <<vars, relay, ready, dlq>>

\* A snapshot, budget or journal problem is reported; the delivery is
\* acknowledged once Control has taken the report or already ended the Attempt.
TicketPrepareFailed(t) ==
    LET e == ticket[t].msg[1]
        n == ticket[t].n
    IN  /\ ticket[t].pc = "execute"
        /\ IF Active(e, n)
           THEN PrepareFailed(e, n, "failed_transient")
           ELSE UNCHANGED vars
        /\ ticket' = [ticket EXCEPT ![t].pc = "ack"]
        /\ UNCHANGED <<relay, ready, dlq>>

\* The disposition is sent in the ticket's own epoch.  lost: the connection
\* died before the Broker saw it, so the Broker requeues the delivery.
TicketSend(t, lost) ==
    LET m == ticket[t].msg
        requeue == lost \/ ticket[t].pc = "defer"
        reject == ~ lost /\ ticket[t].pc = "reject" /\ "rejected" \in Kinds
    IN  /\ ticket[t].pc \in {"ack", "defer", "reject", "journaled"}
        /\ ready' = IF requeue THEN [ready EXCEPT ![m] = @ + 1] ELSE ready
        /\ dlq' = IF reject THEN dlq \cup {<<m, "rejected">>} ELSE dlq
        /\ ticket' = [ticket EXCEPT ![t] =
              IF @.pc = "journaled" THEN [@ EXCEPT !.pc = "acked"] ELSE FreeTicket]
        /\ UNCHANGED <<vars, relay>>

\* Mutant: deliveries are consumed with automatic acknowledgement.
TicketFaultAutoAck(t) ==
    /\ ticket[t].pc \in Unacked
    /\ ticket' = [ticket EXCEPT ![t] = FreeTicket]
    /\ UNCHANGED <<vars, relay, ready, dlq>>

\* A dead connection or a Worker crash: the delivery goes back to the queue,
\* or to the DLQ when it has reached its delivery limit.  The ticket is free
\* again, or a request its thread has made of Control is still on the way.
TicketFault(t) ==
    LET m == ticket[t].msg
    IN  /\ ticket[t].pc \in Unacked
        /\ \/ /\ ready' = [ready EXCEPT ![m] = @ + 1]
              /\ UNCHANGED dlq
           \/ /\ "delivery_limit" \in Kinds
              /\ dlq' = dlq \cup {<<m, "delivery_limit">>}
              /\ UNCHANGED ready
        /\ \/ ticket' = [ticket EXCEPT ![t] = FreeTicket]
           \/ /\ ticket[t].pc \in {"delivered", "execute"}
              /\ ticket' = [ticket EXCEPT ![t].pc = "orphan"]
        /\ UNCHANGED <<vars, relay>>

\* The Claim, or the report of a failed preparation, of a ticket whose delivery
\* is no longer its own.  No answer is acted upon.
TicketLateRequest(t) ==
    LET m == ticket[t].msg
        n == ticket[t].n
    IN  /\ ticket[t].pc = "orphan"
        /\ IF n = 0 THEN ClaimTransaction(m)
           ELSE IF MayReport(m[1], n) THEN PrepareFailed(m[1], n, "failed_transient")
           ELSE UNCHANGED vars
        /\ ticket' = [ticket EXCEPT ![t] = FreeTicket]
        /\ UNCHANGED <<relay, ready, dlq>>

\* A copy ends in the DLQ for another reason than its delivery limit: it went
\* to a Worker that is not its target, which rejects it, or the queue dropped it.
BrokerDeadLetter(m) ==
    /\ ready[m] > 0
    /\ "rejected" \in Kinds
    /\ ready' = [ready EXCEPT ![m] = @ - 1]
    /\ dlq' = dlq \cup {<<m, "rejected">>}
    /\ UNCHANGED <<vars, relay, ticket>>

\* Only Control authorises the Adapter's side effects; any other answer than
\* started leaves the Attempt to lease recovery.
TicketStart(t) ==
    LET e == ticket[t].msg[1]
        n == ticket[t].n
    IN  /\ ticket[t].pc = "acked"
        /\ IF MayReport(e, n)
           THEN StartAttempt(e, n)
           ELSE UNCHANGED vars
        /\ ticket' = [ticket EXCEPT ![t] =
              IF MayReport(e, n) /\ ~ execution[e].cancel_requested
              THEN [@ EXCEPT !.pc = "running"]
              ELSE FreeTicket]
        /\ UNCHANGED <<relay, ready, dlq>>

TicketRenew(t) ==
    /\ ticket[t].pc = "running"
    /\ RenewAttempt(ticket[t].msg[1], ticket[t].n)
    /\ UNCHANGED transport

TicketReplaceCache(t) ==
    /\ ticket[t].pc = "running"
    /\ AcquireReplacementGuard(ticket[t].msg[1], ticket[t].n)
    /\ UNCHANGED transport

\* Mutant: a result is accepted although the lease has run out.
TicketFinishLate(t, r) ==
    LET e == ticket[t].msg[1]
        n == ticket[t].n
    IN  /\ ticket[t].pc = "running"
        /\ IF Active(e, n) THEN ApplyTerminal(e, n, r) ELSE UNCHANGED vars
        /\ ticket' = [ticket EXCEPT ![t] = FreeTicket]
        /\ UNCHANGED <<relay, ready, dlq>>

\* The result is reported, or refused because the lease ran out meanwhile.  A
\* Worker reports a cancellation only when Control asked for one.
TicketFinish(t, r) ==
    LET e == ticket[t].msg[1]
        n == ticket[t].n
    IN  /\ ticket[t].pc = "running"
        /\ r = "cancelled" => execution[e].cancel_requested
        /\ IF MayReport(e, n)
           THEN FinishAttempt(e, n, r)
           ELSE UNCHANGED vars
        /\ ticket' = [ticket EXCEPT ![t] = FreeTicket]
        /\ UNCHANGED <<relay, ready, dlq>>

\* Ownership lost, a lost answer, a Worker stop or crash after the ACK:
\* nothing is reported.
TicketAbandon(t) ==
    /\ ticket[t].pc \in {"acked", "running"}
    /\ ticket' = [ticket EXCEPT ![t] = FreeTicket]
    /\ UNCHANGED <<vars, relay, ready, dlq>>

-----------------------------------------------------------------------------
(* The Infrastructure DLQ.                                                 *)

\* drain_once: the message is acknowledged after the commit.  It stays when
\* that ACK is lost, or when another copy of it died for the same reason.
DrainDlq(m, k, acked) ==
    /\ <<m, k>> \in dlq
    /\ ReconcileDeadLetter(m[1], m[2], k)
    /\ dlq' = IF acked THEN dlq \ {<<m, k>>} ELSE dlq
    /\ UNCHANGED <<relay, ready, ticket>>

-----------------------------------------------------------------------------
(* Transactions that need no message: callers, timers, reconciler, operator. *)

ControlStep ==
    /\ \/ \E e \in Execs : AcceptExecution(e) \/ RetryDispatch(e) \/ CancelExecution(e)
       \/ \E e \in Execs, g \in Gens : OutboxLeaseExpire(e, g)
       \/ \E e \in Execs, n \in Attempts :
             AttemptLeaseTick(e, n) \/ RecoverExpiredAttempt(e, n)
       \/ \E e \in Execs, i \in Gens \X Kinds :
             \/ CloseSettledIncident(e, i)
             \/ TerminateIncident(e, i)
             \/ RecoverPendingDispatch(e, i)
             \/ RecoverPublishedDispatch(e, i)
       \/ \E a \in Adapters : AcquireGcGuard(a) \/ FinishGuard(a)
    /\ UNCHANGED transport

DNext ==
    \/ ControlStep
    \/ \E r \in Relays :
         \/ RelayLease(r)
         \/ RelayCheck(r)
         \/ RelayPublish(r)
         \/ RelayPublishFails(r)
         \/ RelayConnectFails(r)
         \/ RelayMark(r)
         \/ RelayRelease(r)
         \/ RelayCrash(r)
    \/ \E t \in Tickets :
         \/ \E m \in Messages : Deliver(t, m)
         \/ TicketClaim(t)
         \/ TicketJournal(t)
         \/ TicketPrepareFailed(t)
         \/ \E lost \in BOOLEAN : TicketSend(t, lost)
         \/ TicketFault(t)
         \/ TicketLateRequest(t)
         \/ TicketStart(t)
         \/ TicketRenew(t)
         \/ TicketReplaceCache(t)
         \/ \E r \in Reports : TicketFinish(t, r)
         \/ TicketAbandon(t)
    \/ \E m \in Messages : BrokerDeadLetter(m)
    \/ \E m \in Messages, k \in Kinds, acked \in BOOLEAN : DrainDlq(m, k, acked)

DSpec == DInit /\ [][DNext]_dvars

-----------------------------------------------------------------------------
(* Correctness.                                                            *)

InTransit(m) == ready[m] > 0 \/ Holders(m) # {} \/ DeadLettered(m)

\* No accepted work is lost between PostgreSQL and RabbitMQ.  A queued
\* Execution's current generation is always somebody's responsibility: its row
\* is pending, or a copy of its message is in the queue, with a ticket or in
\* the DLQ, or an operator has an open Incident of that generation.
NoLostDispatch ==
    \A e \in Execs : execution[e].status = "queued" =>
       LET g == execution[e].gen
       IN  \/ outbox[e][g].status = "pending"
           \/ InTransit(<<e, g>>)
           \/ \E k \in Kinds : incident[e][<<g, k>>] \in {"open", "terminating"}

\* The same up to a closed Incident: once an operator has recovered or closed
\* one, the dispatch is at least on record with an Incident of the current
\* generation, which dispose_incident accepts again whatever its status.
DispatchAccounted ==
    \A e \in Execs : execution[e].status = "queued" =>
       LET g == execution[e].gen
       IN  \/ outbox[e][g].status = "pending"
           \/ InTransit(<<e, g>>)
           \/ \E k \in Kinds : incident[e][<<g, k>>] # "absent"

\* However often a message is duplicated or redelivered, an Attempt belongs to
\* one ticket, and a ticket runs the Adapter only for an Attempt that Control
\* started (_process_ticket, _run_attempt).
OneTicketPerAttempt ==
    \A t \in Tickets : ticket[t].pc \in Working =>
       /\ attempt[ticket[t].msg[1]][ticket[t].n].status # "absent"
       /\ ticket[t].pc = "running" =>
             attempt[ticket[t].msg[1]][ticket[t].n].status \in {"running"} \cup Results
       /\ \A u \in Tickets \ {t} :
             ticket[u].pc \in Working =>
                <<ticket[u].msg[1], ticket[u].n>> # <<ticket[t].msg[1], ticket[t].n>>

\* The composition only ever makes the transactions of ReliableControl, so all
\* that holds of them holds of the whole dispatch path.
ImplementsControl == Spec

-----------------------------------------------------------------------------
(* Progress.  The Relay loop, the reconcilers and the Worker's threads keep  *)
(* running, leases run out, a Worker ends what it started within its time    *)
(* limit and ends the cache operations it began (weak fairness).  Processes  *)
(* and connections may fail any number of times, but not for ever: some      *)
(* retry has an undisturbed run.  Callers, operators and heartbeats are not  *)
(* assumed to do anything.                                                   *)

RelayStep(r) ==
    RelayLease(r) \/ RelayCheck(r) \/ RelayPublish(r) \/ RelayMark(r) \/ RelayRelease(r)

TicketStep(t) ==
    \/ \E m \in Messages : Deliver(t, m)
    \/ TicketClaim(t)
    \/ TicketJournal(t)
    \/ TicketSend(t, FALSE)
    \/ TicketLateRequest(t)
    \/ TicketStart(t)
    \/ \E r \in Reports : TicketFinish(t, r)

Failure ==
    \/ \E r \in Relays : RelayCrash(r) \/ RelayConnectFails(r) \/ RelayPublishFails(r)
    \/ \E t \in Tickets : TicketFault(t) \/ TicketAbandon(t) \/ TicketSend(t, TRUE)

Fairness ==
    /\ WF_dvars(UNCHANGED transport /\ \E e \in Execs, g \in Gens : OutboxLeaseExpire(e, g))
    /\ WF_dvars(UNCHANGED transport /\ \E e \in Execs, n \in Attempts : AttemptLeaseTick(e, n))
    /\ WF_dvars(UNCHANGED transport /\ \E e \in Execs, n \in Attempts : RecoverExpiredAttempt(e, n))
    /\ WF_dvars(UNCHANGED transport /\ \E e \in Execs : RetryDispatch(e))
    /\ WF_dvars(UNCHANGED transport /\ \E a \in Adapters : FinishGuard(a))
    /\ \A r \in Relays : WF_dvars(RelayStep(r))
    /\ \A t \in Tickets : WF_dvars(TicketStep(t))
    /\ <>[][~ Failure]_dvars

FairSpec == DSpec /\ Fairness

\* Every accepted Execution ends, through lost messages, duplicated deliveries,
\* Relay and Worker crashes and expired leases (recover_expired_attempts,
\* retry_dispatcher_once, the Relay's republication).
EveryExecutionEnds ==
    \A e \in Execs : execution[e].status = "queued" ~> execution[e].status \in Terminal

\* A running Execution that was asked to cancel is cancelled in the end, even
\* when its Worker is gone and only lease recovery is left to do it.
CancellationEnds ==
    \A e \in Execs : execution[e].cancel_requested ~> execution[e].status = "cancelled"
=============================================================================
