--------------------------- MODULE WorkerConsumer ---------------------------
(***************************************************************************)
(* Connection epochs, slot tickets and pool threads of the Worker's        *)
(* V3Consumer (worker/consumer.py): the I/O thread that runs one connection*)
(* after another, the callbacks other threads hand to its loop, and the    *)
(* threads that work on delivered dispatches.  What Control answers to a   *)
(* Claim and what an Attempt does is in ReliableDispatch.                  *)
(*                                                                         *)
(* A ticket is a slot and one of two names, so that a second ticket of a   *)
(* slot could be told from the first; a name is used again once nothing    *)
(* works on it, and a completion that is still scheduled for the ticket it *)
(* named before is "late" then.  Of an epoch number only the comparison    *)
(* with the current one is kept (own).  The fields of a callback are bound *)
(* when it is scheduled, and a closed loop drops its callbacks.            *)
(***************************************************************************)
EXTENDS Integers, FiniteSets

CONSTANT Slots   \* execution_slots

TicketIds == Slots \X {1, 2}

VARIABLES halting,   \* _stop
          epoch,     \* _active_epoch, with its connection and loop
          tickets,   \* SlotTicket objects
          current,   \* _tickets: the ticket in each slot, 0 for none
          works,     \* pool threads, by the ticket they work on
          callbacks, \* scheduled with add_callback_threadsafe
          unacked    \* deliveries the Broker holds unacknowledged, by ticket

consumerVars == <<halting, epoch, tickets, current, works, callbacks, unacked>>

NoEpoch == [phase |-> "none", faulted |-> FALSE, aborting |-> FALSE,
            terminated |-> FALSE, failed |-> FALSE, loop |-> "none"]
Unused == [phase |-> "unused", own |-> FALSE, sent |-> FALSE, done |-> FALSE]

SlotTicket == [phase : {"unused", "receiving", "cancelling", "working"},
               own : BOOLEAN, sent : BOOLEAN, done : BOOLEAN]

Epoch == [phase : {"none", "created", "connecting", "ready"},
          faulted : BOOLEAN, aborting : BOOLEAN, terminated : BOOLEAN,
          failed : BOOLEAN, loop : {"none", "run", "exited", "over"}]

WTypeOK ==
  /\ halting \in BOOLEAN
  /\ epoch \in Epoch
  /\ tickets \in [TicketIds -> SlotTicket]
  /\ current \in [Slots -> 0..2]
  /\ works \in [TicketIds -> {"none", "claiming", "disposing", "preparing",
                              "running"}]
  /\ callbacks \subseteq [kind : {"send", "complete", "late"}, ticket : TicketIds]
  /\ unacked \subseteq TicketIds

WInit(stopped) ==
  /\ halting = stopped /\ epoch = NoEpoch
  /\ tickets = [t \in TicketIds |-> Unused]
  /\ current = [s \in Slots |-> 0]
  /\ works = [t \in TicketIds |-> "none"]
  /\ callbacks = {} /\ unacked = {}

-----------------------------------------------------------------------------
(* Helpers of the I/O thread.                                              *)

InTable(t) == current[t[1]] = t[2]
EpochCurrent == epoch.phase # "none" /\ ~epoch.faulted
LoopRuns == epoch.loop = "run"

CanContinue(t) == /\ ~halting /\ EpochCurrent
                  /\ tickets[t].own /\ InTable(t)
                  /\ tickets[t].phase = "working"

(* A name nothing refers to any more.                                      *)
Nameless(t) == ~InTable(t) /\ works[t] = "none"

(* Mutant: a ticket of an ended epoch is freed although its thread works.  *)
CompletedWithEpoch(t, gone) == InTable(t) /\ (tickets[t].done \/ gone)

(* Mutant: only the tickets of the current connection are looked at.       *)
CompletedOfEpoch(t, gone) == /\ InTable(t) /\ tickets[t].done /\ tickets[t].own
                             /\ tickets[t].sent \/ gone

(* _release_completed_tickets_io: the work has ended and its delivery is   *)
(* settled or was lost with its transport.                                 *)
Completed(t, gone) == /\ InTable(t) /\ tickets[t].done
                      /\ tickets[t].sent \/ ~tickets[t].own \/ gone

(* A callback that is still scheduled for a released ticket keeps it: the  *)
(* completion may report an exception and looks for completed tickets.     *)
KeepsReleased(scheduled, freed) ==
  {IF c.ticket \in freed THEN [c EXCEPT !.kind = "late"] ELSE c : c \in scheduled}

(* The tickets in freed leave the table; when may holds, every free slot   *)
(* gets a new one (_replenish_consumers).                                  *)
FreeAndReplenish(freed, may) ==
  LET stays(s) == current[s] # 0 /\ <<s, current[s]>> \notin freed
      name(s) == CHOOSE n \in {1, 2} :
                   <<s, n>> \in freed \/ Nameless(<<s, n>>)
  IN /\ current' = [s \in Slots |-> CASE stays(s) -> current[s]
                                      [] ~stays(s) /\ may -> name(s)
                                      [] OTHER -> 0]
     /\ tickets' = [t \in TicketIds |->
          IF may /\ ~stays(t[1]) /\ t[2] = name(t[1])
          THEN [Unused EXCEPT !.phase = "receiving", !.own = TRUE]
          ELSE IF t \in freed \/ Nameless(t) THEN Unused ELSE tickets[t]]

MayReplenish == EpochCurrent /\ ~halting /\ epoch.phase = "ready"

(* Mutant: the epoch is marked and its stream stays open.                  *)
FaultWithoutAbort ==
  /\ epoch' = [epoch EXCEPT !.faulted = TRUE]
  /\ UNCHANGED halting

(* _fault_epoch: the stream is aborted once; if even that fails the        *)
(* consumer stops and never reconnects.                                    *)
FaultEpoch ==
  IF epoch.terminated \/ epoch.aborting
  THEN UNCHANGED <<epoch, halting>>
  ELSE \/ /\ epoch.phase # "created"
          /\ epoch' = [epoch EXCEPT !.faulted = TRUE, !.aborting = TRUE]
          /\ UNCHANGED halting
       \/ /\ epoch' = [epoch EXCEPT !.faulted = TRUE, !.failed = TRUE,
                                    !.loop = "exited"]
          /\ halting' = TRUE

-----------------------------------------------------------------------------
(* The I/O thread: run, its connections and their callbacks.               *)

(* _open_epoch: the epoch is active before it has a connection.            *)
OpenEpoch ==
  /\ epoch.phase = "none" /\ ~halting
  /\ epoch' = [NoEpoch EXCEPT !.phase = "created", !.loop = "exited"]
  /\ tickets' = [t \in TicketIds |-> [tickets[t] EXCEPT !.own = FALSE]]
  /\ UNCHANGED <<halting, current, works, callbacks, unacked>>

ConnectionMade ==
  /\ epoch.phase = "created" /\ ~epoch.failed
  /\ epoch' = [epoch EXCEPT !.phase = "connecting", !.loop = "run"]
  /\ UNCHANGED <<halting, tickets, current, works, callbacks, unacked>>

(* _on_connection_open, _on_channel_open, _on_qos_ok.                      *)
QosOk ==
  /\ epoch.phase = "connecting" /\ LoopRuns /\ EpochCurrent
  /\ epoch' = [epoch EXCEPT !.phase = "ready"]
  /\ LET freed == {t \in TicketIds : Completed(t, FALSE)}
     IN /\ FreeAndReplenish(freed, ~halting)
        /\ callbacks' = KeepsReleased(callbacks, freed)
  /\ UNCHANGED <<halting, works, unacked>>

(* _on_delivery: the consumer has one delivery and cancels itself.         *)
OnDelivery(t) ==
  /\ LoopRuns /\ EpochCurrent /\ ~halting
  /\ InTable(t) /\ tickets[t].own /\ tickets[t].phase = "receiving"
  /\ tickets' = [tickets EXCEPT ![t].phase = "cancelling"]
  /\ unacked' = unacked \cup {t}
  /\ UNCHANGED <<halting, epoch, current, works, callbacks>>

(* _on_cancel_ok: only now the work is given to the pool.                  *)
OnCancelOk(t) ==
  /\ LoopRuns /\ EpochCurrent
  /\ InTable(t) /\ tickets[t].own /\ tickets[t].phase = "cancelling"
  /\ tickets' = [tickets EXCEPT ![t].phase = "working"]
  /\ works' = [works EXCEPT ![t] = "claiming"]
  /\ UNCHANGED <<halting, epoch, current, callbacks, unacked>>

(* Registration, handshake and set-up deadlines, a Broker's cancel, a      *)
(* closed channel, an operation that raises; and the faults that threads   *)
(* request with a callback (_request_fault, request_stop).                 *)
TransportFault ==
  /\ LoopRuns /\ EpochCurrent
  /\ FaultEpoch
  /\ UNCHANGED <<tickets, current, works, callbacks, unacked>>

(* _handshake_timeout: the delivery was not settled within its deadline.   *)
HandshakeTimeout(t) ==
  /\ tickets[t].phase \in {"cancelling", "working"} /\ ~tickets[t].sent
  /\ InTable(t) /\ tickets[t].own
  /\ TransportFault

(* _on_connection_closed, _on_connection_open_error: the Broker takes back *)
(* what this connection had not settled.                                   *)
ConnectionClosed ==
  /\ LoopRuns /\ ~epoch.terminated
  /\ epoch' = [epoch EXCEPT !.faulted = TRUE, !.aborting = TRUE,
                            !.terminated = TRUE, !.loop = "exited"]
  /\ LET freed == {t \in TicketIds : Completed(t, TRUE)}
     IN /\ FreeAndReplenish(freed, FALSE)
        /\ callbacks' = KeepsReleased(callbacks, freed)
  /\ unacked' = {}
  /\ UNCHANGED <<halting, works>>

(* The abort deadline, or an exception that leaves the loop.               *)
LoopExits ==
  /\ LoopRuns
  /\ epoch' = [epoch EXCEPT !.loop = "exited"]
  /\ UNCHANGED <<halting, tickets, current, works, callbacks, unacked>>

(* complete(): work that ended without a disposition, or by an exception,  *)
(* faults its epoch.                                                       *)
Unsettled(c, raised) ==
  IF c.kind = "late" THEN raised
  ELSE tickets[c.ticket].own /\ (raised \/ ~tickets[c.ticket].sent)

(* A scheduled callback runs: send or complete.                            *)
RunCallback(c) ==
  /\ LoopRuns /\ c \in callbacks
  /\ CASE c.kind = "send" /\ CanContinue(c.ticket) ->
            \/ /\ tickets' = [tickets EXCEPT ![c.ticket].sent = TRUE]
               /\ unacked' = unacked \ {c.ticket}
               /\ callbacks' = callbacks \ {c}
               /\ UNCHANGED <<halting, epoch, current>>
            \/ /\ FaultEpoch /\ callbacks' = callbacks \ {c}
               /\ UNCHANGED <<tickets, current, unacked>>
       [] c.kind = "send" /\ ~CanContinue(c.ticket) ->
            /\ callbacks' = callbacks \ {c}
            /\ UNCHANGED <<halting, epoch, tickets, current, unacked>>
       [] OTHER ->
            /\ \E raised \in BOOLEAN :
                 IF Unsettled(c, raised) THEN FaultEpoch
                 ELSE UNCHANGED <<epoch, halting>>
            /\ LET freed == {t \in TicketIds : Completed(t, epoch.terminated)}
               IN /\ FreeAndReplenish(freed, freed # {} /\ MayReplenish
                                             /\ ~epoch'.faulted)
                  /\ callbacks' = KeepsReleased(callbacks \ {c}, freed)
            /\ UNCHANGED unacked
  /\ UNCHANGED works

(* _finalize_epoch releases what the Broker owns again: tickets without    *)
(* work and work that has ended; other work keeps its slot.                *)
Finalized(t) == /\ InTable(t) /\ tickets[t].own
                /\ tickets[t].phase = "working" => tickets[t].done

(* _close_epoch_after_loop: abort if nobody did, drive the loop until the  *)
(* transport has gone, and only then forget the epoch.                     *)
CloseEpoch ==
  /\ epoch.phase # "none" /\ epoch.loop = "exited"
  /\ \/ /\ epoch.terminated \/ (~epoch.failed /\ epoch.phase # "created")
        /\ epoch' = NoEpoch
        /\ FreeAndReplenish({t \in TicketIds :
                               Finalized(t) \/ Completed(t, TRUE)}, FALSE)
        /\ unacked' = {} /\ callbacks' = {}
        /\ UNCHANGED halting
     \/ /\ ~epoch.terminated
        /\ epoch' = [epoch EXCEPT !.faulted = TRUE, !.failed = TRUE,
                                  !.loop = "over"]
        /\ halting' = TRUE
        /\ UNCHANGED <<tickets, current, unacked, callbacks>>
  /\ UNCHANGED works

-----------------------------------------------------------------------------
(* The pool threads: _process_ticket and its completion.                   *)

Schedules(c) ==
  IF epoch.phase \in {"connecting", "ready"}
  THEN callbacks' = callbacks \cup {c} ELSE UNCHANGED callbacks

(* The thread asks for a disposition, and waits until it was sent or the   *)
(* deadline has passed.                                                    *)
AskDisposition(t) ==
  /\ works[t] = "claiming" /\ CanContinue(t)
  /\ \E pc \in {"disposing", "preparing"} : works' = [works EXCEPT ![t] = pc]
  /\ Schedules([kind |-> "send", ticket |-> t])
  /\ UNCHANGED <<halting, epoch, tickets, current, unacked>>

(* An EXECUTE whose ACK was sent runs its Attempt.                         *)
RunAttempt(t) ==
  /\ works[t] = "preparing" /\ tickets[t].sent /\ CanContinue(t)
  /\ works' = [works EXCEPT ![t] = "running"]
  /\ UNCHANGED <<halting, epoch, tickets, current, callbacks, unacked>>

(* _complete_ticket: the end of the thread is noted under the state lock,  *)
(* then handed to the loop of whatever epoch is active.                    *)
CompleteTicket(t) ==
  /\ works[t] # "none"
  /\ works' = [works EXCEPT ![t] = "none"]
  /\ tickets' = [tickets EXCEPT ![t].done = TRUE]
  /\ Schedules([kind |-> "complete", ticket |-> t])
  /\ UNCHANGED <<halting, epoch, current, unacked>>

(* _fail_closed_from_worker: the loop takes no callback.                   *)
FailClosed(t) ==
  /\ works[t] # "none" /\ epoch.phase \in {"connecting", "ready"}
  /\ epoch' = [epoch EXCEPT !.faulted = TRUE, !.failed = TRUE]
  /\ halting' = TRUE
  /\ UNCHANGED <<tickets, current, works, callbacks, unacked>>

RequestStop ==
  /\ ~halting
  /\ halting' = TRUE
  /\ UNCHANGED <<epoch, tickets, current, works, callbacks, unacked>>

-----------------------------------------------------------------------------
WNext ==
  \/ OpenEpoch \/ ConnectionMade \/ QosOk \/ TransportFault
  \/ ConnectionClosed \/ LoopExits \/ CloseEpoch \/ RequestStop
  \/ \E t \in TicketIds :
       \/ OnDelivery(t) \/ OnCancelOk(t) \/ HandshakeTimeout(t)
       \/ AskDisposition(t) \/ RunAttempt(t) \/ CompleteTicket(t) \/ FailClosed(t)
  \/ \E c \in callbacks : RunCallback(c)

WSpec == (\E stopped \in BOOLEAN : WInit(stopped)) /\ [][WNext]_consumerVars

(* The loop runs its callbacks and its deadlines (to set a connection up,  *)
(* to settle a delivery, to end an aborted stream), run reconnects, and a  *)
(* thread ends: the Claim has a deadline and an Attempt its time limit.    *)
WFairness ==
  /\ WF_consumerVars(OpenEpoch \/ ConnectionMade \/ CloseEpoch)
  /\ WF_consumerVars(epoch.phase = "connecting" /\ (QosOk \/ ConnectionClosed))
  /\ WF_consumerVars(epoch.aborting /\ (ConnectionClosed \/ LoopExits))
  /\ \A t \in TicketIds :
       /\ WF_consumerVars(OnCancelOk(t) \/ HandshakeTimeout(t))
       /\ WF_consumerVars(CompleteTicket(t))
       /\ WF_consumerVars(\E c \in callbacks : c.ticket = t /\ RunCallback(c))

-----------------------------------------------------------------------------
(* A slot is never given away while its thread works: whatever epochs come *)
(* and go, the thread's ticket stays in the table, so the Worker runs at   *)
(* most execution_slots Attempts.                                          *)
SlotNotReused == \A t \in TicketIds : works[t] # "none" => InTable(t)

(* The slots are alike: what holds of one holds of all.                    *)
ASlot == CHOOSE s \in Slots : TRUE

(* A slot is never lost: when its work has ended it is freed, even if its  *)
(* connection ended first or the completion met a closing loop.            *)
SlotReturns ==
  (current[ASlot] # 0 /\ tickets[<<ASlot, current[ASlot]>>].done) ~>
     \/ halting \/ current[ASlot] = 0 \/ ~tickets[<<ASlot, current[ASlot]>>].done

(* A delivery is never stranded: it is settled or goes back to the Broker  *)
(* with its connection, although the thread that answers for it may die,   *)
(* give up or come too late.                                               *)
DeliverySettles ==
  (\E n \in {1, 2} : <<ASlot, n>> \in unacked) ~>
     (halting \/ \A n \in {1, 2} : <<ASlot, n>> \notin unacked)
=============================================================================
