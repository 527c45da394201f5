------------------------ MODULE WorkerConsumer_proofs ------------------------
(***************************************************************************)
(* Proofs about WorkerConsumer, for any number of slots.                   *)
(***************************************************************************)
EXTENDS WorkerConsumer, TLAPS

(* A ticket that is worked on, and only such a one, has a thread or had    *)
(* one; only a ticket without a thread is marked done.                     *)
ThreadsMatch ==
  \A t \in TicketIds :
    /\ works[t] # "none" => tickets[t].phase = "working" /\ ~tickets[t].done
    /\ tickets[t].done => tickets[t].phase = "working"

(* The inductive invariant.                                                *)
WInv == WTypeOK /\ SlotNotReused /\ ThreadsMatch

-----------------------------------------------------------------------------
(* Writes to a slot ticket.                                                *)
LEMMA TicketWrites ==
  ASSUME NEW r \in SlotTicket
  PROVE  /\ Unused \in SlotTicket
         /\ [Unused EXCEPT !.phase = "receiving", !.own = TRUE] \in SlotTicket
         /\ [r EXCEPT !.own = FALSE] \in SlotTicket
         /\ [r EXCEPT !.sent = TRUE] \in SlotTicket
         /\ [r EXCEPT !.done = TRUE] \in SlotTicket
         /\ [r EXCEPT !.phase = "cancelling"] \in SlotTicket
         /\ [r EXCEPT !.phase = "working"] \in SlotTicket
<1>1. Unused \in SlotTicket
  BY DEF SlotTicket, Unused
<1>2. [Unused EXCEPT !.phase = "receiving", !.own = TRUE] \in SlotTicket
  BY DEF SlotTicket, Unused
<1>3. [r EXCEPT !.own = FALSE] \in SlotTicket
  BY DEF SlotTicket
<1>4. [r EXCEPT !.sent = TRUE] \in SlotTicket
  BY DEF SlotTicket
<1>5. [r EXCEPT !.done = TRUE] \in SlotTicket
  BY DEF SlotTicket
<1>6. /\ [r EXCEPT !.phase = "cancelling"] \in SlotTicket
      /\ [r EXCEPT !.phase = "working"] \in SlotTicket
  BY DEF SlotTicket
<1>. QED  BY <1>1, <1>2, <1>3, <1>4, <1>5, <1>6

(* The release of tickets without a thread, and the tickets that take      *)
(* their slots.                                                            *)
LEMMA Releasing ==
  ASSUME WInv, NEW freed \in SUBSET TicketIds, NEW may \in BOOLEAN,
         \A t \in freed : InTable(t) /\ works[t] = "none",
         FreeAndReplenish(freed, may)
  PROVE  /\ current' \in [Slots -> 0..2]
         /\ tickets' \in [TicketIds -> SlotTicket]
         /\ \A t \in TicketIds : works[t] # "none" =>
              current'[t[1]] = t[2] /\ tickets'[t] = tickets[t]
         /\ \A t \in TicketIds : tickets'[t].done => tickets'[t].phase = "working"
<1>. DEFINE stays(s) == current[s] # 0 /\ <<s, current[s]>> \notin freed
            names(s) == {n \in {1, 2} : <<s, n>> \in freed \/ Nameless(<<s, n>>)}
            name(s) == CHOOSE n \in {1, 2} :
                         <<s, n>> \in freed \/ Nameless(<<s, n>>)
<1>1. current' = [s \in Slots |-> CASE stays(s) -> current[s]
                                    [] ~stays(s) /\ may -> name(s)
                                    [] OTHER -> 0]
  BY DEF FreeAndReplenish
<1>2. tickets' = [t \in TicketIds |->
          IF may /\ ~stays(t[1]) /\ t[2] = name(t[1])
          THEN [Unused EXCEPT !.phase = "receiving", !.own = TRUE]
          ELSE IF t \in freed \/ Nameless(t) THEN Unused ELSE tickets[t]]
  BY DEF FreeAndReplenish
<1>3. ASSUME NEW s \in Slots, ~stays(s)
      PROVE  name(s) \in {1, 2}
  <2>1. \E n \in {1, 2} : <<s, n>> \in freed \/ Nameless(<<s, n>>)
    BY <1>3 DEF WInv, WTypeOK, SlotNotReused, TicketIds, InTable, Nameless
  <2>. QED  BY <2>1
<1>4. current' \in [Slots -> 0..2]
  <2>1. ASSUME NEW s \in Slots PROVE current'[s] \in 0..2
    <3>1. CASE stays(s)
      BY <1>1, <3>1 DEF WInv, WTypeOK
    <3>2. CASE ~stays(s) /\ may
      BY <1>1, <1>3, <3>2
    <3>3. CASE ~stays(s) /\ ~may
      BY <1>1, <3>3
    <3>. QED  BY <3>1, <3>2, <3>3
  <2>2. current' = [s \in Slots |-> current'[s]]
    BY <1>1
  <2>. QED  BY <2>1, <2>2
<1>5. tickets' \in [TicketIds -> SlotTicket]
  <2>1. ASSUME NEW t \in TicketIds PROVE tickets'[t] \in SlotTicket
    BY <1>2, TicketWrites DEF WInv, WTypeOK
  <2>2. tickets' = [t \in TicketIds |-> tickets'[t]]
    BY <1>2
  <2>. QED  BY <2>1, <2>2
<1>6. ASSUME NEW t \in TicketIds, works[t] # "none"
      PROVE  current'[t[1]] = t[2] /\ tickets'[t] = tickets[t]
  <2>1. t[1] \in Slots /\ t = <<t[1], t[2]>> /\ t[2] # 0
    BY DEF TicketIds
  <2>2. InTable(t) /\ t \notin freed
    BY <1>6 DEF WInv, SlotNotReused
  <2>3. stays(t[1])
    BY <2>1, <2>2 DEF InTable
  <2>. QED  BY <1>1, <1>2, <1>6, <2>1, <2>2, <2>3 DEF InTable, Nameless
<1>7. ASSUME NEW t \in TicketIds, tickets'[t].done
      PROVE  tickets'[t].phase = "working"
  BY <1>2, <1>7 DEF Unused, WInv, ThreadsMatch
<1>. QED  BY <1>4, <1>5, <1>6, <1>7

(* A ticket that a release frees has no thread.                            *)
LEMMA FreedIdle ==
  ASSUME WInv, NEW t \in TicketIds, NEW gone \in BOOLEAN,
         Completed(t, gone) \/ Finalized(t)
  PROVE  InTable(t) /\ works[t] = "none"
  BY DEF WInv, ThreadsMatch, Completed, Finalized

(* What _fault_epoch writes.                                               *)
LEMMA Faulting ==
  ASSUME WInv, FaultEpoch
  PROVE  epoch' \in Epoch /\ halting' \in BOOLEAN
<1>1. \A e \in Epoch : [e EXCEPT !.faulted = TRUE, !.aborting = TRUE] \in Epoch
  BY DEF Epoch
<1>2. \A e \in Epoch : [e EXCEPT !.faulted = TRUE, !.failed = TRUE,
                                 !.loop = "exited"] \in Epoch
  BY DEF Epoch
<1>. QED  BY <1>1, <1>2 DEF FaultEpoch, WInv, WTypeOK

(* The callbacks left after a release.                                     *)
LEMMA KeptCallbacks ==
  ASSUME WInv, NEW scheduled \in SUBSET callbacks, NEW freed
  PROVE  KeepsReleased(scheduled, freed) \subseteq
           [kind : {"send", "complete", "late"}, ticket : TicketIds]
  BY DEF KeepsReleased, WInv, WTypeOK

(* Steps that change neither the table nor a thread nor a ticket.          *)
LEMMA TransportSteps ==
  ASSUME WInv, epoch' \in Epoch, halting' \in BOOLEAN,
         UNCHANGED <<tickets, current, works, callbacks, unacked>>
  PROVE  WInv'
  BY DEF WInv, WTypeOK, SlotNotReused, ThreadsMatch, InTable

(* Steps that release tickets.                                             *)
LEMMA ReleaseSteps ==
  ASSUME WInv, epoch' \in Epoch, halting' \in BOOLEAN, UNCHANGED works,
         callbacks' \subseteq [kind : {"send", "complete", "late"},
                              ticket : TicketIds],
         unacked' \subseteq TicketIds,
         NEW freed \in SUBSET TicketIds, NEW may \in BOOLEAN,
         \A t \in freed : InTable(t) /\ works[t] = "none",
         FreeAndReplenish(freed, may)
  PROVE  WInv'
<1>1. WTypeOK'
  BY Releasing DEF WInv, WTypeOK
<1>2. SlotNotReused'
  BY Releasing DEF SlotNotReused, InTable
<1>3. ThreadsMatch'
  BY Releasing DEF WInv, ThreadsMatch
<1>. QED  BY <1>1, <1>2, <1>3 DEF WInv

(* The steps of the I/O thread.                                            *)
LEMMA OpenEpochStep == ASSUME WInv, OpenEpoch PROVE WInv'
<1>1. epoch' \in Epoch
  BY DEF OpenEpoch, NoEpoch, Epoch
<1>2. tickets' \in [TicketIds -> SlotTicket]
  BY TicketWrites DEF WInv, WTypeOK, OpenEpoch
<1>3. \A t \in TicketIds : /\ tickets'[t].phase = tickets[t].phase
                           /\ tickets'[t].done = tickets[t].done
  BY DEF WInv, WTypeOK, OpenEpoch, SlotTicket
<1>. QED  BY <1>1, <1>2, <1>3
          DEF WInv, WTypeOK, SlotNotReused, ThreadsMatch, InTable, OpenEpoch

(* ConnectionMade keeps the inductive invariant.                           *)
LEMMA ConnectionMadeStep == ASSUME WInv, ConnectionMade PROVE WInv'
<1>1. epoch' \in Epoch
  BY DEF WInv, WTypeOK, ConnectionMade, Epoch
<1>. QED  BY <1>1, TransportSteps DEF WInv, WTypeOK, ConnectionMade

(* QosOk keeps the inductive invariant.                                    *)
LEMMA QosOkStep == ASSUME WInv, QosOk PROVE WInv'
<1>. DEFINE freed == {t \in TicketIds : Completed(t, FALSE)}
<1>1. epoch' \in Epoch
  BY DEF WInv, WTypeOK, QosOk, Epoch
<1>2. \A t \in freed : InTable(t) /\ works[t] = "none"
  BY FreedIdle
<1>3. callbacks' \subseteq [kind : {"send", "complete", "late"},
                           ticket : TicketIds]
  BY KeptCallbacks DEF QosOk
<1>4. FreeAndReplenish(freed, ~halting)
  BY DEF QosOk
<1>5. freed \in SUBSET TicketIds /\ (~halting) \in BOOLEAN
  OBVIOUS
<1>. HIDE DEF freed
<1>. QED  BY <1>1, <1>2, <1>3, <1>4, <1>5, ReleaseSteps DEF WInv, WTypeOK, QosOk

(* OnDelivery keeps the inductive invariant.                               *)
LEMMA OnDeliveryStep ==
  ASSUME WInv, NEW t \in TicketIds, OnDelivery(t) PROVE WInv'
<1>1. tickets' \in [TicketIds -> SlotTicket]
  BY TicketWrites DEF WInv, WTypeOK, OnDelivery
<1>. QED  BY <1>1 DEF WInv, WTypeOK, SlotNotReused, ThreadsMatch, InTable,
                      OnDelivery, SlotTicket

(* OnCancelOk keeps the inductive invariant.                               *)
LEMMA OnCancelOkStep ==
  ASSUME WInv, NEW t \in TicketIds, OnCancelOk(t) PROVE WInv'
<1>1. tickets' \in [TicketIds -> SlotTicket]
  BY TicketWrites DEF WInv, WTypeOK, OnCancelOk
<1>. QED  BY <1>1 DEF WInv, WTypeOK, SlotNotReused, ThreadsMatch, InTable,
                      OnCancelOk, SlotTicket

(* TransportFault keeps the inductive invariant.                           *)
LEMMA TransportFaultStep == ASSUME WInv, TransportFault PROVE WInv'
  BY Faulting, TransportSteps DEF TransportFault

(* ConnectionClosed keeps the inductive invariant.                         *)
LEMMA ConnectionClosedStep == ASSUME WInv, ConnectionClosed PROVE WInv'
<1>. DEFINE freed == {t \in TicketIds : Completed(t, TRUE)}
<1>1. epoch' \in Epoch
  <2>. \A e \in Epoch : [e EXCEPT !.faulted = TRUE, !.aborting = TRUE,
                        !.terminated = TRUE, !.loop = "exited"] \in Epoch
    BY DEF Epoch
  <2>. QED  BY DEF WInv, WTypeOK, ConnectionClosed
<1>2. \A t \in freed : InTable(t) /\ works[t] = "none"
  BY FreedIdle
<1>3. callbacks' \subseteq [kind : {"send", "complete", "late"},
                           ticket : TicketIds]
  BY KeptCallbacks DEF ConnectionClosed
<1>4. FreeAndReplenish(freed, FALSE)
  BY DEF ConnectionClosed
<1>5. freed \in SUBSET TicketIds
  OBVIOUS
<1>. HIDE DEF freed
<1>. QED  BY <1>1, <1>2, <1>3, <1>4, <1>5, ReleaseSteps
          DEF WInv, WTypeOK, ConnectionClosed

(* LoopExits keeps the inductive invariant.                                *)
LEMMA LoopExitsStep == ASSUME WInv, LoopExits PROVE WInv'
<1>1. epoch' \in Epoch
  BY DEF WInv, WTypeOK, LoopExits, Epoch
<1>. QED  BY <1>1, TransportSteps DEF WInv, WTypeOK, LoopExits

(* RunCallback keeps the inductive invariant.                              *)
LEMMA RunCallbackStep ==
  ASSUME WInv, NEW c \in callbacks, RunCallback(c) PROVE WInv'
<1>. c.ticket \in TicketIds /\ callbacks \ {c} \in SUBSET callbacks
  BY DEF WInv, WTypeOK
<1>1. CASE c.kind = "send" /\ CanContinue(c.ticket)
  <2>1. CASE /\ tickets' = [tickets EXCEPT ![c.ticket].sent = TRUE]
             /\ unacked' = unacked \ {c.ticket}
             /\ callbacks' = callbacks \ {c}
             /\ UNCHANGED <<halting, epoch, current, works>>
    <3>1. tickets' \in [TicketIds -> SlotTicket]
      BY <2>1, TicketWrites DEF WInv, WTypeOK
    <3>2. \A t \in TicketIds : /\ tickets'[t].phase = tickets[t].phase
                               /\ tickets'[t].done = tickets[t].done
      BY <2>1 DEF WInv, WTypeOK, SlotTicket
    <3>. QED  BY <2>1, <3>1, <3>2
              DEF WInv, WTypeOK, SlotNotReused, ThreadsMatch, InTable
  <2>2. CASE /\ FaultEpoch /\ callbacks' = callbacks \ {c}
             /\ UNCHANGED <<tickets, current, unacked, works>>
    BY <2>2, Faulting
       DEF WInv, WTypeOK, SlotNotReused, ThreadsMatch, InTable
  <2>. QED  BY <1>1, <2>1, <2>2 DEF RunCallback
<1>2. CASE c.kind = "send" /\ ~CanContinue(c.ticket)
  BY <1>2 DEF RunCallback, WInv, WTypeOK, SlotNotReused, ThreadsMatch, InTable
<1>3. CASE c.kind # "send"
  <2>. DEFINE freed == {t \in TicketIds : Completed(t, epoch.terminated)}
              may == freed # {} /\ MayReplenish /\ ~epoch'.faulted
  <2>1. /\ \E raised \in BOOLEAN :
              IF Unsettled(c, raised) THEN FaultEpoch
              ELSE UNCHANGED <<epoch, halting>>
        /\ FreeAndReplenish(freed, may)
        /\ callbacks' = KeepsReleased(callbacks \ {c}, freed)
        /\ UNCHANGED <<unacked, works>>
    BY <1>3 DEF RunCallback
  <2>2. epoch' \in Epoch /\ halting' \in BOOLEAN
    BY <2>1, Faulting DEF WInv, WTypeOK
  <2>3. \A t \in freed : InTable(t) /\ works[t] = "none"
    BY FreedIdle DEF WInv, WTypeOK, Epoch
  <2>4. callbacks' \subseteq [kind : {"send", "complete", "late"},
                             ticket : TicketIds]
    BY <2>1, KeptCallbacks
  <2>5. freed \in SUBSET TicketIds /\ may \in BOOLEAN
    OBVIOUS
  <2>. HIDE DEF freed, may
  <2>. QED  BY <2>1, <2>2, <2>3, <2>4, <2>5, ReleaseSteps DEF WInv, WTypeOK
<1>. QED  BY <1>1, <1>2, <1>3

(* CloseEpoch keeps the inductive invariant.                               *)
LEMMA CloseEpochStep == ASSUME WInv, CloseEpoch PROVE WInv'
<1>. DEFINE freed == {t \in TicketIds : Finalized(t) \/ Completed(t, TRUE)}
<1>1. CASE /\ epoch' = NoEpoch
           /\ FreeAndReplenish(freed, FALSE)
           /\ unacked' = {} /\ callbacks' = {}
           /\ UNCHANGED <<halting, works>>
  <2>1. epoch' \in Epoch
    BY <1>1 DEF NoEpoch, Epoch
  <2>2. \A t \in freed : InTable(t) /\ works[t] = "none"
    BY FreedIdle
  <2>3. freed \in SUBSET TicketIds
    OBVIOUS
  <2>. HIDE DEF freed
  <2>. QED  BY <1>1, <2>1, <2>2, <2>3, ReleaseSteps DEF WInv, WTypeOK
<1>2. CASE /\ epoch' = [epoch EXCEPT !.faulted = TRUE, !.failed = TRUE,
                                     !.loop = "over"]
           /\ halting' = TRUE
           /\ UNCHANGED <<tickets, current, unacked, callbacks, works>>
  <2>1. epoch' \in Epoch
    BY <1>2 DEF WInv, WTypeOK, Epoch
  <2>. QED  BY <1>2, <2>1, TransportSteps
<1>. QED  BY <1>1, <1>2 DEF CloseEpoch

(* The steps of the pool threads.                                          *)
LEMMA AskDispositionStep ==
  ASSUME WInv, NEW t \in TicketIds, AskDisposition(t) PROVE WInv'
  BY DEF WInv, WTypeOK, SlotNotReused, ThreadsMatch, InTable, AskDisposition,
         Schedules

(* RunAttempt keeps the inductive invariant.                               *)
LEMMA RunAttemptStep ==
  ASSUME WInv, NEW t \in TicketIds, RunAttempt(t) PROVE WInv'
  BY DEF WInv, WTypeOK, SlotNotReused, ThreadsMatch, InTable, RunAttempt

(* CompleteTicket keeps the inductive invariant.                           *)
LEMMA CompleteTicketStep ==
  ASSUME WInv, NEW t \in TicketIds, CompleteTicket(t) PROVE WInv'
<1>1. tickets' \in [TicketIds -> SlotTicket]
  BY TicketWrites DEF WInv, WTypeOK, CompleteTicket
<1>2. \A u \in TicketIds : /\ tickets'[u].phase = tickets[u].phase
                           /\ u # t => tickets'[u].done = tickets[u].done
  BY DEF WInv, WTypeOK, CompleteTicket, SlotTicket
<1>3. callbacks' \subseteq [kind : {"send", "complete", "late"},
                           ticket : TicketIds]
  BY DEF WInv, WTypeOK, CompleteTicket, Schedules
<1>. QED  BY <1>1, <1>2, <1>3
          DEF WInv, WTypeOK, SlotNotReused, ThreadsMatch, InTable, CompleteTicket

(* FailClosed keeps the inductive invariant.                               *)
LEMMA FailClosedStep ==
  ASSUME WInv, NEW t \in TicketIds, FailClosed(t) PROVE WInv'
<1>1. epoch' \in Epoch
  BY DEF WInv, WTypeOK, FailClosed, Epoch
<1>. QED  BY <1>1, TransportSteps DEF FailClosed

(* RequestStop keeps the inductive invariant.                              *)
LEMMA RequestStopStep == ASSUME WInv, RequestStop PROVE WInv'
  BY TransportSteps DEF RequestStop, WInv, WTypeOK

-----------------------------------------------------------------------------
(* Every step of the consumer keeps the inductive invariant.               *)
LEMMA WStep == WInv /\ [WNext]_consumerVars => WInv'
<1>. SUFFICES ASSUME WInv, [WNext]_consumerVars PROVE WInv'
  OBVIOUS
<1>1. CASE \/ OpenEpoch \/ ConnectionMade \/ QosOk \/ TransportFault
           \/ ConnectionClosed \/ LoopExits \/ CloseEpoch \/ RequestStop
  BY <1>1, OpenEpochStep, ConnectionMadeStep, QosOkStep, TransportFaultStep,
     ConnectionClosedStep, LoopExitsStep, CloseEpochStep, RequestStopStep
<1>2. ASSUME NEW t \in TicketIds,
             \/ OnDelivery(t) \/ OnCancelOk(t) \/ HandshakeTimeout(t)
             \/ AskDisposition(t) \/ RunAttempt(t) \/ CompleteTicket(t)
             \/ FailClosed(t)
      PROVE  WInv'
  BY <1>2, OnDeliveryStep, OnCancelOkStep, TransportFaultStep,
     AskDispositionStep, RunAttemptStep, CompleteTicketStep, FailClosedStep
     DEF HandshakeTimeout
<1>3. ASSUME NEW c \in callbacks, RunCallback(c) PROVE WInv'
  BY <1>3, RunCallbackStep
<1>4. CASE UNCHANGED consumerVars
  BY <1>4 DEF consumerVars, WInv, WTypeOK, SlotNotReused, ThreadsMatch, InTable
<1>. QED  BY <1>1, <1>2, <1>3, <1>4 DEF WNext

(* The initial states satisfy the inductive invariant.                     *)
LEMMA WStart == (\E stopped \in BOOLEAN : WInit(stopped)) => WInv
<1>. SUFFICES ASSUME NEW stopped \in BOOLEAN, WInit(stopped) PROVE WInv
  OBVIOUS
<1>1. epoch \in Epoch
  BY DEF WInit, NoEpoch, Epoch
<1>2. tickets \in [TicketIds -> SlotTicket]
  BY DEF WInit, Unused, SlotTicket
<1>. QED  BY <1>1, <1>2 DEF WInit, WInv, WTypeOK, SlotNotReused, ThreadsMatch,
                            Unused

(* The inductive invariant holds in every reachable state.                 *)
LEMMA WInvariant == WSpec => []WInv
  BY WStart, WStep, PTL DEF WSpec

(* Epochs, tickets, threads and callbacks stay within their types.         *)
THEOREM ConsumerTypes == WSpec => []WTypeOK
<1>1. WInv => WTypeOK  BY DEF WInv
<1>. QED  BY WInvariant, <1>1, PTL

(* A thread keeps its slot, so the Worker never runs more Attempts than it *)
(* has slots: a release frees only tickets whose thread has ended, in any  *)
(* order of faults, closed loops, late callbacks and new connections.      *)
THEOREM SlotKept == WSpec => []SlotNotReused
<1>1. WInv => SlotNotReused  BY DEF WInv
<1>. QED  BY WInvariant, <1>1, PTL
=============================================================================
