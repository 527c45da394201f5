---------------------- MODULE ReliableDispatch_proofs ----------------------
(***************************************************************************)
(* Proofs about ReliableDispatch, for every value of its constants.  The   *)
(* composition makes only transactions of ReliableControl, so the theorems *)
(* about them are used here as they stand.                                 *)
(***************************************************************************)
EXTENDS ReliableDispatch, ReliableControl_proofs

-----------------------------------------------------------------------------
(* Types of the transport.  A Relay that publishes and a ticket that is in   *)
(* use name a message, and a ticket that works for an Attempt names it: this *)
(* is what makes the calls they make transactions of ReliableControl.        *)

RelayState ==
    [pc: {"idle", "leased", "batch", "checked", "confirmed", "failed"},
     cur: Messages \cup {NoMessage},
     rest: SUBSET Messages]

TicketState ==
    [pc: {"free", "orphan", "acked", "running"} \cup Unacked,
     msg: Messages \cup {NoMessage},
     n: 0..MaxAttempts]

GoodRelay(x) ==
    /\ x \in RelayState
    /\ x.pc \in {"checked", "confirmed"} => x.cur \in Messages

GoodTicket(x) ==
    /\ x \in TicketState
    /\ x.pc # "free" => x.msg \in Messages
    /\ x.pc \in Working => x.n \in Attempts

PathTyped ==
    /\ DTypeOK
    /\ \A r \in Relays : GoodRelay(relay[r])
    /\ \A t \in Tickets : GoodTicket(ticket[t])

\* The constant states of Relays and tickets.
LEMMA IdleStates ==
    /\ GoodRelay(IdleRelay)
    /\ GoodTicket(FreeTicket)
    /\ FreeTicket.pc = "free" /\ IdleRelay.pc = "idle"
  BY ConstantsAssumption DEF GoodRelay, GoodTicket, IdleRelay, FreeTicket, RelayState,
     TicketState, Unacked, Working

\* A Relay that goes on after a row is in a good state.
LEMMA AfterGood ==
    ASSUME NEW rest \in SUBSET Messages
    PROVE  GoodRelay(After(rest)) /\ After(rest).pc \in {"idle", "batch"}
  BY IdleStates DEF After, GoodRelay, RelayState

\* What a Claim answers: one of a ticket's dispositions, and "execute" only
\* with an attempt number left.
LEMMA ReplyRange ==
    ASSUME TypeOK, NEW m \in Messages
    PROVE  /\ ClaimReply(m) \in {"reject", "ack", "defer", "execute"}
           /\ ClaimReply(m) = "execute" => execution[m[1]].attempt_count + 1 \in Attempts
  <1>1. execution[m[1]].attempt_count \in 0..MaxAttempts
    BY RowTypes DEF Messages, Execution
  <1> QED
    BY <1>1, ConstantsAssumption DEF ClaimReply, Attempts

\* One Relay moves to a good state.
LEMMA RelayMoves ==
    ASSUME PathTyped, NEW r \in Relays, NEW x, GoodRelay(x),
           relay' = [relay EXCEPT ![r] = x]
    PROVE  /\ relay' \in [Relays -> RelayState]
           /\ \A q \in Relays : GoodRelay(relay'[q])
           /\ relay'[r] = x
           /\ \A q \in Relays \ {r} : relay'[q] = relay[q]
  BY DEF PathTyped, DTypeOK, GoodRelay, RelayState

\* One ticket moves to a good state.
LEMMA TicketMoves ==
    ASSUME PathTyped, NEW t \in Tickets, NEW x, GoodTicket(x),
           ticket' = [ticket EXCEPT ![t] = x]
    PROVE  /\ ticket' \in [Tickets -> TicketState]
           /\ \A u \in Tickets : GoodTicket(ticket'[u])
           /\ ticket'[t] = x
           /\ \A u \in Tickets \ {t} : ticket'[u] = ticket[u]
  BY DEF PathTyped, DTypeOK, GoodTicket, TicketState

\* The three ways in which the Broker's queue changes.
LEMMA QueueMoves ==
    ASSUME PathTyped, NEW m \in Messages,
           \/ ready' = ready
           \/ ready' = [ready EXCEPT ![m] = @ + 1]
           \/ ready[m] > 0 /\ ready' = [ready EXCEPT ![m] = @ - 1]
    PROVE  ready' \in [Messages -> Nat]
  BY DEF PathTyped, DTypeOK

\* A Relay only ever names messages whose rows it leased.
LEMMA RelayTyped ==
    ASSUME PathTyped, NEW r \in Relays,
           \/ RelayLease(r)
           \/ RelayCheck(r)
           \/ RelayPublish(r)
           \/ RelayPublishFails(r)
           \/ RelayConnectFails(r)
           \/ RelayMark(r)
           \/ RelayRelease(r)
           \/ RelayCrash(r)
    PROVE  PathTyped'
  <1>a. GoodRelay(relay[r])
    BY DEF PathTyped
  <1>1. \E x : GoodRelay(x) /\ relay' = [relay EXCEPT ![r] = x]
    <2>1. CASE RelayLease(r)
      <3>1. PICK batch \in SUBSET Messages :
               relay' = [relay EXCEPT ![r] = [pc |-> "leased", cur |-> NoMessage, rest |-> batch]]
        BY <2>1 DEF RelayLease
      <3>2. GoodRelay([pc |-> "leased", cur |-> NoMessage, rest |-> batch])
        BY DEF GoodRelay, RelayState
      <3> QED
        BY <3>1, <3>2
    <2>2. CASE RelayCheck(r)
      <3>1. PICK m \in relay[r].rest :
               \/ relay' = [relay EXCEPT ![r] = After(relay[r].rest \ {m})]
               \/ relay' = [relay EXCEPT ![r] =
                     [pc |-> "checked", cur |-> m, rest |-> relay[r].rest \ {m}]]
        BY <2>2 DEF RelayCheck
      <3>2. m \in Messages /\ relay[r].rest \ {m} \in SUBSET Messages
        BY <1>a DEF GoodRelay, RelayState
      <3>3. GoodRelay([pc |-> "checked", cur |-> m, rest |-> relay[r].rest \ {m}])
        BY <3>2 DEF GoodRelay, RelayState
      <3> QED
        BY <3>1, <3>2, <3>3, AfterGood
    <2>3. CASE RelayPublish(r) \/ RelayConnectFails(r)
      <3>1. PICK p \in {"confirmed", "failed"} :
               relay' = [relay EXCEPT ![r] = [relay[r] EXCEPT !.pc = p]]
        BY <2>3 DEF RelayPublish, RelayConnectFails
      <3>2. p = "confirmed" => relay[r].cur \in Messages
        <4>1. CASE RelayPublish(r)
          BY <1>a, <4>1 DEF RelayPublish, GoodRelay
        <4>2. CASE RelayConnectFails(r)
          <5>1. relay'[r].pc = "failed" /\ relay'[r].pc = p
            BY <3>1, <4>2, <1>a DEF RelayConnectFails, PathTyped, DTypeOK
          <5> QED
            BY <5>1
        <4> QED
          BY <2>3, <4>1, <4>2
      <3>3. GoodRelay([relay[r] EXCEPT !.pc = p])
        BY <1>a, <3>2 DEF GoodRelay, RelayState
      <3> QED
        BY <3>1, <3>3
    <2>4. CASE RelayPublishFails(r)
      <3> DEFINE x == [pc |-> "failed", cur |-> NoMessage, rest |-> relay[r].rest \cup {relay[r].cur}]
      <3>1. relay' = [relay EXCEPT ![r] = x]
        BY <2>4 DEF RelayPublishFails
      <3>2. GoodRelay(x)
        BY <1>a, <2>4 DEF GoodRelay, RelayState, RelayPublishFails
      <3> QED
        BY <3>1, <3>2
    <2>5. CASE RelayMark(r)
      <3>1. relay' = [relay EXCEPT ![r] = After(relay[r].rest)]
        BY <2>5 DEF RelayMark
      <3>2. relay[r].rest \in SUBSET Messages
        BY <1>a DEF GoodRelay, RelayState
      <3> QED
        BY <3>1, <3>2, AfterGood
    <2>6. CASE RelayRelease(r)
      <3>1. PICK m \in relay[r].rest :
               relay' = [relay EXCEPT ![r] =
                  IF relay[r].rest = {m} THEN IdleRelay
                  ELSE [pc |-> "failed", cur |-> NoMessage, rest |-> relay[r].rest \ {m}]]
        BY <2>6, Zenon DEF RelayRelease
      <3> DEFINE y == [pc |-> "failed", cur |-> NoMessage, rest |-> relay[r].rest \ {m}]
                 x == IF relay[r].rest = {m} THEN IdleRelay ELSE y
      <3>2. GoodRelay(y)
        BY <1>a DEF GoodRelay, RelayState
      <3>3. relay' = [relay EXCEPT ![r] = x]
        BY <3>1
      <3> HIDE DEF y
      <3>4. GoodRelay(x)
        BY <3>2, IdleStates, Zenon
      <3> HIDE DEF x
      <3> QED
        BY <3>3, <3>4
    <2>7. CASE RelayCrash(r)
      BY <2>7, IdleStates DEF RelayCrash
    <2> QED
      BY <2>1, <2>2, <2>3, <2>4, <2>5, <2>6, <2>7
  <1>2. ready' \in [Messages -> Nat]
    <2>1. \/ ready' = ready
          \/ relay[r].pc = "checked" /\ ready' = [ready EXCEPT ![relay[r].cur] = @ + 1]
      BY DEF RelayLease, RelayCheck, RelayPublish, RelayPublishFails, RelayConnectFails,
         RelayMark, RelayRelease, RelayCrash
    <2> QED
      BY <1>a, <2>1, QueueMoves DEF GoodRelay, PathTyped, DTypeOK
  <1>3. dlq' = dlq /\ ticket' = ticket
    BY DEF RelayLease, RelayCheck, RelayPublish, RelayPublishFails, RelayConnectFails,
       RelayMark, RelayRelease, RelayCrash
  <1> QED
    BY <1>1, <1>2, <1>3, RelayMoves DEF PathTyped, DTypeOK, RelayState

\* A ticket in use names a message, and one that works an Attempt.
LEMMA TicketTyped ==
    ASSUME PathTyped, TypeOK, NEW t \in Tickets,
           \/ \E m \in Messages : Deliver(t, m)
           \/ TicketClaim(t)
           \/ TicketJournal(t)
           \/ TicketPrepareFailed(t)
           \/ \E lost \in BOOLEAN : TicketSend(t, lost)
           \/ TicketFault(t)
           \/ TicketLateRequest(t)
           \/ TicketStart(t)
           \/ TicketRenew(t)
           \/ TicketReplaceCache(t)
           \/ \E r \in Reports : TicketFinish(t, r)
           \/ TicketAbandon(t)
    PROVE  PathTyped'
  <1>a. GoodTicket(ticket[t]) /\ ticket \in [Tickets -> TicketState]
    BY DEF PathTyped, DTypeOK, TicketState
  <1>b. ASSUME NEW p \in {"journaled", "acked", "running"}, ticket[t].pc \in Working
        PROVE  GoodTicket([ticket[t] EXCEPT !.pc = p])
    BY <1>a, <1>b DEF GoodTicket, TicketState, Working, Unacked
  <1>c. ASSUME NEW p \in {"ack", "orphan"}, ticket[t].pc # "free"
        PROVE  GoodTicket([ticket[t] EXCEPT !.pc = p])
    BY <1>a, <1>c DEF GoodTicket, TicketState, Working, Unacked
  <1>1. \E x : GoodTicket(x) /\ ticket' = [ticket EXCEPT ![t] = x]
    <2>1. CASE \E m \in Messages : Deliver(t, m)
      <3>1. PICK m \in Messages :
               ticket' = [ticket EXCEPT ![t] = [pc |-> "delivered", msg |-> m, n |-> 0]]
        BY <2>1 DEF Deliver
      <3>2. GoodTicket([pc |-> "delivered", msg |-> m, n |-> 0])
        BY ConstantsAssumption DEF GoodTicket, TicketState, Working, Unacked
      <3> QED
        BY <3>1, <3>2
    <2>2. CASE TicketClaim(t)
      <3> DEFINE m == ticket[t].msg
                 k == IF ClaimReply(m) = "execute" THEN execution[m[1]].attempt_count + 1 ELSE 0
                 x == [ticket[t] EXCEPT !.pc = ClaimReply(m), !.n = k]
      <3>1. ticket' = [ticket EXCEPT ![t] = x]
        BY <1>a, <2>2 DEF TicketClaim, TicketState
      <3>2. m \in Messages
        BY <1>a, <2>2 DEF TicketClaim, GoodTicket
      <3>3. /\ ClaimReply(m) \in {"reject", "ack", "defer", "execute"}
            /\ k \in 0..MaxAttempts
            /\ ClaimReply(m) = "execute" => k \in Attempts
        BY <3>2, ReplyRange, ConstantsAssumption DEF Attempts
      <3>4. GoodTicket(x)
        <4> HIDE DEF k, m
        <4>1. /\ x.pc = ClaimReply(m) /\ x.msg = m /\ x.n = k
              /\ x \in TicketState
          BY <1>a, <3>2, <3>3 DEF TicketState, Unacked, m
        <4> HIDE DEF x
        <4> QED
          BY <3>2, <3>3, <4>1 DEF GoodTicket, Working
      <3> QED
        BY <3>1, <3>4
    <2>3. CASE TicketJournal(t)
      BY <1>b, <2>3 DEF TicketJournal, Working
    <2>4. CASE TicketPrepareFailed(t)
      BY <1>c, <2>4 DEF TicketPrepareFailed
    <2>5. CASE \E lost \in BOOLEAN : TicketSend(t, lost)
      <3>1. \/ ticket' = [ticket EXCEPT ![t] = FreeTicket]
            \/ /\ ticket[t].pc = "journaled"
               /\ ticket' = [ticket EXCEPT ![t] = [ticket[t] EXCEPT !.pc = "acked"]]
        BY <2>5 DEF TicketSend
      <3> QED
        BY <1>b, <3>1, IdleStates DEF Working
    <2>6. CASE TicketFault(t)
      <3>1. \/ ticket' = [ticket EXCEPT ![t] = FreeTicket]
            \/ /\ ticket[t].pc # "free"
               /\ ticket' = [ticket EXCEPT ![t] = [ticket[t] EXCEPT !.pc = "orphan"]]
        BY <2>6 DEF TicketFault
      <3> QED
        BY <1>c, <3>1, IdleStates
    <2>7. CASE TicketStart(t)
      <3>1. \/ ticket' = [ticket EXCEPT ![t] = FreeTicket]
            \/ /\ ticket[t].pc = "acked"
               /\ ticket' = [ticket EXCEPT ![t] = [ticket[t] EXCEPT !.pc = "running"]]
        BY <2>7 DEF TicketStart
      <3> QED
        BY <1>b, <3>1, IdleStates DEF Working
    <2>8. CASE \/ TicketLateRequest(t)
               \/ \E r \in Reports : TicketFinish(t, r)
               \/ TicketAbandon(t)
      BY <2>8, IdleStates DEF TicketLateRequest, TicketFinish, TicketAbandon
    <2>9. CASE TicketRenew(t) \/ TicketReplaceCache(t)
      <3>1. ticket' = [ticket EXCEPT ![t] = ticket[t]]
        BY <1>a, <2>9 DEF TicketRenew, TicketReplaceCache, transport
      <3> QED
        BY <1>a, <3>1
    <2> QED
      BY <2>1, <2>2, <2>3, <2>4, <2>5, <2>6, <2>7, <2>8, <2>9
  <1>2. ready' \in [Messages -> Nat] /\ dlq' \in SUBSET (Messages \X Kinds)
    <2>1. CASE \E m \in Messages : Deliver(t, m)
      <3>1. PICK m \in Messages : ready[m] > 0 /\ ready' = [ready EXCEPT ![m] = @ - 1] /\ dlq' = dlq
        BY <2>1 DEF Deliver
      <3> QED
        BY <3>1, QueueMoves DEF PathTyped, DTypeOK
    <2>2. CASE \E lost \in BOOLEAN : TicketSend(t, lost)
      <3>1. PICK lost \in BOOLEAN : TicketSend(t, lost)
        BY <2>2
      <3>2. ticket[t].msg \in Messages
        BY <1>a, <3>1 DEF GoodTicket, TicketSend
      <3>3. ready' = ready \/ ready' = [ready EXCEPT ![ticket[t].msg] = @ + 1]
        BY <3>1 DEF TicketSend
      <3>4. dlq \in SUBSET (Messages \X Kinds)
        BY DEF PathTyped, DTypeOK
      <3>5. dlq' \in SUBSET (Messages \X Kinds)
        BY <3>1, <3>2, <3>4 DEF TicketSend
      <3> QED
        BY <3>2, <3>3, <3>5, QueueMoves
    <2>3. CASE TicketFault(t)
      <3>2. ticket[t].msg \in Messages
        BY <1>a, <2>3 DEF GoodTicket, TicketFault, Unacked
      <3>3. ready' = ready \/ ready' = [ready EXCEPT ![ticket[t].msg] = @ + 1]
        BY <2>3 DEF TicketFault
      <3>4. dlq \in SUBSET (Messages \X Kinds)
        BY DEF PathTyped, DTypeOK
      <3>5. dlq' \in SUBSET (Messages \X Kinds)
        BY <2>3, <3>2, <3>4 DEF TicketFault
      <3> QED
        BY <3>2, <3>3, <3>5, QueueMoves
    <2>4. CASE ready' = ready /\ dlq' = dlq
      BY <2>4, Zenon DEF PathTyped, DTypeOK
    <2> QED
      BY <2>1, <2>2, <2>3, <2>4 DEF TicketClaim, TicketJournal, TicketPrepareFailed,
         TicketLateRequest, TicketStart, TicketRenew, TicketReplaceCache, TicketFinish,
         TicketAbandon, transport
  <1>3. relay' = relay
    BY DEF Deliver, TicketClaim, TicketJournal, TicketPrepareFailed, TicketSend, TicketFault,
       TicketLateRequest, TicketStart, TicketRenew, TicketReplaceCache, TicketFinish,
       TicketAbandon, transport
  <1> QED
    BY <1>1, <1>2, <1>3, TicketMoves DEF PathTyped, DTypeOK, TicketState

\* Every step keeps the transport well typed.
LEMMA PathNext ==
    ASSUME PathTyped, TypeOK, [DNext]_dvars
    PROVE  PathTyped'
  <1>1. CASE transport' = transport
    BY <1>1 DEF transport, PathTyped, DTypeOK
  <1>2. ASSUME NEW m \in Messages, BrokerDeadLetter(m) PROVE PathTyped'
    <2>1. ready' \in [Messages -> Nat] /\ dlq' \in SUBSET (Messages \X Kinds)
      BY <1>2, QueueMoves DEF BrokerDeadLetter, PathTyped, DTypeOK
    <2>2. relay' = relay /\ ticket' = ticket
      BY <1>2 DEF BrokerDeadLetter
    <2> QED
      BY <2>1, <2>2 DEF PathTyped, DTypeOK
  <1>3. ASSUME NEW m \in Messages, NEW k \in Kinds, NEW acked \in BOOLEAN, DrainDlq(m, k, acked)
        PROVE  PathTyped'
    BY <1>3 DEF DrainDlq, PathTyped, DTypeOK
  <1>4. ControlStep \/ UNCHANGED dvars => transport' = transport
    BY DEF ControlStep, dvars, transport
  <1> QED
    BY <1>1, <1>2, <1>3, <1>4, RelayTyped, TicketTyped DEF DNext

-----------------------------------------------------------------------------
(* The dispatch path makes only transactions of ReliableControl.             *)

\* The calls of a Relay.
LEMMA RelayCalls ==
    ASSUME PathTyped, NEW r \in Relays,
           \/ RelayLease(r)
           \/ RelayCheck(r)
           \/ RelayPublish(r)
           \/ RelayPublishFails(r)
           \/ RelayConnectFails(r)
           \/ RelayMark(r)
           \/ RelayRelease(r)
           \/ RelayCrash(r)
    PROVE  [Next]_vars
  <1>a. GoodRelay(relay[r])
    BY DEF PathTyped
  <1>b. /\ \A m \in relay[r].rest : m \in Messages /\ m[1] \in Execs /\ m[2] \in Gens
        /\ relay[r].pc = "confirmed" => relay[r].cur[1] \in Execs /\ relay[r].cur[2] \in Gens
    BY <1>a DEF GoodRelay, RelayState, Messages
  <1>1. CASE RelayLease(r)
    BY <1>1 DEF RelayLease, Next, Messages
  <1>2. CASE RelayCheck(r)
    BY <1>2, <1>b DEF RelayCheck, Next
  <1>3. CASE RelayMark(r)
    <2> DEFINE e == relay[r].cur[1]
               g == relay[r].cur[2]
    <2>1. MarkOutboxPublished(r, e, g) \/ UNCHANGED vars
      BY <1>3 DEF RelayMark
    <2>2. e \in Execs /\ g \in Gens
      BY <1>3, <1>b DEF RelayMark
    <2> HIDE DEF e, g
    <2> QED
      BY <2>1, <2>2 DEF Next
  <1>4. CASE RelayRelease(r)
    <2>1. PICK m \in relay[r].rest : ReleaseOutboxLease(r, m[1], m[2]) \/ UNCHANGED vars
      BY <1>4 DEF RelayRelease
    <2> QED
      BY <1>b, <2>1 DEF Next
  <1> QED
    BY <1>1, <1>2, <1>3, <1>4 DEF RelayPublish, RelayPublishFails, RelayConnectFails, RelayCrash

\* The calls of a ticket.
LEMMA TicketCalls ==
    ASSUME PathTyped, TypeOK, NEW t \in Tickets,
           \/ \E m \in Messages : Deliver(t, m)
           \/ TicketClaim(t)
           \/ TicketJournal(t)
           \/ TicketPrepareFailed(t)
           \/ \E lost \in BOOLEAN : TicketSend(t, lost)
           \/ TicketFault(t)
           \/ TicketLateRequest(t)
           \/ TicketStart(t)
           \/ TicketRenew(t)
           \/ TicketReplaceCache(t)
           \/ \E r \in Reports : TicketFinish(t, r)
           \/ TicketAbandon(t)
    PROVE  [Next]_vars
  <1> DEFINE m == ticket[t].msg
             e == m[1]
             n == ticket[t].n
  <1>a. GoodTicket(ticket[t])
    BY DEF PathTyped
  <1>b. /\ ticket[t].pc # "free" => m \in Messages /\ e \in Execs /\ m[2] \in Gens
        /\ ticket[t].pc \in Working => n \in Attempts
        /\ n # 0 => n \in Attempts
    BY <1>a, ConstantsAssumption DEF GoodTicket, TicketState, Messages, Attempts
  <1>c. "failed_transient" \in Results /\ Reports \subseteq Results
    BY DEF Results, Reports
  <1>1. ASSUME ClaimTransaction(m), m \in Messages PROVE [Next]_vars
    <2>1. e \in Execs /\ m[2] \in Gens
      BY <1>1 DEF Messages
    <2>2. ClaimDispatch(e, m[2]) \/ UNCHANGED vars
      BY <1>1 DEF ClaimTransaction
    <2> HIDE DEF m, e
    <2> QED
      BY <2>1, <2>2 DEF Next
  <1>2. CASE TicketClaim(t)
    BY <1>1, <1>2, <1>b DEF TicketClaim
  <1>3. CASE TicketPrepareFailed(t)
    <2>1. (PrepareFailed(e, n, "failed_transient") \/ UNCHANGED vars) /\ ticket[t].pc = "execute"
      BY <1>3 DEF TicketPrepareFailed
    <2>2. e \in Execs /\ n \in Attempts
      BY <1>b, <2>1 DEF Working
    <2> HIDE DEF e, n
    <2> QED
      BY <1>c, <2>1, <2>2 DEF Next
  <1>4. CASE TicketLateRequest(t)
    <2>1. \/ ClaimTransaction(m)
          \/ n # 0 /\ PrepareFailed(e, n, "failed_transient")
          \/ UNCHANGED vars
      BY <1>4 DEF TicketLateRequest
    <2>2. m \in Messages /\ e \in Execs /\ (n # 0 => n \in Attempts)
      BY <1>4, <1>b DEF TicketLateRequest
    <2>3. CASE n # 0 /\ PrepareFailed(e, n, "failed_transient")
      <3> HIDE DEF e, n
      <3> QED
        BY <1>c, <2>2, <2>3 DEF Next
    <2> QED
      BY <1>1, <2>1, <2>2, <2>3
  <1>5. CASE TicketStart(t)
    <2>1. (StartAttempt(e, n) \/ UNCHANGED vars) /\ ticket[t].pc = "acked"
      BY <1>5 DEF TicketStart
    <2>2. e \in Execs /\ n \in Attempts
      BY <1>b, <2>1 DEF Working
    <2> HIDE DEF e, n
    <2> QED
      BY <2>1, <2>2 DEF Next
  <1>6. CASE TicketRenew(t) \/ TicketReplaceCache(t)
    <2>1. (RenewAttempt(e, n) \/ AcquireReplacementGuard(e, n)) /\ ticket[t].pc = "running"
      BY <1>6 DEF TicketRenew, TicketReplaceCache
    <2>2. e \in Execs /\ n \in Attempts
      BY <1>b, <2>1 DEF Working
    <2> HIDE DEF e, n
    <2> QED
      BY <2>1, <2>2 DEF Next
  <1>7. CASE \E r \in Reports : TicketFinish(t, r)
    <2>1. PICK r \in Reports : (FinishAttempt(e, n, r) \/ UNCHANGED vars) /\ ticket[t].pc = "running"
      BY <1>7 DEF TicketFinish
    <2>2. e \in Execs /\ n \in Attempts
      BY <1>b, <2>1 DEF Working
    <2> HIDE DEF e, n
    <2> QED
      BY <1>c, <2>1, <2>2 DEF Next
  <1> QED
    BY <1>2, <1>3, <1>4, <1>5, <1>6, <1>7
       DEF Deliver, TicketJournal, TicketSend, TicketFault, TicketAbandon

\* Every step of the path makes at most one transaction of ReliableControl.
LEMMA PathCalls ==
    ASSUME PathTyped, TypeOK, [DNext]_dvars
    PROVE  [Next]_vars
  <1>1. CASE ControlStep
    BY <1>1 DEF ControlStep, Next
  <1>2. ASSUME NEW m \in Messages, BrokerDeadLetter(m) PROVE [Next]_vars
    BY <1>2 DEF BrokerDeadLetter
  <1>3. ASSUME NEW m \in Messages, NEW k \in Kinds, NEW acked \in BOOLEAN, DrainDlq(m, k, acked)
        PROVE  [Next]_vars
    <2>1. ReconcileDeadLetter(m[1], m[2], k) /\ m[1] \in Execs /\ m[2] \in Gens
      BY <1>3 DEF DrainDlq, Messages
    <2> QED
      BY <2>1 DEF Next
  <1>4. CASE UNCHANGED dvars
    BY <1>4 DEF dvars, vars
  <1> QED
    BY <1>1, <1>2, <1>3, <1>4, RelayCalls, TicketCalls DEF DNext

\* The empty system.
LEMMA PathInit == DInit => Init /\ PathTyped
  <1> SUFFICES ASSUME DInit PROVE PathTyped
    BY DEF DInit
  <1>1. /\ \A r \in Relays : GoodRelay(relay[r])
        /\ \A t \in Tickets : GoodTicket(ticket[t])
    BY IdleStates DEF DInit
  <1>2. /\ relay \in [Relays -> RelayState] /\ ticket \in [Tickets -> TicketState]
        /\ ready \in [Messages -> Nat] /\ dlq \in SUBSET (Messages \X Kinds)
    BY IdleStates DEF DInit, GoodRelay, GoodTicket
  <1> QED
    BY <1>1, <1>2 DEF PathTyped, DTypeOK, RelayState, TicketState

\* The transport is well typed in every reachable state.
LEMMA PathInvariance == DSpec => [](PathTyped /\ TypeOK)
  <1>1. PathTyped /\ TypeOK /\ [DNext]_dvars => PathTyped' /\ TypeOK'
    BY PathNext, PathCalls, TypeNext
  <1> QED
    BY <1>1, PathInit, TypeInit, PTL DEF DSpec

\* Relays, the Broker's queues and the tickets keep their types: no copy is
\* acknowledged that was not there, no ticket works for an Attempt number
\* beyond the limit.
THEOREM TransportTypes == DSpec => []DTypeOK
  <1>1. PathTyped => DTypeOK
    BY DEF PathTyped
  <1> QED
    BY <1>1, PathInvariance, PTL

\* Whatever the Broker loses, repeats or reorders and whoever crashes, the path
\* only ever makes the transactions of ReliableControl: every theorem about
\* them holds of the whole system.
THEOREM PathImplementsControl == DSpec => ImplementsControl
  <1>1. PathTyped /\ TypeOK /\ [DNext]_dvars => [Next]_vars
    BY PathCalls
  <1> QED
    BY <1>1, PathInit, PathInvariance, PTL DEF DSpec, ImplementsControl, Spec

\* The invariants of the transactions, for the whole path.
LEMMA ControlInvariance == DSpec => [](PathTyped /\ IInv /\ RowsInv)
  <1>1. DSpec => Spec
    BY PathImplementsControl DEF ImplementsControl
  <1> QED
    BY <1>1, Invariance, RowsInvariance, PathInvariance, PTL

-----------------------------------------------------------------------------
(* Attempts and tickets.  An Attempt is created by one Claim, under the next *)
(* number of its Execution; nothing returns it to an earlier stage.          *)

Numbered ==
    \A e \in Execs, n \in Attempts :
       attempt[e][n].status # "absent" <=> n <= execution[e].attempt_count

Begun == {"running"} \cup Results

\* The Attempts of an Execution are exactly the numbers counted so far.
LEMMA NumberedNext ==
    ASSUME IInv, Numbered, [Next]_vars
    PROVE  Numbered'
  <1>1. CASE Quiet
    BY <1>1 DEF Quiet, Numbered
  <1>2. ASSUME NEW e \in Execs,
               AcceptExecution(e) \/ RetryDispatch(e) \/ CancelWaiting(e) \/ CancelRunning(e)
        PROVE  Numbered'
    <2>1. /\ UNCHANGED attempt
          /\ \A d \in Execs \ {e} : execution'[d] = execution[d]
          /\ execution'[e].attempt_count = execution[e].attempt_count
      BY <1>2, WaitingEffect
    <2> QED
      BY <2>1 DEF Numbered
  <1>3. ASSUME NEW e \in Execs, NEW n \in Attempts, NEW r \in Results, Ending(e, n, r)
        PROVE  Numbered'
    <2>1. /\ \A d \in Execs \ {e} : execution'[d] = execution[d]
          /\ execution[e].attempt_count = n
          /\ execution'[e].attempt_count = n
      BY <1>3, EndingExecution
    <2>2. /\ \A d \in Execs, m \in Attempts : ~ (d = e /\ m = n) => attempt'[d][m] = attempt[d][m]
          /\ attempt'[e][n].status = r
      BY <1>3, EndingAttempt, Zenon
    <2>3. attempt[e][n].status # "absent" /\ r # "absent"
      BY <1>3 DEF Ending, Active, ActiveAttempt, Results, Reports
    <2> QED
      BY <2>1, <2>2, <2>3 DEF Numbered
  <1>4. ASSUME NEW e \in Execs, NEW n \in Attempts, Claiming(e, n) PROVE Numbered'
    <2>1. /\ \A d \in Execs \ {e} : execution'[d] = execution[d]
          /\ execution'[e].attempt_count = n
          /\ \A d \in Execs, m \in Attempts :
                attempt'[d][m] = IF d = e /\ m = n
                                 THEN [status |-> "claimed", fence |-> NextFence(AdapterOf[e]),
                                       lease |-> LeaseTicks]
                                 ELSE attempt[d][m]
      BY <1>4, ClaimingEffect
    <2>2. n = execution[e].attempt_count + 1 /\ execution[e].attempt_count \in 0..MaxAttempts
      BY <1>4, RowTypes DEF Claiming, IInv, Execution
    <2>3. attempt'[e][n].status = "claimed"
      BY <2>1
    <2>4. \A d \in Execs, m \in Attempts : ~ (d = e /\ m = n) => attempt'[d][m] = attempt[d][m]
      BY <2>1
    <2> SUFFICES ASSUME NEW d \in Execs, NEW m \in Attempts
                 PROVE  attempt'[d][m].status # "absent" <=> m <= execution'[d].attempt_count
      BY DEF Numbered
    <2>5. CASE d # e
      BY <2>1, <2>4, <2>5 DEF Numbered
    <2>6. CASE d = e /\ m = n
      BY <2>1, <2>3, <2>6 DEF Attempts
    <2>7. CASE d = e /\ m # n
      <3>1. attempt'[d][m].status # "absent" <=> m <= execution[e].attempt_count
        BY <2>4, <2>7 DEF Numbered
      <3>2. m <= execution[e].attempt_count <=> m <= n
        BY <2>2, <2>7 DEF Attempts
      <3> QED
        BY <2>1, <2>7, <3>1, <3>2
    <2> QED
      BY <2>5, <2>6, <2>7
  <1> QED
    BY Shapes, <1>1, <1>2, <1>3, <1>4

\* What happens to the Attempts in one transaction: one of them may change, a
\* new one being created under the next number of its Execution.
LEMMA AttemptShapes ==
    ASSUME IInv, [Next]_vars
    PROVE  \/ attempt' = attempt
           \/ \E e \in Execs, n \in Attempts : \E row :
                 /\ attempt' = [attempt EXCEPT ![e][n] = row]
                 /\ \/ row.status = attempt[e][n].status
                    \/ row.status \in Begun
                    \/ n = execution[e].attempt_count + 1
  <1> DEFINE Change(e, n) == \E row : /\ attempt' = [attempt EXCEPT ![e][n] = row]
                                      /\ \/ row.status = attempt[e][n].status
                                         \/ row.status \in Begun
                                         \/ n = execution[e].attempt_count + 1
  <1>a. TypeOK
    BY DEF IInv
  <1>1. ASSUME NEW e \in Execs, NEW n \in Attempts, NEW r \in Results, Ending(e, n, r)
        PROVE  Change(e, n)
    <2> DEFINE row == [attempt[e][n] EXCEPT !.status = r]
    <2>1. attempt' = [attempt EXCEPT ![e][n] = row]
      BY <1>1 DEF Ending, ApplyTerminal
    <2>2. row.status = r
      BY <1>a, RowTypes DEF Attempt
    <2> HIDE DEF row
    <2> QED
      BY <2>1, <2>2 DEF Begun
  <1>2. ASSUME NEW e \in Execs, NEW n \in Attempts, Claiming(e, n) PROVE Change(e, n)
    <2>1. attempt' = [attempt EXCEPT ![e][n] =
                         [status |-> "claimed", fence |-> NextFence(AdapterOf[e]),
                          lease |-> LeaseTicks]]
      BY <1>2 DEF Claiming, ClaimAttempt
    <2>2. n = execution[e].attempt_count + 1
      BY <1>2 DEF Claiming
    <2> QED
      BY <2>1, <2>2
  <1>3. ASSUME NEW e \in Execs, NEW n \in Attempts,
               RenewAttempt(e, n) \/ AttemptLeaseTick(e, n)
        PROVE  Change(e, n)
    <2>1. PICK l : attempt' = [attempt EXCEPT ![e][n] = [attempt[e][n] EXCEPT !.lease = l]]
      BY <1>3 DEF RenewAttempt, AttemptLeaseTick
    <2> DEFINE row == [attempt[e][n] EXCEPT !.lease = l]
    <2>2. row.status = attempt[e][n].status
      BY <1>a, RowTypes DEF Attempt
    <2>3. attempt' = [attempt EXCEPT ![e][n] = row]
      BY <2>1
    <2> HIDE DEF row
    <2> QED
      BY <2>2, <2>3
  <1>4. ASSUME NEW e \in Execs, NEW n \in Attempts, StartAttempt(e, n) PROVE Change(e, n)
    <2>1. CASE execution[e].cancel_requested
      BY <1>1, <1>4, <2>1 DEF StartAttempt, MayReport, Ending, Results, Reports
    <2>2. CASE ~ execution[e].cancel_requested
      <3> DEFINE row == [attempt[e][n] EXCEPT !.status = "running"]
      <3>1. attempt' = [attempt EXCEPT ![e][n] = row]
        BY <1>4, <2>2 DEF StartAttempt
      <3>2. row.status = "running"
        BY <1>a, RowTypes DEF Attempt
      <3> HIDE DEF row
      <3> QED
        BY <3>1, <3>2 DEF Begun
    <2> QED
      BY <2>1, <2>2
  <1>5. ASSUME NEW e \in Execs, NEW n \in Attempts,
               \/ RecoverExpiredAttempt(e, n)
               \/ \E r \in Results : FinishAttempt(e, n, r) \/ PrepareFailed(e, n, r)
        PROVE  Change(e, n)
    BY <1>1, <1>5 DEF RecoverExpiredAttempt, FinishAttempt, PrepareFailed, MayReport, Ending, Results
  <1>6. ASSUME NEW e \in Execs, NEW g \in Gens, ClaimDispatch(e, g)
        PROVE  attempt' = attempt \/ \E n \in Attempts : Change(e, n)
    <2>1. /\ execution[e].status = "queued"
          /\ ~ execution[e].cancel_requested
          /\ execution[e].attempt_count < MaxAttempts
      BY <1>6 DEF ClaimDispatch, IInv, CancelHonoured, AttemptsLeft, Waiting
    <2>2. execution[e].attempt_count \in 0..MaxAttempts
      BY <1>a, RowTypes DEF Execution
    <2>3. execution[e].attempt_count + 1 \in Attempts
      BY <2>1, <2>2, ConstantsAssumption DEF Attempts
    <2>4. attempt' = attempt \/ Claiming(e, execution[e].attempt_count + 1)
      BY <1>6 DEF ClaimDispatch, Claiming
    <2> QED
      BY <1>2, <2>3, <2>4
  <1>7. ASSUME NEW e \in Execs,
               \/ AcceptExecution(e)
               \/ RetryDispatch(e)
               \/ CancelExecution(e)
               \/ SettleCancelledOutbox(e)
        PROVE  attempt' = attempt
    BY <1>7 DEF AcceptExecution, RetryDispatch, CancelExecution, SettleCancelledOutbox
  <1>8. ASSUME NEW e \in Execs, NEW g \in Gens,
               \/ OutboxLeaseExpire(e, g)
               \/ \E r \in Relays : ReleaseOutboxLease(r, e, g) \/ MarkOutboxPublished(r, e, g)
               \/ \E k \in Kinds : ReconcileDeadLetter(e, g, k)
        PROVE  attempt' = attempt
    BY <1>8 DEF OutboxLeaseExpire, ReleaseOutboxLease, MarkOutboxPublished, ReconcileDeadLetter
  <1>9. ASSUME NEW e \in Execs, NEW i \in Gens \X Kinds,
               \/ CloseSettledIncident(e, i)
               \/ TerminateIncident(e, i)
               \/ RecoverPendingDispatch(e, i)
               \/ RecoverPublishedDispatch(e, i)
        PROVE  attempt' = attempt
    BY <1>9 DEF CloseSettledIncident, TerminateIncident, RecoverPendingDispatch,
       RecoverPublishedDispatch
  <1>10. ASSUME NEW e \in Execs, NEW n \in Attempts, AcquireReplacementGuard(e, n)
         PROVE  attempt' = attempt
    BY <1>10 DEF AcquireReplacementGuard
  <1>11. ASSUME NEW r \in Relays, NEW batch \in SUBSET (Execs \X Gens), LeaseDueOutbox(r, batch)
         PROVE  attempt' = attempt
    BY <1>11 DEF LeaseDueOutbox
  <1>12. ASSUME NEW a \in Adapters, AcquireGcGuard(a) \/ FinishGuard(a) PROVE attempt' = attempt
    BY <1>12 DEF AcquireGcGuard, FinishGuard
  <1>13. UNCHANGED vars => attempt' = attempt
    BY DEF vars
  <1>14. attempt' = attempt \/ \E e \in Execs, n \in Attempts : Change(e, n)
    <2> HIDE DEF Change
    <2> QED
      BY <1>3, <1>4, <1>5, <1>6, <1>7, <1>8, <1>9, <1>10, <1>11, <1>12, <1>13 DEF Next
  <1> QED
    BY <1>14

\* An Attempt that exists stays, and one that has begun never starts over.
LEMMA AttemptStays ==
    ASSUME IInv, Numbered, [Next]_vars, NEW d \in Execs, NEW k \in Attempts
    PROVE  /\ attempt[d][k].status # "absent" => attempt'[d][k].status # "absent"
           /\ attempt[d][k].status \in Begun => attempt'[d][k].status \in Begun
  <1>1. CASE attempt' = attempt
    BY <1>1
  <1>2. ASSUME NEW e \in Execs, NEW n \in Attempts, NEW row,
               attempt' = [attempt EXCEPT ![e][n] = row],
               \/ row.status = attempt[e][n].status
               \/ row.status \in Begun
               \/ n = execution[e].attempt_count + 1
        PROVE  /\ attempt[d][k].status # "absent" => attempt'[d][k].status # "absent"
               /\ attempt[d][k].status \in Begun => attempt'[d][k].status \in Begun
    <2>1. attempt'[d][k] = IF d = e /\ k = n THEN row ELSE attempt[d][k]
      BY <1>2 DEF IInv, TypeOK
    <2>2. "absent" \notin Begun
      BY DEF Begun, Results, Reports
    <2>3. execution[e].attempt_count \in Nat
      BY RowTypes DEF IInv, Execution
    <2>4. n = execution[e].attempt_count + 1 => attempt[e][n].status = "absent"
      BY <2>3 DEF Numbered, Attempts
    <2> QED
      BY <1>2, <2>1, <2>2, <2>4
  <1> QED
    BY <1>1, <1>2, AttemptShapes

\* What a ticket's next state may be: it stops working, goes on with the same
\* Attempt, having started it if it runs,
Steady(t) ==
    ticket'[t].pc \in Working =>
       /\ ticket[t].pc \in Working
       /\ ticket'[t].msg = ticket[t].msg
       /\ ticket'[t].n = ticket[t].n
       /\ ticket'[t].pc = "running" =>
             \/ ticket[t].pc = "running"
             \/ attempt'[ticket[t].msg[1]][ticket[t].n].status = "running"

\* or has just claimed a new one.
Claims(t) ==
    LET e == ticket[t].msg[1]
        n == execution[e].attempt_count + 1
    IN  /\ e \in Execs /\ n \in Attempts
        /\ ticket'[t].pc = "execute"
        /\ ticket'[t].msg = ticket[t].msg
        /\ ticket'[t].n = n
        /\ attempt'[e][n].status = "claimed"
        /\ \A u \in Tickets \ {t} : ticket'[u] = ticket[u]

\* Every step moves the tickets in one of these ways.
LEMMA TicketShapes ==
    ASSUME PathTyped, IInv, [DNext]_dvars
    PROVE  (\A t \in Tickets : Steady(t)) \/ \E t \in Tickets : Claims(t)
  <1>a. ticket \in [Tickets -> TicketState] /\ TypeOK
    BY DEF PathTyped, DTypeOK, TicketState, IInv
  <1>1. ASSUME ticket' = ticket PROVE \A t \in Tickets : Steady(t)
    BY <1>1 DEF Steady
  <1>2. ASSUME NEW t \in Tickets, NEW x, ticket' = [ticket EXCEPT ![t] = x], x.pc \notin Working
        PROVE  \A u \in Tickets : Steady(u)
    BY <1>2, <1>a DEF Steady
  <1>3. ASSUME NEW t \in Tickets, NEW x, ticket' = [ticket EXCEPT ![t] = x],
               x.pc # "running", ticket[t].pc \in Working,
               x.msg = ticket[t].msg, x.n = ticket[t].n
        PROVE  \A u \in Tickets : Steady(u)
    BY <1>3, <1>a DEF Steady
  <1>4. ASSUME NEW t \in Tickets, ticket' = [ticket EXCEPT ![t] = FreeTicket]
        PROVE  \A u \in Tickets : Steady(u)
    BY <1>2, <1>4, IdleStates DEF Working
  <1>5. ASSUME NEW t \in Tickets, NEW m \in Messages, Deliver(t, m)
        PROVE  \A u \in Tickets : Steady(u)
    <2> DEFINE x == [pc |-> "delivered", msg |-> m, n |-> 0]
    <2>1. ticket' = [ticket EXCEPT ![t] = x] /\ x.pc \notin Working
      BY <1>5 DEF Deliver, Working
    <2> HIDE DEF x
    <2> QED
      BY <1>2, <2>1
  <1>6. ASSUME NEW t \in Tickets, TicketClaim(t)
        PROVE  (\A u \in Tickets : Steady(u)) \/ Claims(t)
    <2> DEFINE m == ticket[t].msg
               k == IF ClaimReply(m) = "execute" THEN execution[m[1]].attempt_count + 1 ELSE 0
               x == [ticket[t] EXCEPT !.pc = ClaimReply(m), !.n = k]
    <2>1. ticket' = [ticket EXCEPT ![t] = x]
      BY <1>6, <1>a DEF TicketClaim, TicketState
    <2>2. m \in Messages /\ m[1] \in Execs /\ m[2] \in Gens
      BY <1>6 DEF TicketClaim, PathTyped, GoodTicket, Messages
    <2>3. x.pc = ClaimReply(m) /\ x.msg = m /\ x.n = k
      BY <1>a DEF TicketState
    <2>4. CASE ClaimReply(m) # "execute"
      <3>1. ClaimReply(m) \notin Working
        BY <1>a, <2>2, <2>4, ReplyRange DEF Working
      <3> HIDE DEF x
      <3> QED
        BY <1>2, <2>1, <2>3, <3>1
    <2>5. CASE ClaimReply(m) = "execute"
      <3> DEFINE e == m[1]
                 n == execution[e].attempt_count + 1
      <3>1. /\ execution[e].status = "queued" /\ execution[e].gen = m[2]
            /\ ~ execution[e].cancel_requested /\ ~ Guarded(e)
            /\ ~ (execution[e].attempt_count + 1 > MaxAttempts)
        <4>1. execution[e].gen \in Int /\ m[2] \in Int
          BY <1>a, <2>2, RowTypes DEF Execution, Gens
        <4> QED
          BY <2>5, <4>1 DEF ClaimReply
      <3>2. ClaimDispatch(e, m[2])
        BY <1>6, <2>5, <3>1 DEF TicketClaim, ClaimTransaction
      <3>3. ClaimAttempt(e, n)
        BY <3>1, <3>2 DEF ClaimDispatch
      <3>4. n \in Attempts
        BY <1>a, <2>2, <2>5, ReplyRange
      <3>5. attempt'[e][n].status = "claimed"
        <4>1. attempt' = [attempt EXCEPT ![e][n] =
                             [status |-> "claimed", fence |-> NextFence(AdapterOf[e]),
                              lease |-> LeaseTicks]]
          BY <3>3 DEF ClaimAttempt
        <4> HIDE DEF n, e
        <4> QED
          BY <1>a, <2>2, <3>4, <4>1 DEF TypeOK, e
      <3>6. k = n
        BY <2>5
      <3> HIDE DEF x, k
      <3>7. ticket'[t] = x /\ \A u \in Tickets \ {t} : ticket'[u] = ticket[u]
        BY <1>a, <2>1
      <3> QED
        BY <2>2, <2>3, <2>5, <3>4, <3>5, <3>6, <3>7 DEF Claims
    <2> QED
      BY <2>4, <2>5
  <1>7. ASSUME NEW t \in Tickets, NEW p, p # "running",
               ticket' = [ticket EXCEPT ![t] = [ticket[t] EXCEPT !.pc = p]],
               ticket[t].pc \in Working \/ p \notin Working
        PROVE  \A u \in Tickets : Steady(u)
    <2> DEFINE x == [ticket[t] EXCEPT !.pc = p]
    <2>1. x.pc = p /\ x.msg = ticket[t].msg /\ x.n = ticket[t].n
      BY <1>a DEF TicketState
    <2>2. ticket' = [ticket EXCEPT ![t] = x]
      BY <1>7
    <2> HIDE DEF x
    <2> QED
      BY <1>2, <1>3, <1>7, <2>1, <2>2
  <1>8. ASSUME NEW t \in Tickets, TicketJournal(t) \/ TicketPrepareFailed(t)
        PROVE  \A u \in Tickets : Steady(u)
    BY <1>7, <1>8 DEF TicketJournal, TicketPrepareFailed, Working
  <1>9. ASSUME NEW t \in Tickets, NEW lost \in BOOLEAN, TicketSend(t, lost)
        PROVE  \A u \in Tickets : Steady(u)
    <2>1. \/ ticket' = [ticket EXCEPT ![t] = FreeTicket]
          \/ /\ ticket[t].pc = "journaled"
             /\ ticket' = [ticket EXCEPT ![t] = [ticket[t] EXCEPT !.pc = "acked"]]
      BY <1>9 DEF TicketSend
    <2> QED
      BY <1>4, <1>7, <2>1 DEF Working
  <1>10. ASSUME NEW t \in Tickets, TicketFault(t) PROVE \A u \in Tickets : Steady(u)
    <2>1. \/ ticket' = [ticket EXCEPT ![t] = FreeTicket]
          \/ ticket' = [ticket EXCEPT ![t] = [ticket[t] EXCEPT !.pc = "orphan"]]
      BY <1>10 DEF TicketFault
    <2> QED
      BY <1>4, <1>7, <2>1 DEF Working
  <1>11. ASSUME NEW t \in Tickets, TicketStart(t) PROVE \A u \in Tickets : Steady(u)
    <2> DEFINE e == ticket[t].msg[1]
               n == ticket[t].n
    <2>1. CASE ticket' = [ticket EXCEPT ![t] = FreeTicket]
      BY <1>4, <2>1
    <2>2. CASE ticket' # [ticket EXCEPT ![t] = FreeTicket]
      <3>1. /\ ticket' = [ticket EXCEPT ![t] = [ticket[t] EXCEPT !.pc = "running"]]
            /\ StartAttempt(e, n) /\ ~ execution[e].cancel_requested
            /\ ticket[t].pc = "acked"
        BY <1>11, <2>2 DEF TicketStart
      <3>2. e \in Execs /\ n \in Attempts
        BY <3>1 DEF PathTyped, GoodTicket, Working, Messages
      <3>3. attempt' = [attempt EXCEPT ![e][n] = [attempt[e][n] EXCEPT !.status = "running"]]
        BY <3>1, Zenon DEF StartAttempt
      <3>4. attempt'[e][n].status = "running"
        <4>1. attempt'[e][n] = [attempt[e][n] EXCEPT !.status = "running"]
          BY <1>a, <3>2, <3>3 DEF TypeOK
        <4>2. attempt[e][n] \in Attempt
          BY <1>a, <3>2, RowTypes
        <4> QED
          BY <4>1, <4>2 DEF Attempt
      <3>5. /\ ticket'[t].msg = ticket[t].msg /\ ticket'[t].n = n
            /\ \A u \in Tickets \ {t} : ticket'[u] = ticket[u]
        BY <1>a, <3>1 DEF TicketState
      <3> QED
        BY <3>1, <3>4, <3>5 DEF Steady, Working
    <2> QED
      BY <2>1, <2>2
  <1>12. ASSUME NEW t \in Tickets,
                \/ TicketLateRequest(t)
                \/ \E r \in Reports : TicketFinish(t, r)
                \/ TicketAbandon(t)
         PROVE  \A u \in Tickets : Steady(u)
    BY <1>4, <1>12 DEF TicketLateRequest, TicketFinish, TicketAbandon
  <1>13. ASSUME NEW t \in Tickets, TicketRenew(t) \/ TicketReplaceCache(t)
         PROVE  ticket' = ticket
    BY <1>13 DEF TicketRenew, TicketReplaceCache, transport
  <1>14. ASSUME NEW r \in Relays,
                \/ RelayLease(r)
                \/ RelayCheck(r)
                \/ RelayPublish(r)
                \/ RelayPublishFails(r)
                \/ RelayConnectFails(r)
                \/ RelayMark(r)
                \/ RelayRelease(r)
                \/ RelayCrash(r)
         PROVE  ticket' = ticket
    BY <1>14 DEF RelayLease, RelayCheck, RelayPublish, RelayPublishFails, RelayConnectFails,
       RelayMark, RelayRelease, RelayCrash
  <1>15. ASSUME NEW m \in Messages,
                \/ BrokerDeadLetter(m)
                \/ \E k \in Kinds, acked \in BOOLEAN : DrainDlq(m, k, acked)
         PROVE  ticket' = ticket
    BY <1>15 DEF BrokerDeadLetter, DrainDlq
  <1>16. ControlStep \/ UNCHANGED dvars => ticket' = ticket
    BY DEF ControlStep, dvars, transport
  <1> QED
    BY <1>1, <1>5, <1>6, <1>8, <1>9, <1>10, <1>11, <1>12, <1>13, <1>14, <1>15, <1>16 DEF DNext

\* Tickets never share an Attempt: the one a Claim creates did not exist before,
\* so no ticket can be working for it.
LEMMA TicketsNext ==
    ASSUME PathTyped, IInv, Numbered, OneTicketPerAttempt, [DNext]_dvars
    PROVE  OneTicketPerAttempt'
  <1>a. [Next]_vars /\ PathTyped'
    BY PathCalls, PathNext DEF IInv
  <1>b. \A t \in Tickets : ticket[t].pc \in Working =>
           ticket[t].msg[1] \in Execs /\ ticket[t].n \in Attempts
    BY DEF PathTyped, GoodTicket, Working, Messages
  <1>c. \A e \in Execs, n \in Attempts :
           /\ attempt[e][n].status # "absent" => attempt'[e][n].status # "absent"
           /\ attempt[e][n].status \in Begun => attempt'[e][n].status \in Begun
    BY <1>a, AttemptStays
  <1>d. \A t \in Tickets : ticket[t].pc \in Working =>
           /\ attempt[ticket[t].msg[1]][ticket[t].n].status # "absent"
           /\ ticket[t].pc = "running" =>
                 attempt[ticket[t].msg[1]][ticket[t].n].status \in Begun
           /\ \A u \in Tickets \ {t} :
                 ticket[u].pc \in Working =>
                    <<ticket[u].msg[1], ticket[u].n>> # <<ticket[t].msg[1], ticket[t].n>>
    BY DEF OneTicketPerAttempt, Begun
  <1>1. CASE \A t \in Tickets : Steady(t)
    <2> SUFFICES ASSUME NEW t \in Tickets, ticket'[t].pc \in Working
                 PROVE  /\ attempt'[ticket'[t].msg[1]][ticket'[t].n].status # "absent"
                        /\ ticket'[t].pc = "running" =>
                              attempt'[ticket'[t].msg[1]][ticket'[t].n].status \in Begun
                        /\ \A u \in Tickets \ {t} :
                              ticket'[u].pc \in Working =>
                                 <<ticket'[u].msg[1], ticket'[u].n>> # <<ticket'[t].msg[1], ticket'[t].n>>
      BY DEF OneTicketPerAttempt, Begun
    <2>1. /\ ticket[t].pc \in Working
          /\ ticket'[t].msg = ticket[t].msg /\ ticket'[t].n = ticket[t].n
          /\ ticket'[t].pc = "running" =>
                \/ ticket[t].pc = "running"
                \/ attempt'[ticket[t].msg[1]][ticket[t].n].status = "running"
      BY <1>1 DEF Steady
    <2>2. attempt'[ticket'[t].msg[1]][ticket'[t].n].status # "absent"
      BY <1>b, <1>c, <1>d, <2>1
    <2>3. ticket'[t].pc = "running" =>
             attempt'[ticket'[t].msg[1]][ticket'[t].n].status \in Begun
      BY <1>b, <1>c, <1>d, <2>1 DEF Begun
    <2>4. ASSUME NEW u \in Tickets \ {t}, ticket'[u].pc \in Working
          PROVE  <<ticket'[u].msg[1], ticket'[u].n>> # <<ticket'[t].msg[1], ticket'[t].n>>
      <3>1. ticket[u].pc \in Working /\ ticket'[u].msg = ticket[u].msg /\ ticket'[u].n = ticket[u].n
        BY <1>1, <2>4 DEF Steady
      <3> QED
        BY <1>d, <2>1, <3>1
    <2> QED
      BY <2>2, <2>3, <2>4
  <1>2. ASSUME NEW t \in Tickets, Claims(t) PROVE OneTicketPerAttempt'
    <2> DEFINE e == ticket[t].msg[1]
               n == execution[e].attempt_count + 1
    <2>1. /\ e \in Execs /\ n \in Attempts
          /\ ticket'[t].pc = "execute" /\ ticket'[t].msg[1] = e /\ ticket'[t].n = n
          /\ attempt'[e][n].status = "claimed"
          /\ \A u \in Tickets \ {t} : ticket'[u] = ticket[u]
      BY <1>2, Zenon DEF Claims
    <2>2. attempt[e][n].status = "absent"
      <3>1. execution[e].attempt_count \in Nat
        BY <2>1, RowTypes DEF IInv, Execution
      <3> QED
        BY <2>1, <3>1 DEF Numbered, Attempts
    <2> HIDE DEF e, n
    <2>3. \A u \in Tickets \ {t} : ticket'[u].pc \in Working =>
             <<ticket'[u].msg[1], ticket'[u].n>> # <<e, n>>
      BY <1>d, <2>1, <2>2
    <2> SUFFICES ASSUME NEW v \in Tickets, ticket'[v].pc \in Working
                 PROVE  /\ attempt'[ticket'[v].msg[1]][ticket'[v].n].status # "absent"
                        /\ ticket'[v].pc = "running" =>
                              attempt'[ticket'[v].msg[1]][ticket'[v].n].status \in Begun
                        /\ \A u \in Tickets \ {v} :
                              ticket'[u].pc \in Working =>
                                 <<ticket'[u].msg[1], ticket'[u].n>> # <<ticket'[v].msg[1], ticket'[v].n>>
      BY DEF OneTicketPerAttempt, Begun
    <2>4. CASE v = t
      BY <2>1, <2>3, <2>4
    <2>5. CASE v # t
      <3>1. ticket'[v] = ticket[v] /\ ticket[v].pc \in Working
        BY <2>1, <2>5
      <3>2. /\ attempt'[ticket'[v].msg[1]][ticket'[v].n].status # "absent"
            /\ ticket'[v].pc = "running" =>
                  attempt'[ticket'[v].msg[1]][ticket'[v].n].status \in Begun
        BY <1>b, <1>c, <1>d, <3>1
      <3>3. ASSUME NEW u \in Tickets \ {v}, ticket'[u].pc \in Working
            PROVE  <<ticket'[u].msg[1], ticket'[u].n>> # <<ticket'[v].msg[1], ticket'[v].n>>
        <4>1. CASE u = t
          BY <2>1, <2>3, <2>5, <4>1
        <4>2. CASE u # t
          BY <1>d, <2>1, <3>1, <3>3, <4>2
        <4> QED
          BY <4>1, <4>2
      <3> QED
        BY <3>2, <3>3
    <2> QED
      BY <2>4, <2>5
  <1> QED
    BY <1>1, <1>2, TicketShapes

\* However often a message is duplicated or redelivered, an Attempt belongs to
\* one ticket, and a ticket runs the Adapter only for an Attempt that Control
\* has started.
THEOREM TicketsExclusive == DSpec => []OneTicketPerAttempt
  <1>1. DInit => Numbered /\ OneTicketPerAttempt
    <2> SUFFICES ASSUME DInit PROVE Numbered /\ OneTicketPerAttempt
      OBVIOUS
    <2>1. Numbered
      BY ConstantsAssumption DEF DInit, Init, Numbered, Attempts
    <2>2. \A t \in Tickets : ticket[t].pc \notin Working
      BY IdleStates DEF DInit, Working
    <2> QED
      BY <2>1, <2>2 DEF OneTicketPerAttempt
  <1>2. PathTyped /\ IInv /\ Numbered /\ OneTicketPerAttempt /\ [DNext]_dvars
           => Numbered' /\ OneTicketPerAttempt'
    <2> SUFFICES ASSUME PathTyped, IInv, Numbered, OneTicketPerAttempt, [DNext]_dvars
                 PROVE  Numbered' /\ OneTicketPerAttempt'
      OBVIOUS
    <2>1. [Next]_vars
      BY PathCalls DEF IInv
    <2> QED
      BY <2>1, NumberedNext, TicketsNext
  <1> QED
    BY <1>1, <1>2, ControlInvariance, PTL DEF DSpec

-----------------------------------------------------------------------------
(* No dispatch is lost.  A queued generation is covered by its pending row,  *)
(* by a copy of its message that no Claim has decided about yet, or by an    *)
(* Incident; and a Relay that still owns the row it has published leaves     *)
(* such a copy or an Incident behind when it marks the row.                  *)

QueuedAs(m) == execution[m[1]].status = "queued" /\ execution[m[1]].gen = m[2]

RowOf(m) == outbox[m[1]][m[2]]

\* A ticket that has decided to acknowledge no longer counts.
Carried(m) ==
    \/ ready[m] > 0
    \/ \E t \in Tickets : ticket[t].msg = m /\ ticket[t].pc \in {"delivered", "defer"}
    \/ DeadLettered(m)

OnRecord(m) == \E k \in Kinds : incident[m[1]][<<m[2], k>>] # "absent"

Filed == {m \in Messages : OnRecord(m)}

\* Dispatches that an operator has an open Incident of.
OpenAt(m, k) == incident[m[1]][<<m[2], k>>] \in {"open", "terminating"}

Opened == {m \in Messages : \E k \in Kinds : OpenAt(m, k)}

\* rec is what counts as a record of a dispatch.
Custody(rec) ==
    /\ \A m \in Messages :
          QueuedAs(m) => RowOf(m).status = "pending" \/ Carried(m) \/ m \in rec
    /\ \A r \in Relays, m \in Messages :
          relay[r].pc = "confirmed" /\ relay[r].cur = m /\ QueuedAs(m) /\ Owns(r, m[1], m[2])
             => Carried(m) \/ m \in rec

\* Incidents are never deleted.
LEMMA RecordStays ==
    ASSUME TypeOK, [Next]_vars, NEW m \in Messages, OnRecord(m)
    PROVE  OnRecord(m)'
  <1>a. m[1] \in Execs /\ m[2] \in Gens /\ m = <<m[1], m[2]>>
    BY DEF Messages
  <1>b. PICK k \in Kinds : incident[m[1]][<<m[2], k>>] # "absent"
    BY DEF OnRecord
  <1> DEFINE i == <<m[2], k>>
             e == m[1]
  <1>c. i \in Gens \X Kinds /\ incident \in [Execs -> [Gens \X Kinds -> IncidentStatus]]
    BY <1>a DEF TypeOK
  <1>d. ASSUME incident'[e][i] # "absent" PROVE OnRecord(m)'
    BY <1>d DEF OnRecord
  <1>1. ASSUME incident' = incident PROVE incident'[e][i] # "absent"
    BY <1>1, <1>b
  <1>2. ASSUME NEW d \in Execs, NEW inc, incident' = [incident EXCEPT ![d] = inc],
               \A j \in Gens \X Kinds : incident[d][j] # "absent" => inc[j] # "absent"
        PROVE  incident'[e][i] # "absent"
    BY <1>2, <1>a, <1>b, <1>c
  <1>3. ASSUME NEW d \in Execs, NEW j \in Gens \X Kinds, NEW v, v # "absent",
               incident' = [incident EXCEPT ![d][j] = v]
        PROVE  incident'[e][i] # "absent"
    <2>1. incident'[e][i] = IF d = e /\ i = j THEN v ELSE incident[e][i]
      BY <1>3, <1>a, <1>c
    <2> QED
      BY <1>3, <1>b, <2>1
  <1>4. ASSUME NEW d \in Execs
        PROVE  /\ Converged(d) \in [Gens \X Kinds -> IncidentStatus]
               /\ \A j \in Gens \X Kinds : incident[d][j] # "absent" => Converged(d)[j] # "absent"
    BY <1>4, <1>c DEF Converged, IncidentStatus
  <1>5. ASSUME NEW d \in Execs, NEW s, Finalize(d, s) PROVE incident'[e][i] # "absent"
    BY <1>2, <1>4, <1>5 DEF Finalize
  <1>6. ASSUME NEW d \in Execs, NEW n, NEW r, ApplyTerminal(d, n, r)
        PROVE  incident'[e][i] # "absent"
    BY <1>1, <1>5, <1>6 DEF ApplyTerminal
  <1>7. ASSUME NEW d \in Execs, NEW g \in Gens, ClaimDispatch(d, g)
        PROVE  incident'[e][i] # "absent"
    <2>1. (\E s : Finalize(d, s)) \/ incident' = incident
      BY <1>7 DEF ClaimDispatch, ClaimAttempt
    <2> QED
      BY <1>1, <1>5, <2>1
  <1>8. ASSUME NEW d \in Execs, NEW n \in Attempts,
               \/ StartAttempt(d, n)
               \/ RecoverExpiredAttempt(d, n)
               \/ \E r \in Results : FinishAttempt(d, n, r) \/ PrepareFailed(d, n, r)
        PROVE  incident'[e][i] # "absent"
    <2>1. incident' = incident \/ \E r : ApplyTerminal(d, n, r)
      BY <1>8 DEF StartAttempt, RecoverExpiredAttempt, FinishAttempt, PrepareFailed
    <2> QED
      BY <1>1, <1>6, <2>1
  <1>9. ASSUME NEW d \in Execs, CancelExecution(d) PROVE incident'[e][i] # "absent"
    <2>1. \/ incident' = [incident EXCEPT ![d] = Converged(d)]
          \/ incident' = [incident EXCEPT ![d] = incident[d]]
      BY <1>9 DEF CancelExecution, CancelLocked
    <2> QED
      BY <1>2, <1>4, <2>1
  <1>10. ASSUME NEW d \in Execs, NEW j \in Gens \X Kinds, TerminateIncident(d, j)
         PROVE  incident'[e][i] # "absent"
    <2> DEFINE x == [Converged(d) EXCEPT ![j] = "closed"]
               v == IF incident[d][j] = "closed" THEN "closed" ELSE "terminating"
               y == [incident[d] EXCEPT ![j] = v]
    <2>1. incident' = [incident EXCEPT ![d] = x] \/ incident' = [incident EXCEPT ![d] = y]
      BY <1>10 DEF TerminateIncident, CancelLocked
    <2>2. v # "absent"
      OBVIOUS
    <2> HIDE DEF v
    <2>3. \A h \in Gens \X Kinds : incident[d][h] # "absent" => x[h] # "absent" /\ y[h] # "absent"
      BY <1>4, <1>c, <2>2
    <2> HIDE DEF x, y
    <2> QED
      BY <1>2, <2>1, <2>3
  <1>11. ASSUME NEW d \in Execs, NEW g \in Gens, NEW h \in Kinds, ReconcileDeadLetter(d, g, h)
         PROVE  incident'[e][i] # "absent"
    <2>1. PICK v \in {"closed", "terminating", "open"} :
             incident' = [incident EXCEPT ![d][<<g, h>>] = v]
      BY <1>11 DEF ReconcileDeadLetter
    <2> QED
      BY <1>3, <2>1
  <1>12. ASSUME NEW d \in Execs, NEW j \in Gens \X Kinds,
                \/ CloseSettledIncident(d, j)
                \/ RecoverPendingDispatch(d, j)
                \/ RecoverPublishedDispatch(d, j)
         PROVE  incident'[e][i] # "absent"
    <2>1. incident' = [incident EXCEPT ![d][j] = "closed"]
      BY <1>12 DEF CloseSettledIncident, RecoverPendingDispatch, RecoverPublishedDispatch,
         CloseIncident
    <2> QED
      BY <1>3, <2>1
  <1>13. ASSUME NEW d \in Execs,
                AcceptExecution(d) \/ RetryDispatch(d) \/ SettleCancelledOutbox(d)
         PROVE  incident' = incident
    BY <1>13 DEF AcceptExecution, RetryDispatch, SettleCancelledOutbox
  <1>14. ASSUME NEW d \in Execs, NEW g \in Gens,
                \/ OutboxLeaseExpire(d, g)
                \/ \E r \in Relays : ReleaseOutboxLease(r, d, g) \/ MarkOutboxPublished(r, d, g)
         PROVE  incident' = incident
    BY <1>14 DEF OutboxLeaseExpire, ReleaseOutboxLease, MarkOutboxPublished
  <1>15. ASSUME NEW d \in Execs, NEW n \in Attempts,
                RenewAttempt(d, n) \/ AttemptLeaseTick(d, n) \/ AcquireReplacementGuard(d, n)
         PROVE  incident' = incident
    BY <1>15 DEF RenewAttempt, AttemptLeaseTick, AcquireReplacementGuard
  <1>16. ASSUME NEW r \in Relays, NEW batch \in SUBSET (Execs \X Gens), LeaseDueOutbox(r, batch)
         PROVE  incident' = incident
    BY <1>16 DEF LeaseDueOutbox
  <1>17. ASSUME NEW a \in Adapters, AcquireGcGuard(a) \/ FinishGuard(a) PROVE incident' = incident
    BY <1>17 DEF AcquireGcGuard, FinishGuard
  <1>18. UNCHANGED vars => incident' = incident
    BY DEF vars
  <1>19. incident'[e][i] # "absent"
    <2> HIDE DEF e, i
    <2> QED
      BY <1>1, <1>7, <1>8, <1>9, <1>10, <1>11, <1>12, <1>13, <1>14, <1>15, <1>16, <1>17, <1>18
         DEF Next
  <1> QED
    BY <1>d, <1>19

\* A generation that becomes current has a fresh row that nobody leases.
LEMMA QueuedShapes ==
    ASSUME IInv, RowsInv, [Next]_vars, NEW m \in Messages, QueuedAs(m)'
    PROVE  QueuedAs(m) \/ RowOf(m)' = PendingRow
  <1> DEFINE e == m[1]
  <1>a. e \in Execs /\ m[2] \in Gens /\ execution'[e].status = "queued" /\ execution'[e].gen = m[2]
    BY DEF Messages, QueuedAs
  <1>b. execution[e].gen \in Nat
    BY <1>a, RowTypes DEF IInv, Execution
  <1>1. CASE NextGeneration(e)
    BY <1>1, <1>a DEF NextGeneration, RowOf
  <1>2. CASE RowsSettled(e)
    BY <1>2, <1>a DEF RowsSettled
  <1>3. CASE RowsKept(e)
    <2>1. execution[e].gen = m[2] /\ execution[e].status # "absent"
      BY <1>3, <1>a DEF RowsKept
    <2>2. CASE Quiet
      BY <1>a, <2>1, <2>2 DEF Quiet, QueuedAs
    <2>3. ASSUME NEW d \in Execs,
                 AcceptExecution(d) \/ RetryDispatch(d) \/ CancelWaiting(d) \/ CancelRunning(d)
          PROVE  QueuedAs(m)
      <3>1. CASE d # e
        <4>1. execution'[e] = execution[e]
          BY <1>a, <2>3, <3>1, WaitingEffect
        <4> QED
          BY <1>a, <4>1 DEF QueuedAs
      <3>2. CASE d = e
        <4>1. ~ AcceptExecution(e)
          BY <2>1 DEF AcceptExecution
        <4>2. ~ RetryDispatch(e)
          <5>1. RetryDispatch(e) => execution'[e].gen = execution[e].gen + 1
            <6>1. execution \in [Execs -> Execution]
              BY DEF IInv, TypeOK
            <6> QED
              BY <1>a, <6>1 DEF RetryDispatch, Execution
          <5> QED
            BY <1>a, <1>b, <2>1, <5>1
        <4>3. ~ CancelWaiting(e)
          BY <1>a, WaitingEffect
        <4>4. ~ CancelRunning(e)
          BY <1>a, WaitingEffect
        <4> QED
          BY <2>3, <3>2, <4>1, <4>2, <4>3, <4>4
      <3> QED
        BY <3>1, <3>2
    <2>4. ASSUME NEW d \in Execs, NEW n \in Attempts, Claiming(d, n) PROVE QueuedAs(m)
      <3>1. /\ \A f \in Execs \ {d} : execution'[f] = execution[f]
            /\ execution'[d].status = "running"
        BY <2>4, ClaimingEffect
      <3> QED
        BY <1>a, <3>1 DEF QueuedAs
    <2>5. ASSUME NEW d \in Execs, NEW n \in Attempts, NEW r \in Results, Ending(d, n, r)
          PROVE  QueuedAs(m)
      <3>1. /\ \A f \in Execs \ {d} : execution'[f] = execution[f]
            /\ execution'[d].status \in Terminal \cup {"retry_wait"}
        BY <2>5, EndingExecution
      <3> QED
        BY <1>a, <3>1 DEF QueuedAs, Terminal
    <2> QED
      BY <2>2, <2>3, <2>4, <2>5, Shapes
  <1> QED
    BY <1>1, <1>2, <1>3, <1>a, RowShapes
       \* What one transaction may do to the row of a dispatch that stays queued.
       RowSame(m) == RowOf(m)'.status = RowOf(m).status /\ RowOf(m)'.owner = RowOf(m).owner

RowRequeued(m) == RowOf(m)'.status = "pending" /\ RowOf(m)'.owner = NoOwner

\* Only the Relay that owns the row of a queued dispatch marks it published,
\* and only a Relay that begins its cycle takes it over.
RowMarked(m) ==
    \E r \in Relays : /\ RelayMark(r) /\ relay[r].cur = m /\ Owns(r, m[1], m[2])
                      /\ RowOf(m)'.status = "published"

RowLeased(m) ==
    \E r \in Relays : /\ RelayLease(r)
                      /\ RowOf(m)'.status = RowOf(m).status
                      /\ RowOf(m)'.owner \in {RowOf(m).owner, r}

\* Writing one row.
LEMMA RowWritten ==
    ASSUME TypeOK, NEW m \in Messages, NEW d \in Execs, NEW g \in Gens, NEW row,
           outbox' = [outbox EXCEPT ![d][g] = row]
    PROVE  \/ RowOf(m)' = RowOf(m)
           \/ m[1] = d /\ m[2] = g /\ RowOf(m)' = row
  <1>1. m[1] \in Execs /\ m[2] \in Gens
    BY DEF Messages
  <1>2. outbox'[m[1]][m[2]] = IF m[1] = d /\ m[2] = g THEN row ELSE outbox[m[1]][m[2]]
    BY <1>1 DEF TypeOK
  <1> QED
    BY <1>2 DEF RowOf

\* Writing the rows of another Execution.
LEMMA RowElsewhere ==
    ASSUME TypeOK, NEW m \in Messages, NEW d \in Execs, NEW rows,
           outbox' = [outbox EXCEPT ![d] = rows], m[1] # d
    PROVE  RowOf(m)' = RowOf(m)
  <1>1. m[1] \in Execs
    BY DEF Messages
  <1> QED
    BY <1>1 DEF TypeOK, RowOf

\* The rows that take a dispatch back.
LEMMA BackRows ==
    /\ PendingRow.status = "pending" /\ PendingRow.owner = NoOwner
    /\ DeferredRow.status = "pending" /\ DeferredRow.owner = NoOwner
    /\ PublishedRow.status = "published"
  BY DEF PendingRow, DeferredRow, PublishedRow

\* A claim leaves the rows alone or defers its own.
LEMMA ClaimRows ==
    ASSUME NEW e, NEW g, ClaimDispatch(e, g)
    PROVE  \/ outbox' = outbox
           \/ outbox' = [outbox EXCEPT ![e][g] = DeferredRow]
  <1>1. ASSUME NEW k, ClaimAttempt(e, k) PROVE outbox' = outbox
    BY <1>1 DEF ClaimAttempt
  <1>2. ASSUME DeferDispatch(e, g) PROVE outbox' = [outbox EXCEPT ![e][g] = DeferredRow]
    BY <1>2 DEF DeferDispatch
  <1> QED
    BY <1>1, <1>2 DEF ClaimDispatch, vars

\* A ticket's calls leave the rows alone or defer one dispatch.
LEMMA TicketRows ==
    ASSUME PathTyped, TypeOK, NEW m \in Messages, NEW t \in Tickets,
           \/ \E h \in Messages : Deliver(t, h)
           \/ TicketClaim(t)
           \/ TicketJournal(t)
           \/ TicketPrepareFailed(t)
           \/ \E lost \in BOOLEAN : TicketSend(t, lost)
           \/ TicketFault(t)
           \/ TicketLateRequest(t)
           \/ TicketStart(t)
           \/ TicketRenew(t)
           \/ TicketReplaceCache(t)
           \/ \E r \in Reports : TicketFinish(t, r)
           \/ TicketAbandon(t)
    PROVE  RowSame(m) \/ RowRequeued(m)
  <1> DEFINE h == ticket[t].msg
             n == ticket[t].n
  <1>a. outbox' = outbox => RowSame(m)
    BY DEF RowSame, RowOf
  <1>1. ASSUME h \in Messages, ClaimTransaction(h) PROVE RowSame(m) \/ RowRequeued(m)
    <2>1. h[1] \in Execs /\ h[2] \in Gens
      <3> HIDE DEF h
      <3> QED
        BY <1>1 DEF Messages
    <2>2. \/ outbox' = outbox
          \/ outbox' = [outbox EXCEPT ![h[1]][h[2]] = DeferredRow]
      <3>1. ClaimDispatch(h[1], h[2]) \/ UNCHANGED vars
        BY <1>1 DEF ClaimTransaction
      <3> HIDE DEF h
      <3> QED
        BY <3>1, ClaimRows DEF vars
    <2> HIDE DEF h
    <2>3. CASE outbox' = [outbox EXCEPT ![h[1]][h[2]] = DeferredRow]
      <3>1. RowOf(m)' = RowOf(m) \/ RowOf(m)' = DeferredRow
        BY <2>1, <2>3, RowWritten
      <3> QED
        BY <3>1, BackRows DEF RowSame, RowRequeued
    <2> QED
      BY <1>a, <2>2, <2>3
  <1>2. ASSUME NEW e, NEW k,
               \/ StartAttempt(e, k)
               \/ \E r : PrepareFailed(e, k, r) \/ FinishAttempt(e, k, r)
               \/ RenewAttempt(e, k)
               \/ AcquireReplacementGuard(e, k)
               \/ UNCHANGED vars
        PROVE  outbox' = outbox
    BY <1>2 DEF StartAttempt, PrepareFailed, FinishAttempt, RenewAttempt,
       AcquireReplacementGuard, ApplyTerminal, vars
  <1>3. CASE TicketClaim(t)
    <2>1. h \in Messages /\ ClaimTransaction(h)
      BY <1>3 DEF TicketClaim, PathTyped, GoodTicket
    <2> QED
      BY <1>1, <2>1
  <1>4. CASE TicketLateRequest(t)
    <2>1. /\ h \in Messages
          /\ \/ ClaimTransaction(h)
             \/ PrepareFailed(h[1], n, "failed_transient")
             \/ UNCHANGED vars
      BY <1>4 DEF TicketLateRequest, PathTyped, GoodTicket
    <2> HIDE DEF h, n
    <2> QED
      BY <1>1, <1>2, <1>a, <2>1
  <1>5. CASE TicketPrepareFailed(t) \/ TicketStart(t) \/ \E r \in Reports : TicketFinish(t, r)
    <2>1. \/ \E r : PrepareFailed(h[1], n, r) \/ FinishAttempt(h[1], n, r)
          \/ StartAttempt(h[1], n)
          \/ UNCHANGED vars
      BY <1>5, Zenon DEF TicketPrepareFailed, TicketStart, TicketFinish
    <2> HIDE DEF h, n
    <2> QED
      BY <1>2, <1>a, <2>1
  <1>6. CASE TicketRenew(t) \/ TicketReplaceCache(t)
    <2>1. RenewAttempt(h[1], n) \/ AcquireReplacementGuard(h[1], n)
      BY <1>6 DEF TicketRenew, TicketReplaceCache
    <2> HIDE DEF h, n
    <2> QED
      BY <1>2, <1>a, <2>1
  <1>7. ASSUME UNCHANGED vars PROVE RowSame(m)
    BY <1>7, <1>a DEF vars
  <1> QED
    BY <1>3, <1>4, <1>5, <1>6, <1>7
       DEF Deliver, TicketJournal, TicketSend, TicketFault, TicketAbandon

\* The Relays' calls and the row of a dispatch that is queued.
LEMMA RelayRows ==
    ASSUME PathTyped, TypeOK, NEW m \in Messages, QueuedAs(m), NEW r \in Relays,
           \/ RelayLease(r)
           \/ RelayCheck(r)
           \/ RelayPublish(r)
           \/ RelayPublishFails(r)
           \/ RelayConnectFails(r)
           \/ RelayMark(r)
           \/ RelayRelease(r)
           \/ RelayCrash(r)
    PROVE  RowSame(m) \/ RowRequeued(m) \/ RowMarked(m) \/ RowLeased(m)
  <1>a. outbox' = outbox => RowSame(m)
    BY DEF RowSame, RowOf
  <1>b. UNCHANGED vars => outbox' = outbox
    BY DEF vars
  <1>c. GoodRelay(relay[r])
    BY DEF PathTyped
  <1>d. /\ \A h \in relay[r].rest : h \in Messages /\ h[1] \in Execs /\ h[2] \in Gens
        /\ relay[r].pc = "confirmed" =>
              /\ relay[r].cur[1] \in Execs /\ relay[r].cur[2] \in Gens
              /\ relay[r].cur = <<relay[r].cur[1], relay[r].cur[2]>>
    BY <1>c DEF GoodRelay, RelayState, Messages
  <1>e. m[1] \in Execs /\ m[2] \in Gens /\ m = <<m[1], m[2]>>
    BY DEF Messages
  <1>1. CASE RelayLease(r)
    <2>1. PICK batch \in SUBSET Messages : LeaseDueOutbox(r, batch)
      BY <1>1 DEF RelayLease
    <2>2. RowOf(m) \in Row
      BY <1>e DEF RowOf, TypeOK
    <2>3. \/ RowOf(m)' = RowOf(m)
          \/ RowOf(m)' = [RowOf(m) EXCEPT !.owner = r, !.live = TRUE]
      BY <1>e, <2>1 DEF LeaseDueOutbox, RowOf
    <2>4. RowOf(m)'.status = RowOf(m).status /\ RowOf(m)'.owner \in {RowOf(m).owner, r}
      BY <2>2, <2>3 DEF Row
    <2> QED
      BY <1>1, <2>4 DEF RowLeased
  <1>2. CASE RelayCheck(r)
    <2>1. PICK h \in relay[r].rest :
             \/ SettleCancelledOutbox(h[1])
             \/ UNCHANGED vars
      BY <1>2 DEF RelayCheck
    <2>2. ASSUME SettleCancelledOutbox(h[1]) PROVE RowSame(m)
      <3>1. h[1] \in Execs /\ h[1] # m[1] /\ outbox' = [outbox EXCEPT ![h[1]] = Settled(h[1])]
        BY <1>d, <2>2 DEF SettleCancelledOutbox, QueuedAs
      <3> QED
        BY <3>1, RowElsewhere DEF RowSame
    <2> QED
      BY <1>a, <1>b, <2>1, <2>2
  <1>3. CASE RelayMark(r)
    <2> DEFINE e == relay[r].cur[1]
               g == relay[r].cur[2]
    <2>1. /\ e \in Execs /\ g \in Gens /\ relay[r].cur = <<e, g>>
          /\ UNCHANGED vars \/ MarkOutboxPublished(r, e, g)
      BY <1>3, <1>d DEF RelayMark
    <2> HIDE DEF e, g
    <2>2. ASSUME MarkOutboxPublished(r, e, g) PROVE RowSame(m) \/ RowMarked(m)
      <3>1. Owns(r, e, g) /\ outbox' = [outbox EXCEPT ![e][g] = PublishedRow]
        BY <2>2 DEF MarkOutboxPublished
      <3>2. RowOf(m)' = RowOf(m) \/ (m[1] = e /\ m[2] = g /\ RowOf(m)' = PublishedRow)
        BY <2>1, <3>1, RowWritten
      <3>3. CASE m[1] = e /\ m[2] = g /\ RowOf(m)' = PublishedRow
        <4>1. relay[r].cur = m
          BY <1>e, <2>1, <3>3
        <4>2. Owns(r, m[1], m[2])
          BY <3>1, <3>3
        <4>3. RowOf(m)'.status = "published"
          BY <3>3, BackRows
        <4> QED
          BY <1>3, <4>1, <4>2, <4>3 DEF RowMarked
      <3> QED
        BY <3>2, <3>3 DEF RowSame
    <2> QED
      BY <1>a, <1>b, <2>1, <2>2
  <1>4. CASE RelayRelease(r)
    <2>1. PICK h \in relay[r].rest : ReleaseOutboxLease(r, h[1], h[2]) \/ UNCHANGED vars
      BY <1>4 DEF RelayRelease
    <2>2. ASSUME ReleaseOutboxLease(r, h[1], h[2]) PROVE RowSame(m) \/ RowRequeued(m)
      <3>1. outbox' = [outbox EXCEPT ![h[1]][h[2]] = PendingRow]
        BY <2>2 DEF ReleaseOutboxLease
      <3>2. RowOf(m)' = RowOf(m) \/ RowOf(m)' = PendingRow
        BY <1>d, <3>1, RowWritten
      <3> QED
        BY <3>2, BackRows DEF RowSame, RowRequeued
    <2> QED
      BY <1>a, <1>b, <2>1, <2>2
  <1>5. CASE UNCHANGED vars
    BY <1>5, <1>a, <1>b
  <1> QED
    BY <1>1, <1>2, <1>3, <1>4, <1>5 DEF RelayPublish, RelayPublishFails, RelayConnectFails, RelayCrash

\* The row of a dispatch that is queued and stays so.
LEMMA PathRows ==
    ASSUME PathTyped, TypeOK, [DNext]_dvars, NEW m \in Messages, QueuedAs(m), QueuedAs(m)'
    PROVE  RowSame(m) \/ RowRequeued(m) \/ RowMarked(m) \/ RowLeased(m)
  <1>a. outbox' = outbox => RowSame(m)
    BY DEF RowSame, RowOf
  <1>b. /\ m[1] \in Execs /\ m[2] \in Gens
        /\ execution[m[1]].status = "queued" /\ execution[m[1]].gen = m[2]
        /\ execution'[m[1]].status = "queued" /\ execution'[m[1]].gen = m[2]
    BY DEF Messages, QueuedAs
  <1>c. execution \in [Execs -> Execution] /\ outbox \in [Execs -> [Gens -> Row]]
    BY DEF TypeOK
  <1>1. ASSUME NEW d \in Execs, AcceptExecution(d) \/ RetryDispatch(d) PROVE RowSame(m)
    <2>1. d # m[1]
      BY <1>1, <1>b DEF AcceptExecution, RetryDispatch
    <2>2. PICK g : outbox' = [outbox EXCEPT ![d] = [outbox[d] EXCEPT ![g] =
                         IF outbox[d][g].status = "absent" THEN PendingRow ELSE outbox[d][g]]]
      BY <1>1, <1>c DEF AcceptExecution, RetryDispatch, CreateDispatchOutbox
    <2> QED
      BY <2>1, <2>2, RowElsewhere DEF RowSame
  <1>2. ASSUME NEW d \in Execs, NEW inc, CancelLocked(d, inc) PROVE RowSame(m)
    <2>1. CASE outbox' = outbox
      BY <2>1, <1>a
    <2>2. CASE /\ outbox' = [outbox EXCEPT ![d] = Settled(d)]
               /\ execution' = [execution EXCEPT ![d] =
                          [execution[d] EXCEPT !.status = "cancelled", !.released = TRUE]]
      <3>1. d # m[1]
        BY <2>2, <1>b, <1>c DEF Execution
      <3> QED
        BY <2>2, <3>1, RowElsewhere DEF RowSame
    <2> QED
      BY <1>2, <2>1, <2>2 DEF CancelLocked
  <1>3. ASSUME NEW d \in Execs, NEW g \in Gens, OutboxLeaseExpire(d, g) PROVE RowSame(m)
    <2>1. outbox' = [outbox EXCEPT ![d][g] = [outbox[d][g] EXCEPT !.live = FALSE]]
      BY <1>3 DEF OutboxLeaseExpire
    <2>2. \/ RowOf(m)' = RowOf(m)
          \/ m[1] = d /\ m[2] = g /\ RowOf(m)' = [outbox[d][g] EXCEPT !.live = FALSE]
      BY <2>1, RowWritten
    <2>3. outbox[d][g] \in Row
      BY <1>c
    <2> QED
      BY <2>2, <2>3 DEF RowSame, RowOf, Row
  <1>4. ASSUME NEW d \in Execs, NEW i \in Gens \X Kinds, RecoverPublishedDispatch(d, i)
        PROVE  RowSame(m)
    <2>1. /\ execution' = [execution EXCEPT ![d].gen = execution[d].gen + 1]
          /\ outbox' = [outbox EXCEPT ![d] = [outbox[d] EXCEPT ![execution[d].gen + 1] = PendingRow]]
      BY <1>4, <1>c DEF RecoverPublishedDispatch
    <2>2. d # m[1]
      BY <2>1, <1>b, <1>c DEF Execution, Gens
    <2> QED
      BY <2>1, <2>2, RowElsewhere DEF RowSame
  <1>5. CASE ControlStep
    <2>1. ASSUME NEW d \in Execs, CancelExecution(d) PROVE RowSame(m)
      BY <1>2, <2>1 DEF CancelExecution
    <2>2. ASSUME NEW d \in Execs, NEW i \in Gens \X Kinds,
                 \/ CloseSettledIncident(d, i)
                 \/ TerminateIncident(d, i)
                 \/ RecoverPendingDispatch(d, i)
          PROVE  RowSame(m)
      BY <1>2, <1>a, <2>2 DEF CloseSettledIncident, TerminateIncident, RecoverPendingDispatch
    <2>3. ASSUME NEW d \in Execs, NEW n \in Attempts,
                 AttemptLeaseTick(d, n) \/ RecoverExpiredAttempt(d, n)
          PROVE  RowSame(m)
      BY <1>a, <2>3 DEF AttemptLeaseTick, RecoverExpiredAttempt, ApplyTerminal
    <2>4. ASSUME NEW a \in Adapters, AcquireGcGuard(a) \/ FinishGuard(a) PROVE RowSame(m)
      BY <1>a, <2>4 DEF AcquireGcGuard, FinishGuard
    <2> QED
      BY <1>1, <1>3, <1>4, <1>5, <2>1, <2>2, <2>3, <2>4 DEF ControlStep
  <1>6. ASSUME NEW h \in Messages, NEW k \in Kinds, NEW acked \in BOOLEAN, DrainDlq(h, k, acked)
        PROVE  RowSame(m) \/ RowRequeued(m)
    <2>1. outbox' = outbox \/ outbox' = [outbox EXCEPT ![h[1]][h[2]] = PendingRow]
      BY <1>6 DEF DrainDlq, ReconcileDeadLetter
    <2>2. h[1] \in Execs /\ h[2] \in Gens
      BY DEF Messages
    <2> QED
      BY <1>a, <2>1, <2>2, RowWritten, BackRows DEF RowSame, RowRequeued
  <1>7. ASSUME NEW h \in Messages, BrokerDeadLetter(h) PROVE RowSame(m)
    BY <1>7, <1>a DEF BrokerDeadLetter, vars
  <1>8. CASE UNCHANGED dvars
    BY <1>8, <1>a DEF dvars
  <1> QED
    BY <1>5, <1>6, <1>7, <1>8, TicketRows, RelayRows DEF DNext
-----------------------------------------------------------------------------
(* Copies of a message that no Claim has decided about.                      *)

Pending(t, m) == ticket[t].msg = m /\ ticket[t].pc \in {"delivered", "defer"}

\* The ways in which the queue, the DLQ and the tickets keep a copy.
LEMMA CarriedKept ==
    ASSUME PathTyped, PathTyped', NEW m \in Messages, Carried(m),
           ready'[m] >= ready[m],
           \A k \in Kinds : <<m, k>> \in dlq => <<m, k>> \in dlq',
           \A t \in Tickets : Pending(t, m) => Pending(t, m)' \/ ready'[m] > 0 \/ DeadLettered(m)'
    PROVE  Carried(m)'
  <1>1. CASE ready[m] > 0
    <2>1. ready[m] \in Nat
      BY DEF PathTyped, DTypeOK
    <2>2. ready'[m] \in Nat
      BY DEF PathTyped, DTypeOK
    <2>3. ready'[m] > 0
      BY <1>1, <2>1, <2>2
    <2> QED
      BY <2>3 DEF Carried
  <1>2. CASE DeadLettered(m)
    BY <1>2 DEF DeadLettered, Carried
  <1>3. ASSUME NEW t \in Tickets, Pending(t, m) PROVE Carried(m)'
    BY <1>3 DEF Pending, Carried
  <1> QED
    BY <1>1, <1>2, <1>3 DEF Carried, Pending

\* A ticket's step takes no undecided copy away but the one it claims.
LEMMA TicketCarries ==
    ASSUME PathTyped, PathTyped', NEW m \in Messages, Carried(m), NEW t \in Tickets,
           \/ \E h \in Messages : Deliver(t, h)
           \/ TicketClaim(t) /\ ticket[t].msg # m
           \/ TicketJournal(t)
           \/ TicketPrepareFailed(t)
           \/ \E lost \in BOOLEAN : TicketSend(t, lost)
           \/ TicketFault(t)
           \/ TicketLateRequest(t)
           \/ TicketStart(t)
           \/ TicketRenew(t)
           \/ TicketReplaceCache(t)
           \/ \E r \in Reports : TicketFinish(t, r)
           \/ TicketAbandon(t)
    PROVE  Carried(m)'
  <1>a. /\ ticket \in [Tickets -> TicketState] /\ ready \in [Messages -> Nat]
        /\ ready' \in [Messages -> Nat] /\ GoodTicket(ticket[t])
    BY DEF PathTyped, DTypeOK, TicketState
  <1>1. CASE \E h \in Messages : Deliver(t, h)
    <2>1. PICK h \in Messages : Deliver(t, h)
      BY <1>1
    <2>2. CASE h = m
      <3>1. ticket'[t] = [pc |-> "delivered", msg |-> m, n |-> 0]
        BY <1>a, <2>1, <2>2 DEF Deliver
      <3> QED
        BY <3>1 DEF Carried
    <2>3. CASE h # m
      <3>1. ready'[m] = ready[m] /\ dlq' = dlq
        BY <1>a, <2>1, <2>3 DEF Deliver
      <3>2. ASSUME NEW u \in Tickets, Pending(u, m) PROVE Pending(u, m)'
        <4>1. u # t
          BY <2>1, <3>2 DEF Deliver, Pending
        <4>2. ticket'[u] = ticket[u]
          BY <1>a, <2>1, <4>1 DEF Deliver
        <4> QED
          BY <3>2, <4>2 DEF Pending
      <3> QED
        BY <1>a, <3>1, <3>2, CarriedKept
    <2> QED
      BY <2>2, <2>3
  <1>2. CASE /\ ready' = ready /\ dlq' = dlq
             /\ \A u \in Tickets : Pending(u, m) => ticket'[u] = ticket[u]
    BY <1>a, <1>2, CarriedKept DEF Pending
  <1>3. CASE \/ TicketClaim(t) /\ ticket[t].msg # m
             \/ TicketJournal(t)
             \/ TicketPrepareFailed(t)
             \/ TicketLateRequest(t)
             \/ TicketStart(t)
             \/ \E r \in Reports : TicketFinish(t, r)
             \/ TicketAbandon(t)
    <2>1. ready' = ready /\ dlq' = dlq
      BY <1>3, Zenon DEF TicketClaim, TicketJournal, TicketPrepareFailed, TicketLateRequest, TicketStart,
         TicketFinish, TicketAbandon
    <2>2. ~ Pending(t, m)
      BY <1>3 DEF TicketClaim, TicketJournal, TicketPrepareFailed, TicketLateRequest, TicketStart,
         TicketFinish, TicketAbandon, Pending
    <2>3. \A u \in Tickets \ {t} : ticket'[u] = ticket[u]
      BY <1>3, <1>a DEF TicketClaim, TicketJournal, TicketPrepareFailed, TicketLateRequest,
         TicketStart, TicketFinish, TicketAbandon
    <2> QED
      BY <1>2, <2>1, <2>2, <2>3, Zenon
  <1>4. CASE TicketRenew(t) \/ TicketReplaceCache(t)
    BY <1>2, <1>4 DEF TicketRenew, TicketReplaceCache, transport
  <1>5. CASE \E lost \in BOOLEAN : TicketSend(t, lost)
    <2>1. PICK lost \in BOOLEAN : TicketSend(t, lost)
      BY <1>5
    <2> DEFINE h == ticket[t].msg
    <2>2. h \in Messages
      BY <1>a, <2>1 DEF TicketSend, GoodTicket
    <2>3. /\ ready' = ready \/ ready' = [ready EXCEPT ![h] = @ + 1]
          /\ ticket[t].pc = "defer" => ready' = [ready EXCEPT ![h] = @ + 1]
          /\ ticket[t].pc # "delivered"
      BY <2>1 DEF TicketSend
    <2>4. \A u \in Tickets \ {t} : ticket'[u] = ticket[u]
      BY <1>a, <2>1 DEF TicketSend
    <2>5. \A x \in dlq : x \in dlq'
      BY <2>1 DEF TicketSend
    <2>6. ready'[m] >= ready[m]
      BY <1>a, <2>2, <2>3
    <2>7. Pending(t, m) => ready'[m] > 0
      BY <1>a, <2>2, <2>3 DEF Pending
    <2>8. \A u \in Tickets : Pending(u, m) => Pending(u, m)' \/ ready'[m] > 0
      BY <2>4, <2>7 DEF Pending
    <2> QED
      BY <2>5, <2>6, <2>8, CarriedKept
  <1>6. CASE TicketFault(t)
    <2> DEFINE h == ticket[t].msg
    <2>2. h \in Messages
      BY <1>a, <1>6 DEF TicketFault, GoodTicket, Unacked
    <2>3. \/ ready' = [ready EXCEPT ![h] = @ + 1]
          \/ ready' = ready /\ "delivery_limit" \in Kinds /\ <<h, "delivery_limit">> \in dlq'
      BY <1>6 DEF TicketFault
    <2>4. \A u \in Tickets \ {t} : ticket'[u] = ticket[u]
      BY <1>a, <1>6 DEF TicketFault
    <2>5. \A x \in dlq : x \in dlq'
      BY <1>6 DEF TicketFault
    <2>6. ready'[m] >= ready[m]
      BY <1>a, <2>2, <2>3
    <2>7. h = m => ready'[m] > 0 \/ DeadLettered(m)'
      BY <1>a, <2>2, <2>3 DEF DeadLettered
    <2>8. \A u \in Tickets : Pending(u, m) => Pending(u, m)' \/ ready'[m] > 0 \/ DeadLettered(m)'
      BY <2>4, <2>7 DEF Pending
    <2> QED
      BY <2>5, <2>6, <2>8, CarriedKept
  <1> QED
    BY <1>1, <1>3, <1>4, <1>5, <1>6

\* A Relay publishes and takes no copy away.
LEMMA RelayCarries ==
    ASSUME PathTyped, PathTyped', NEW m \in Messages, Carried(m), NEW r \in Relays,
           \/ RelayLease(r)
           \/ RelayCheck(r)
           \/ RelayPublish(r)
           \/ RelayPublishFails(r)
           \/ RelayConnectFails(r)
           \/ RelayMark(r)
           \/ RelayRelease(r)
           \/ RelayCrash(r)
    PROVE  Carried(m)'
  <1>1. dlq' = dlq /\ ticket' = ticket
    BY DEF RelayLease, RelayCheck, RelayPublish, RelayPublishFails, RelayConnectFails,
       RelayMark, RelayRelease, RelayCrash
  <1>2. \/ ready' = ready
        \/ relay[r].pc = "checked" /\ ready' = [ready EXCEPT ![relay[r].cur] = @ + 1]
    BY DEF RelayLease, RelayCheck, RelayPublish, RelayPublishFails, RelayConnectFails,
       RelayMark, RelayRelease, RelayCrash
  <1>3. ready \in [Messages -> Nat]
    BY DEF PathTyped, DTypeOK
  <1>4. ready'[m] >= ready[m]
    BY <1>2, <1>3
  <1> QED
    BY <1>1, <1>4, CarriedKept DEF Pending

\* An undecided copy is there until it is claimed or drained from the DLQ.
LEMMA CarriedShapes ==
    ASSUME PathTyped, PathTyped', [DNext]_dvars, NEW m \in Messages, Carried(m)
    PROVE  \/ Carried(m)'
           \/ \E t \in Tickets : TicketClaim(t) /\ ticket[t].msg = m
           \/ \E k \in Kinds, acked \in BOOLEAN : DrainDlq(m, k, acked)
  <1>1. CASE transport' = transport
    BY <1>1 DEF transport, Carried, DeadLettered
  <1>2. ControlStep \/ UNCHANGED dvars => transport' = transport
    BY DEF ControlStep, dvars, transport
  <1>3. ASSUME NEW h \in Messages, BrokerDeadLetter(h) PROVE Carried(m)'
    <2>1. /\ ready \in [Messages -> Nat] /\ ready' = [ready EXCEPT ![h] = @ - 1]
          /\ "rejected" \in Kinds /\ <<h, "rejected">> \in dlq'
          /\ ticket' = ticket
      BY <1>3 DEF BrokerDeadLetter, PathTyped, DTypeOK
    <2>2. \A x \in dlq : x \in dlq'
      BY <1>3 DEF BrokerDeadLetter
    <2>3. CASE h = m
      BY <2>1, <2>3 DEF Carried, DeadLettered
    <2>4. CASE h # m
      <3>1. ready'[m] = ready[m] /\ ready[m] \in Nat
        BY <2>1, <2>4
      <3>2. ready'[m] >= ready[m]
        BY <3>1
      <3> QED
        BY <2>1, <2>2, <3>2, CarriedKept DEF Pending
    <2> QED
      BY <2>3, <2>4
  <1>4. ASSUME NEW h \in Messages, NEW k \in Kinds, NEW acked \in BOOLEAN, DrainDlq(h, k, acked),
               h # m
        PROVE  Carried(m)'
    <2>1. ready' = ready /\ ticket' = ticket /\ (dlq' = dlq \/ dlq' = dlq \ {<<h, k>>})
      BY <1>4 DEF DrainDlq
    <2>2. \A j \in Kinds : <<m, j>> \in dlq => <<m, j>> \in dlq'
      BY <1>4, <2>1
    <2>3. ready'[m] >= ready[m]
      BY <2>1 DEF PathTyped, DTypeOK
    <2> QED
      BY <2>1, <2>2, <2>3, CarriedKept DEF Pending
  <1> QED
    BY <1>1, <1>2, <1>3, <1>4, RelayCarries, TicketCarries DEF DNext

\* A Relay has a confirm only because the Broker took a copy.
LEMMA ConfirmedShapes ==
    ASSUME PathTyped, [DNext]_dvars, NEW r \in Relays, relay'[r].pc = "confirmed"
    PROVE  relay'[r] = relay[r] \/ ready'[relay'[r].cur] > 0
  <1>a. relay \in [Relays -> RelayState] /\ ready \in [Messages -> Nat] /\ GoodRelay(relay[r])
    BY DEF PathTyped, DTypeOK, RelayState
  <1>1. ASSUME NEW q \in Relays, NEW x, relay' = [relay EXCEPT ![q] = x],
               x.pc # "confirmed"
        PROVE  relay'[r] = relay[r]
    BY <1>1, <1>a
  <1>2. ASSUME NEW q \in Relays, RelayPublish(q)
        PROVE  relay'[r] = relay[r] \/ ready'[relay'[r].cur] > 0
    <2>1. CASE q # r
      BY <1>2, <1>a, <2>1 DEF RelayPublish
    <2>2. CASE q = r
      <3>1. relay'[r].cur = relay[r].cur /\ relay[r].cur \in Messages
        BY <1>2, <1>a, <2>2 DEF RelayPublish, GoodRelay, RelayState
      <3>2. ready'[relay[r].cur] = ready[relay[r].cur] + 1 /\ ready[relay[r].cur] \in Nat
        BY <1>2, <1>a, <2>2, <3>1 DEF RelayPublish
      <3> QED
        BY <3>1, <3>2
    <2> QED
      BY <2>1, <2>2
  <1>3. ASSUME NEW q \in Relays,
               \/ RelayLease(q)
               \/ RelayCheck(q)
               \/ RelayPublishFails(q)
               \/ RelayConnectFails(q)
               \/ RelayMark(q)
               \/ RelayRelease(q)
               \/ RelayCrash(q)
        PROVE  relay'[r] = relay[r]
    <2>a. GoodRelay(relay[q]) /\ relay[q] \in RelayState
      BY <1>a DEF PathTyped
    <2>1. CASE RelayLease(q)
      BY <1>1, <2>1 DEF RelayLease
    <2>2. CASE RelayCheck(q)
      <3>1. PICK m \in relay[q].rest :
               \/ relay' = [relay EXCEPT ![q] = After(relay[q].rest \ {m})]
               \/ relay' = [relay EXCEPT ![q] =
                     [pc |-> "checked", cur |-> m, rest |-> relay[q].rest \ {m}]]
        BY <2>2 DEF RelayCheck
      <3>2. relay[q].rest \ {m} \in SUBSET Messages
        BY <2>a DEF RelayState
      <3>3. After(relay[q].rest \ {m}).pc # "confirmed"
        BY <3>2, AfterGood
      <3> QED
        BY <1>1, <3>1, <3>3
    <2>3. CASE RelayPublishFails(q)
      BY <1>1, <2>3 DEF RelayPublishFails
    <2>4. CASE RelayConnectFails(q)
      <3>1. relay' = [relay EXCEPT ![q] = [relay[q] EXCEPT !.pc = "failed"]]
        BY <2>4 DEF RelayConnectFails
      <3>2. [relay[q] EXCEPT !.pc = "failed"].pc = "failed"
        BY <2>a DEF RelayState
      <3> QED
        BY <1>1, <3>1, <3>2
    <2>5. CASE RelayMark(q)
      <3>1. relay' = [relay EXCEPT ![q] = After(relay[q].rest)]
        BY <2>5 DEF RelayMark
      <3>2. After(relay[q].rest).pc # "confirmed"
        BY <2>a, AfterGood DEF RelayState
      <3> QED
        BY <1>1, <3>1, <3>2
    <2>6. CASE RelayRelease(q)
      <3>1. PICK m \in relay[q].rest :
               relay' = [relay EXCEPT ![q] =
                  IF relay[q].rest = {m} THEN IdleRelay
                  ELSE [pc |-> "failed", cur |-> NoMessage, rest |-> relay[q].rest \ {m}]]
        BY <2>6, Zenon DEF RelayRelease
      <3>2. \/ relay' = [relay EXCEPT ![q] = IdleRelay]
            \/ relay' = [relay EXCEPT ![q] =
                  [pc |-> "failed", cur |-> NoMessage, rest |-> relay[q].rest \ {m}]]
        BY <3>1
      <3> QED
        BY <1>1, <3>2, IdleStates
    <2>7. CASE RelayCrash(q)
      BY <1>1, <2>7, IdleStates DEF RelayCrash
    <2> QED
      BY <1>3, <2>1, <2>2, <2>3, <2>4, <2>5, <2>6, <2>7
  <1>4. relay' = relay => relay'[r] = relay[r]
    OBVIOUS
  <1>5. ASSUME NEW t \in Tickets,
               \/ \E m \in Messages : Deliver(t, m)
               \/ TicketClaim(t)
               \/ TicketJournal(t)
               \/ TicketPrepareFailed(t)
               \/ \E lost \in BOOLEAN : TicketSend(t, lost)
               \/ TicketFault(t)
               \/ TicketLateRequest(t)
               \/ TicketStart(t)
               \/ TicketRenew(t)
               \/ TicketReplaceCache(t)
               \/ \E q \in Reports : TicketFinish(t, q)
               \/ TicketAbandon(t)
        PROVE  relay' = relay
    BY <1>5, Zenon DEF Deliver, TicketClaim, TicketJournal, TicketPrepareFailed, TicketSend, TicketFault,
       TicketLateRequest, TicketStart, TicketRenew, TicketReplaceCache, TicketFinish,
       TicketAbandon, transport
  <1>6. ControlStep \/ UNCHANGED dvars => relay' = relay
    BY DEF ControlStep, transport, dvars
  <1>7. ASSUME NEW m \in Messages,
               \/ BrokerDeadLetter(m)
               \/ \E k \in Kinds, acked \in BOOLEAN : DrainDlq(m, k, acked)
        PROVE  relay' = relay
    BY <1>7 DEF BrokerDeadLetter, DrainDlq
  <1> QED
    BY <1>2, <1>3, <1>4, <1>5, <1>6, <1>7 DEF DNext
       \* A Claim that has decided about a queued dispatch ends its waiting, defers it
       \* to the row, or leaves it with the ticket.
LEMMA ClaimCustody ==
    ASSUME PathTyped, TypeOK, NEW m \in Messages, QueuedAs(m), QueuedAs(m)',
           NEW t \in Tickets, TicketClaim(t), ticket[t].msg = m
    PROVE  Carried(m)' \/ RowOf(m)' = DeferredRow
  <1>a. /\ m[1] \in Execs /\ m[2] \in Gens
        /\ execution[m[1]].status = "queued" /\ execution[m[1]].gen = m[2]
        /\ execution'[m[1]].status = "queued"
    BY DEF Messages, QueuedAs
  <1>1. CASE ClaimReply(m) = "defer"
    <2>1. ticket \in [Tickets -> TicketState]
      BY DEF PathTyped, DTypeOK, TicketState
    <2>2. ticket'[t].msg = m /\ ticket'[t].pc = "defer"
      BY <1>1, <2>1 DEF TicketClaim, TicketState
    <2> QED
      BY <2>2 DEF Carried
  <1>2. CASE ClaimReply(m) # "defer"
    <2>1. ClaimDispatch(m[1], m[2])
      BY <1>2, <1>a DEF TicketClaim, ClaimTransaction
    <2>2. execution \in [Execs -> Execution] /\ outbox \in [Execs -> [Gens -> Row]]
      BY DEF TypeOK
    <2>3. ASSUME NEW s, Finalize(m[1], s), s # "queued" PROVE FALSE
      BY <1>a, <2>2, <2>3 DEF Finalize, Execution
    <2>4. ASSUME NEW n, ClaimAttempt(m[1], n) PROVE FALSE
      <3>1. execution'[m[1]].status = "running"
        BY <1>a, <2>2, <2>4 DEF ClaimAttempt, Execution
      <3> QED
        BY <1>a, <3>1
    <2>5. DeferDispatch(m[1], m[2])
      BY <2>1, <2>3, <2>4 DEF ClaimDispatch
    <2> QED
      BY <1>a, <2>2, <2>5 DEF DeferDispatch, RowOf
  <1> QED
    BY <1>1, <1>2

\* What covers a queued dispatch but for its row is kept by every step.
LEMMA CoverNext ==
    ASSUME PathTyped, PathTyped', TypeOK, [DNext]_dvars, NEW m \in Messages,
           QueuedAs(m), QueuedAs(m)', Carried(m) \/ OnRecord(m)
    PROVE  Carried(m)' \/ OnRecord(m)' \/ RowOf(m)' = DeferredRow
  <1>a. m[1] \in Execs /\ m[2] \in Gens
    BY DEF Messages
  <1>1. CASE OnRecord(m)
    BY <1>1, RecordStays, PathCalls
  <1>2. CASE \E t \in Tickets : TicketClaim(t) /\ ticket[t].msg = m
    BY <1>2, ClaimCustody
  <1>3. ASSUME NEW k \in Kinds, NEW acked \in BOOLEAN, DrainDlq(m, k, acked)
        PROVE  OnRecord(m)'
    <2>1. PICK v \in {"closed", "terminating", "open"} :
             incident' = [incident EXCEPT ![m[1]][<<m[2], k>>] = v]
      BY <1>3 DEF DrainDlq, ReconcileDeadLetter
    <2>2. /\ incident \in [Execs -> [Gens \X Kinds -> IncidentStatus]]
          /\ <<m[2], k>> \in Gens \X Kinds
      BY <1>a DEF TypeOK
    <2>3. incident'[m[1]][<<m[2], k>>] = v
      BY <1>a, <2>1, <2>2
    <2>4. incident'[m[1]][<<m[2], k>>] # "absent"
      BY <2>3
    <2> QED
      BY <2>4 DEF OnRecord
  <1> QED
    BY <1>1, <1>2, <1>3, CarriedShapes

\* A Relay that has had its confirm and still owns a row of a queued dispatch
\* had both before the step, or a copy has just been published.
LEMMA ConfirmedBefore ==
    ASSUME PathTyped, IInv, RowsInv, [DNext]_dvars, NEW r \in Relays, NEW m \in Messages,
           relay'[r].pc = "confirmed", relay'[r].cur = m, QueuedAs(m)', Owns(r, m[1], m[2])'
    PROVE  /\ QueuedAs(m)
           /\ \/ Carried(m)'
              \/ relay[r].pc = "confirmed" /\ relay[r].cur = m /\ Owns(r, m[1], m[2])
  <1>a. TypeOK /\ [Next]_vars /\ PathTyped'
    BY PathCalls, PathNext DEF IInv
  <1>b. RowOf(m)'.status = "pending" /\ RowOf(m)'.owner = r /\ r # NoOwner
    BY ConstantsAssumption DEF Owns, RowOf
  <1>1. QueuedAs(m)
    BY <1>a, <1>b, QueuedShapes, BackRows
  <1>2. CASE ready'[m] > 0
    BY <1>1, <1>2 DEF Carried
  <1>3. CASE relay'[r] = relay[r]
    <2>1. CASE RowSame(m)
      BY <1>1, <1>3, <1>b, <2>1 DEF RowSame, Owns, RowOf
    <2>2. CASE RowLeased(m)
      <3>1. PICK q \in Relays : /\ RelayLease(q)
                                /\ RowOf(m)'.status = RowOf(m).status
                                /\ RowOf(m)'.owner \in {RowOf(m).owner, q}
        BY <2>2 DEF RowLeased
      <3>2. q # r
        BY <1>3, <3>1 DEF RelayLease
      <3> QED
        BY <1>1, <1>3, <1>b, <3>1, <3>2 DEF Owns, RowOf
    <2>3. ~ RowRequeued(m)
      BY <1>b DEF RowRequeued
    <2>4. ~ RowMarked(m)
      BY <1>b DEF RowMarked
    <2> QED
      BY <1>1, <1>a, <2>1, <2>2, <2>3, <2>4, PathRows
  <1> QED
    BY <1>2, <1>3, ConfirmedShapes

\* A step that replaces what covers a queued dispatch by another cover keeps
\* the custody, whatever counts as a record.
LEMMA CustodyNext ==
    ASSUME PathTyped, IInv, RowsInv, [DNext]_dvars, NEW rec, NEW kept, Custody(rec),
           \A m \in Messages : QueuedAs(m) /\ QueuedAs(m)' /\ (Carried(m) \/ m \in rec)
              => RowOf(m)'.status = "pending" \/ Carried(m)' \/ m \in kept,
           \A r \in Relays, m \in Messages :
              /\ QueuedAs(m) /\ QueuedAs(m)' /\ (Carried(m) \/ m \in rec)
              /\ relay[r].pc = "confirmed" /\ relay[r].cur = m /\ Owns(r, m[1], m[2])
              /\ Owns(r, m[1], m[2])'
              => Carried(m)' \/ m \in kept
    PROVE  Custody(kept)'
  <1>a. TypeOK /\ [Next]_vars
    BY PathCalls DEF IInv
  <1>1. ASSUME NEW m \in Messages, QueuedAs(m)'
        PROVE  RowOf(m)'.status = "pending" \/ Carried(m)' \/ m \in kept
    <2>1. CASE ~ QueuedAs(m)
      BY <1>1, <1>a, <2>1, QueuedShapes, BackRows
    <2>2. CASE QueuedAs(m) /\ (Carried(m) \/ m \in rec)
      BY <1>1, <2>2
    <2>3. CASE QueuedAs(m) /\ RowOf(m).status = "pending"
      <3>1. CASE RowMarked(m)
        <4>1. PICK r \in Relays : RelayMark(r) /\ relay[r].cur = m /\ Owns(r, m[1], m[2])
          BY <3>1 DEF RowMarked
        <4>2. Carried(m) \/ m \in rec
          BY <2>3, <4>1 DEF Custody, RelayMark
        <4> QED
          BY <2>2, <2>3, <4>2
      <3>2. CASE RowSame(m) \/ RowRequeued(m) \/ RowLeased(m)
        BY <2>3, <3>2 DEF RowSame, RowRequeued, RowLeased
      <3> QED
        BY <1>1, <1>a, <2>3, <3>1, <3>2, PathRows
    <2> QED
      BY <2>1, <2>2, <2>3 DEF Custody
  <1>2. ASSUME NEW r \in Relays, NEW m \in Messages, relay'[r].pc = "confirmed",
               relay'[r].cur = m, QueuedAs(m)', Owns(r, m[1], m[2])'
        PROVE  Carried(m)' \/ m \in kept
    <2>1. /\ QueuedAs(m)
          /\ \/ Carried(m)'
             \/ relay[r].pc = "confirmed" /\ relay[r].cur = m /\ Owns(r, m[1], m[2])
      BY <1>2, ConfirmedBefore
    <2>2. CASE relay[r].pc = "confirmed" /\ relay[r].cur = m /\ Owns(r, m[1], m[2])
      <3>1. Carried(m) \/ m \in rec
        BY <2>1, <2>2 DEF Custody
      <3> QED
        BY <1>2, <2>1, <2>2, <3>1
    <2> QED
      BY <2>1, <2>2
  <1> QED
    BY <1>1, <1>2 DEF Custody

\* The initial states owe nothing.
LEMMA CustodyStart ==
    ASSUME DInit, NEW rec
    PROVE  Custody(rec)
  <1>1. \A m \in Messages : ~ QueuedAs(m)
    BY DEF DInit, Init, QueuedAs, Messages
  <1> QED
    BY <1>1 DEF Custody

\* A message that was recorded stays recorded.
LEMMA CustodyRecorded ==
    ASSUME PathTyped, IInv, RowsInv, Custody(Filed), [DNext]_dvars
    PROVE  Custody(Filed)'
  <1>a. TypeOK /\ PathTyped'
    BY PathNext DEF IInv
  <1>1. ASSUME NEW m \in Messages, QueuedAs(m), QueuedAs(m)', Carried(m) \/ m \in Filed
        PROVE  Carried(m)' \/ m \in Filed' \/ RowOf(m)' = DeferredRow
    <2>1. Carried(m)' \/ OnRecord(m)' \/ RowOf(m)' = DeferredRow
      BY <1>1, <1>a, CoverNext DEF Filed
    <2> QED
      BY <2>1 DEF Filed
  <1>2. PICK kept : kept = Filed'
    OBVIOUS
  <1>3. ASSUME NEW r \in Relays, NEW m \in Messages, RowOf(m)' = DeferredRow
        PROVE  ~ Owns(r, m[1], m[2])'
    BY <1>3, BackRows, ConstantsAssumption DEF Owns, RowOf
  <1>4. Custody(kept)'
    BY <1>1, <1>2, <1>3, BackRows, CustodyNext
  <1> QED
    BY <1>2, <1>4 DEF Custody

\* What custody says about one queued Execution.
LEMMA CustodyMeans ==
    ASSUME IInv, RowsInv, NEW rec, Custody(rec), NEW e \in Execs, execution[e].status = "queued",
           NEW m, m = <<e, execution[e].gen>>
    PROVE  /\ m \in Messages /\ m[1] = e /\ m[2] = execution[e].gen
           /\ RowOf(m).status = "pending" \/ InTransit(m) \/ m \in rec
  <1>1. execution[e].gen \in Gens
    <2>1. execution[e].gen \in 0..MaxGen /\ execution[e].gen # 0
      BY RowTypes DEF IInv, Execution, RowsInv, Unaccepted
    <2> QED
      BY <2>1, ConstantsAssumption DEF Gens
  <1>2. m \in Messages /\ m[1] = e /\ m[2] = execution[e].gen /\ QueuedAs(m)
    BY <1>1 DEF Messages, QueuedAs
  <1>3. RowOf(m).status = "pending" \/ Carried(m) \/ m \in rec
    BY <1>2 DEF Custody
  <1>4. Carried(m) => InTransit(m)
    BY DEF Carried, InTransit, Holders, Unacked
  <1> QED
    BY <1>2, <1>3, <1>4

\* Whatever the Broker loses, repeats, reorders or dead-letters and whichever
\* Relay or Worker dies in between, a queued Execution's current generation has
\* a pending row, a copy of its message, or an Incident on record.
THEOREM DispatchesAccounted == DSpec => []DispatchAccounted
  <1>1. DInit => Custody(Filed)
    BY CustodyStart
  <1>2. PathTyped /\ IInv /\ RowsInv /\ Custody(Filed) /\ [DNext]_dvars => Custody(Filed)'
    BY CustodyRecorded
  <1>3. PathTyped /\ IInv /\ RowsInv /\ Custody(Filed) => DispatchAccounted
    <2> SUFFICES ASSUME IInv, RowsInv, Custody(Filed),
                        NEW e \in Execs, execution[e].status = "queued"
                 PROVE  \/ outbox[e][execution[e].gen].status = "pending"
                        \/ InTransit(<<e, execution[e].gen>>)
                        \/ \E k \in Kinds : incident[e][<<execution[e].gen, k>>] # "absent"
      BY DEF DispatchAccounted
    <2> DEFINE g == execution[e].gen
               m == <<e, g>>
    <2>1. /\ m \in Messages /\ m[1] = e /\ m[2] = g
          /\ RowOf(m).status = "pending" \/ InTransit(m) \/ m \in Filed
      BY CustodyMeans
    <2> QED
      BY <2>1 DEF RowOf, Filed, OnRecord
  <1> QED
    BY <1>1, <1>2, <1>3, ControlInvariance, PTL DEF DSpec

-----------------------------------------------------------------------------
(* An Incident that is closed while a Relay may still mark the row.        *)

\* recover found the row pending with a lease that has run out and closed an
\* Incident that was open.
Recovers(m, k) == RecoverPendingDispatch(m[1], <<m[2], k>>) /\ OpenAt(m, k)

\* The Relay that owns that row has had its confirm and is about to mark it.
RecoverRace ==
    \E m \in Messages, k \in Kinds, r \in Relays :
       /\ Recovers(m, k)
       /\ relay[r].pc = "confirmed" /\ relay[r].cur = m /\ Owns(r, m[1], m[2])

\* The Incident of a dispatch that stays queued is closed by a recover only.
LEMMA OpenStays ==
    ASSUME TypeOK, [Next]_vars, NEW m \in Messages, QueuedAs(m), QueuedAs(m)',
           NEW k \in Kinds, OpenAt(m, k)
    PROVE  OpenAt(m, k)' \/ Recovers(m, k)
  <1> DEFINE i == <<m[2], k>>
             e == m[1]
             Stays == incident'[e][i] \in {"open", "terminating"}
  <1>a. /\ e \in Execs /\ m[2] \in Gens /\ i \in Gens \X Kinds /\ i[1] = m[2]
        /\ execution[e].status = "queued" /\ execution[e].gen = m[2]
        /\ execution'[e].status = "queued" /\ execution'[e].gen = m[2]
        /\ incident[e][i] \in {"open", "terminating"}
    BY DEF Messages, QueuedAs, OpenAt
  <1>b. /\ incident \in [Execs -> [Gens \X Kinds -> IncidentStatus]]
        /\ execution \in [Execs -> Execution]
    BY DEF TypeOK
  <1>c. ASSUME Stays PROVE OpenAt(m, k)'
    BY <1>c DEF OpenAt
  <1> HIDE DEF e, i
  <1>1. incident' = incident => Stays
    BY <1>a
  <1>2. ASSUME NEW d \in Execs, d # e, NEW x, incident' = [incident EXCEPT ![d] = x]
        PROVE  Stays
    BY <1>2, <1>a, <1>b
  <1>3. ASSUME NEW d \in Execs, NEW j \in Gens \X Kinds, NEW v,
               incident' = [incident EXCEPT ![d][j] = v],
               d = e /\ j = i => v \in {"open", "terminating"}
        PROVE  Stays
    <2>1. incident'[e][i] = IF d = e /\ j = i THEN v ELSE incident[e][i]
      BY <1>3, <1>a, <1>b
    <2> QED
      BY <1>3, <1>a, <2>1
  <1>4. ASSUME NEW d \in Execs, NEW s, Finalize(d, s), s # "queued" PROVE Stays
    <2>1. d # e
      BY <1>4, <1>a, <1>b DEF Finalize, Execution
    <2> QED
      BY <1>2, <1>4, <2>1 DEF Finalize
  <1>5. ASSUME NEW d \in Execs, NEW n, NEW r, ApplyTerminal(d, n, r) PROVE Stays
    <2>1. incident' = incident \/ \E s \in Terminal : Finalize(d, s)
      BY <1>5 DEF ApplyTerminal
    <2> QED
      BY <1>1, <1>4, <2>1 DEF Terminal
  <1>6. ASSUME NEW d \in Execs, NEW g \in Gens, ClaimDispatch(d, g) PROVE Stays
    <2>1. Finalize(d, "cancelled") \/ Finalize(d, "dead_letter") \/ incident' = incident
      BY <1>6 DEF ClaimDispatch, ClaimAttempt
    <2> QED
      BY <1>1, <1>4, <2>1
  <1>7. ASSUME NEW d \in Execs, NEW n \in Attempts,
               \/ StartAttempt(d, n)
               \/ RecoverExpiredAttempt(d, n)
               \/ \E r \in Results : FinishAttempt(d, n, r) \/ PrepareFailed(d, n, r)
        PROVE  Stays
    <2>1. incident' = incident \/ \E r : ApplyTerminal(d, n, r)
      BY <1>7 DEF StartAttempt, RecoverExpiredAttempt, FinishAttempt, PrepareFailed
    <2> QED
      BY <1>1, <1>5, <2>1
  <1>8. ASSUME NEW d \in Execs, NEW inc, CancelLocked(d, inc) PROVE Stays
    <2>1. d # e
      BY <1>8, <1>a, <1>b, Zenon DEF CancelLocked, Execution
    <2> QED
      BY <1>2, <1>8, <2>1 DEF CancelLocked
  <1>9. ASSUME NEW d \in Execs,
               CancelExecution(d) \/ \E j \in Gens \X Kinds : TerminateIncident(d, j)
        PROVE  Stays
    <2>1. \E inc : CancelLocked(d, inc)
      BY <1>9 DEF CancelExecution, TerminateIncident
    <2> QED
      BY <1>8, <2>1
  <1>10. ASSUME NEW d \in Execs, NEW g \in Gens, NEW h \in Kinds, ReconcileDeadLetter(d, g, h)
         PROVE  Stays
    <2>1. PICK v : /\ incident' = [incident EXCEPT ![d][<<g, h>>] = v]
                   /\ v = IF execution[d].status \in Terminal THEN "closed"
                          ELSE IF incident[d][<<g, h>>] = "terminating" THEN "terminating"
                          ELSE "open"
      BY <1>10 DEF ReconcileDeadLetter
    <2>2. d = e => v \in {"open", "terminating"}
      BY <1>a, <2>1 DEF Terminal
    <2>3. PICK j \in Gens \X Kinds : j = <<g, h>>
      BY <1>10
    <2>4. incident' = [incident EXCEPT ![d][j] = v]
      BY <2>1, <2>3
    <2> QED
      BY <1>3, <2>2, <2>4
  <1>11. ASSUME NEW d \in Execs, NEW j \in Gens \X Kinds,
                CloseSettledIncident(d, j) \/ RecoverPublishedDispatch(d, j)
         PROVE  Stays
    <2>1. incident' = [incident EXCEPT ![d][j] = "closed"]
      BY <1>11 DEF CloseSettledIncident, RecoverPublishedDispatch, CloseIncident
    <2>2. d = e => ~ CloseSettledIncident(d, j) \/ j # i
      <3>1. m[2] \in Nat
        BY <1>a, ConstantsAssumption DEF Gens
      <3> QED
        BY <1>a, <3>1 DEF CloseSettledIncident, Terminal
    <2>3. d = e => ~ RecoverPublishedDispatch(d, j)
      <3>1. m[2] \in Nat
        BY <1>a, ConstantsAssumption DEF Gens
      <3> QED
        BY <1>a, <1>b, <3>1 DEF RecoverPublishedDispatch, Execution
    <2> QED
      BY <1>3, <1>11, <2>1, <2>2, <2>3
  <1>12. ASSUME NEW d \in Execs, NEW j \in Gens \X Kinds, RecoverPendingDispatch(d, j)
         PROVE  Stays \/ Recovers(m, k)
    <2>1. incident' = [incident EXCEPT ![d][j] = "closed"]
      BY <1>12 DEF RecoverPendingDispatch, CloseIncident
    <2>2. d = e /\ j = i => Recovers(m, k)
      BY <1>12, <1>a DEF Recovers, OpenAt, e, i
    <2>3. ~ (d = e /\ j = i) => Stays
      BY <1>3, <2>1
    <2> QED
      BY <2>2, <2>3
  <1>13. ASSUME NEW d \in Execs,
                AcceptExecution(d) \/ RetryDispatch(d) \/ SettleCancelledOutbox(d)
         PROVE  incident' = incident
    BY <1>13 DEF AcceptExecution, RetryDispatch, SettleCancelledOutbox
  <1>14. ASSUME NEW d \in Execs, NEW g \in Gens,
                \/ OutboxLeaseExpire(d, g)
                \/ \E r \in Relays : ReleaseOutboxLease(r, d, g) \/ MarkOutboxPublished(r, d, g)
         PROVE  incident' = incident
    BY <1>14 DEF OutboxLeaseExpire, ReleaseOutboxLease, MarkOutboxPublished
  <1>15. ASSUME NEW d \in Execs, NEW n \in Attempts,
                RenewAttempt(d, n) \/ AttemptLeaseTick(d, n) \/ AcquireReplacementGuard(d, n)
         PROVE  incident' = incident
    BY <1>15 DEF RenewAttempt, AttemptLeaseTick, AcquireReplacementGuard
  <1>16. ASSUME NEW r \in Relays, NEW batch \in SUBSET (Execs \X Gens), LeaseDueOutbox(r, batch)
         PROVE  incident' = incident
    BY <1>16 DEF LeaseDueOutbox
  <1>17. ASSUME NEW a \in Adapters, AcquireGcGuard(a) \/ FinishGuard(a) PROVE incident' = incident
    BY <1>17 DEF AcquireGcGuard, FinishGuard
  <1>18. UNCHANGED vars => incident' = incident
    BY DEF vars
  <1>19. Stays \/ Recovers(m, k)
    <2> HIDE DEF Stays
    <2> QED
      BY <1>1, <1>6, <1>7, <1>9, <1>10, <1>11, <1>12, <1>13, <1>14, <1>15, <1>16, <1>17, <1>18
         DEF Next
  <1> QED
    BY <1>c, <1>19

\* A queued dispatch that is drained from the DLQ has an open Incident.
LEMMA DrainOpens ==
    ASSUME TypeOK, NEW m \in Messages, QueuedAs(m), NEW k \in Kinds, NEW acked,
           DrainDlq(m, k, acked)
    PROVE  OpenAt(m, k)'
  <1>1. m[1] \in Execs /\ <<m[2], k>> \in Gens \X Kinds /\ execution[m[1]].status = "queued"
    BY DEF Messages, QueuedAs
  <1>2. PICK v \in {"terminating", "open"} :
           incident' = [incident EXCEPT ![m[1]][<<m[2], k>>] = v]
    BY <1>1 DEF DrainDlq, ReconcileDeadLetter, Terminal
  <1>3. incident'[m[1]][<<m[2], k>>] = v
    BY <1>1, <1>2 DEF TypeOK
  <1> QED
    BY <1>3 DEF OpenAt

\* Without the race an Incident that is closed leaves a row somebody will
\* publish.
LEMMA CustodyOpened ==
    ASSUME PathTyped, IInv, RowsInv, Custody(Opened), [DNext]_dvars, [~ RecoverRace]_dvars
    PROVE  Custody(Opened)'
  <1>a. TypeOK /\ PathTyped' /\ [Next]_vars
    BY PathNext, PathCalls DEF IInv
  <1>1. ASSUME NEW m \in Messages, QueuedAs(m), QueuedAs(m)', Carried(m) \/ m \in Opened
        PROVE  \/ Carried(m)' \/ m \in Opened' \/ RowOf(m)' = DeferredRow
               \/ \E k \in Kinds : Recovers(m, k)
    <2>1. CASE m \in Opened
      <3>1. PICK k \in Kinds : OpenAt(m, k)
        BY <2>1 DEF Opened
      <3>2. OpenAt(m, k)' \/ Recovers(m, k)
        BY <1>1, <1>a, <3>1, OpenStays
      <3> QED
        BY <3>2 DEF Opened
    <2>2. CASE \E t \in Tickets : TicketClaim(t) /\ ticket[t].msg = m
      BY <1>1, <1>a, <2>2, ClaimCustody
    <2>3. ASSUME NEW k \in Kinds, NEW acked \in BOOLEAN, DrainDlq(m, k, acked)
          PROVE  m \in Opened'
      <3>1. OpenAt(m, k)'
        BY <1>1, <1>a, <2>3, DrainOpens
      <3> QED
        BY <3>1 DEF Opened
    <2> QED
      BY <1>1, <1>a, <2>1, <2>2, <2>3, CarriedShapes
  <1>2. PICK kept : kept = Opened'
    OBVIOUS
  <1>3. ASSUME NEW r \in Relays, NEW m \in Messages, RowOf(m)' = DeferredRow
        PROVE  ~ Owns(r, m[1], m[2])'
    BY <1>3, BackRows, ConstantsAssumption DEF Owns, RowOf
  <1>4. ASSUME NEW m \in Messages, NEW k \in Kinds, Recovers(m, k)
        PROVE  RowOf(m)'.status = "pending"
    BY <1>4 DEF Recovers, RecoverPendingDispatch, RowOf
  <1>5. ASSUME NEW r \in Relays, NEW m \in Messages, NEW k \in Kinds, Recovers(m, k),
               relay[r].pc = "confirmed", relay[r].cur = m, Owns(r, m[1], m[2])
        PROVE  FALSE
    <2>1. RecoverRace
      BY <1>5 DEF RecoverRace
    <2>2. incident' = incident
      BY <2>1 DEF dvars
    <2>3. m[1] \in Execs /\ <<m[2], k>> \in Gens \X Kinds
      BY DEF Messages
    <2>4. incident' = [incident EXCEPT ![m[1]][<<m[2], k>>] = "closed"]
      BY <1>5 DEF Recovers, RecoverPendingDispatch, CloseIncident
    <2>5. incident'[m[1]][<<m[2], k>>] = "closed"
      BY <1>a, <2>3, <2>4 DEF TypeOK
    <2> QED
      BY <1>5, <2>2, <2>5 DEF Recovers, OpenAt
  <1>6. Custody(kept)'
    BY <1>1, <1>2, <1>3, <1>4, <1>5, BackRows, CustodyNext
  <1> QED
    BY <1>2, <1>6 DEF Custody

\* The race of a recover with a Relay whose lease ran out between the confirm
\* and mark_outbox_published is the only way in which accepted work is lost:
\* in a behaviour without it a queued Execution's current generation always has
\* a pending row, a copy of its message, or an open Incident, whatever else
\* fails, races or is repeated.
THEOREM LostOnlyInTheRace == DSpec /\ [][~ RecoverRace]_dvars => []NoLostDispatch
  <1>1. DInit => Custody(Opened)
    BY CustodyStart
  <1>2. /\ PathTyped /\ IInv /\ RowsInv /\ Custody(Opened)
        /\ [DNext]_dvars /\ [~ RecoverRace]_dvars
        => Custody(Opened)'
    BY CustodyOpened
  <1>3. PathTyped /\ IInv /\ RowsInv /\ Custody(Opened) => NoLostDispatch
    <2> SUFFICES ASSUME IInv, RowsInv, Custody(Opened),
                        NEW e \in Execs, execution[e].status = "queued"
                 PROVE  \/ outbox[e][execution[e].gen].status = "pending"
                        \/ InTransit(<<e, execution[e].gen>>)
                        \/ \E k \in Kinds :
                              incident[e][<<execution[e].gen, k>>] \in {"open", "terminating"}
      BY DEF NoLostDispatch
    <2> DEFINE g == execution[e].gen
               m == <<e, g>>
    <2>1. /\ m \in Messages /\ m[1] = e /\ m[2] = g
          /\ RowOf(m).status = "pending" \/ InTransit(m) \/ m \in Opened
      BY CustodyMeans
    <2> QED
      BY <2>1 DEF RowOf, Opened, OpenAt
  <1> QED
    BY <1>1, <1>2, <1>3, ControlInvariance, PTL DEF DSpec
=============================================================================
