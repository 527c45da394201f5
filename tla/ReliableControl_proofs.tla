----------------------- MODULE ReliableControl_proofs -----------------------
(***************************************************************************)
(* Proofs about ReliableControl, for every value of its constants.         *)
(***************************************************************************)
EXTENDS ReliableControl, FiniteSetTheorems, TLAPS

-----------------------------------------------------------------------------
(* Type correctness.                                                       *)

\* Updating one cell of a table indexed by two keys keeps its type.
LEMMA CellType ==
    ASSUME NEW S, NEW T, NEW R, NEW f \in [S -> [T -> R]],
           NEW x \in S, NEW y \in T, NEW v \in R
    PROVE  [f EXCEPT ![x][y] = v] \in [S -> [T -> R]]
  OBVIOUS

\* Updating one entry keeps a table's type.
LEMMA EntryType ==
    ASSUME NEW S, NEW R, NEW f \in [S -> R], NEW x \in S, NEW v \in R
    PROVE  [f EXCEPT ![x] = v] \in [S -> R]
  OBVIOUS

\* The rows of one Execution and of its Adapter.
LEMMA RowTypes ==
    ASSUME TypeOK, NEW e \in Execs
    PROVE  /\ execution[e] \in Execution
           /\ \A n \in Attempts : attempt[e][n] \in Attempt
           /\ \A g \in Gens : outbox[e][g] \in Row
           /\ AdapterOf[e] \in Adapters
           /\ slot[AdapterOf[e]] \in Slot
           /\ admission[AdapterOf[e]] \in Int
           /\ guard[AdapterOf[e]] \in Guard
  BY ConstantsAssumption DEF TypeOK

\* The types of the tables that the ending of an Execution writes.
LEMMA FinalizeType ==
    ASSUME TypeOK, NEW e \in Execs, NEW s \in Terminal, Finalize(e, s)
    PROVE  /\ execution' \in [Execs -> Execution]
           /\ admission' \in [Adapters -> Int]
           /\ outstanding' \in Int
           /\ incident' \in [Execs -> [Gens \X Kinds -> IncidentStatus]]
  <1>1. execution' \in [Execs -> Execution]
    BY Zenon DEF TypeOK, Finalize, Execution, Terminal
  <1>2. /\ admission' \in [Adapters -> Int]
        /\ outstanding' \in Int
    BY ConstantsAssumption DEF TypeOK, Finalize, ReleaseAdmissionOnce
  <1>3. Converged(e) \in [Gens \X Kinds -> IncidentStatus]
    BY DEF TypeOK, Converged, IncidentStatus
  <1>4. incident' \in [Execs -> [Gens \X Kinds -> IncidentStatus]]
    BY <1>3 DEF TypeOK, Finalize
  <1> QED
    BY <1>1, <1>2, <1>4

\* The types of the tables that the ending of an Attempt writes.
LEMMA ApplyTerminalType ==
    ASSUME TypeOK, NEW e \in Execs, NEW n \in Attempts, NEW r \in Results,
           ApplyTerminal(e, n, r)
    PROVE  TypeOK'
  <1>1. attempt' \in [Execs -> [Attempts -> Attempt]]
    <2>1. attempt' = [attempt EXCEPT ![e][n] = [attempt[e][n] EXCEPT !.status = r]]
      BY DEF ApplyTerminal
    <2>2. attempt[e][n] \in Attempt
      BY DEF TypeOK
    <2>3. [attempt[e][n] EXCEPT !.status = r] \in Attempt
      BY <2>2 DEF Attempt
    <2> QED
      BY <2>1, <2>3, CellType DEF TypeOK
  <1>2. slot' \in [Adapters -> Slot]
    BY ConstantsAssumption, Zenon DEF TypeOK, ApplyTerminal, ReleaseSlot, Slot
  <1>3. /\ outbox' \in [Execs -> [Gens -> Row]]
        /\ guard' \in [Adapters -> Guard]
    BY DEF TypeOK, ApplyTerminal
  <1>4. StatusAfter(e, n, r) \in Terminal \cup {"retry_wait"}
    BY DEF StatusAfter, Terminal
  <1>5. CASE StatusAfter(e, n, r) \in Terminal
    <2>1. Finalize(e, StatusAfter(e, n, r))
      BY <1>5 DEF ApplyTerminal
    <2> QED
      BY <1>1, <1>2, <1>3, <1>5, <2>1, FinalizeType DEF TypeOK
  <1>6. CASE StatusAfter(e, n, r) = "retry_wait"
    <2>1. /\ execution' = [execution EXCEPT ![e].status = "retry_wait"]
          /\ UNCHANGED <<incident, admission, outstanding>>
      BY <1>6 DEF ApplyTerminal, Terminal
    <2>2. execution' \in [Execs -> Execution]
      BY <2>1 DEF TypeOK, Execution, Outstanding
    <2> QED
      BY <1>1, <1>2, <1>3, <2>1, <2>2 DEF TypeOK
  <1> QED
    BY <1>4, <1>5, <1>6

\* The rows that transactions write are rows.
LEMMA RowsType ==
    /\ AbsentRow \in Row
    /\ PendingRow \in Row
    /\ PublishedRow \in Row
    /\ DeferredRow \in Row
    /\ SettledRow \in Row
    /\ IdleGuard \in Guard
  BY DEF AbsentRow, PendingRow, PublishedRow, DeferredRow, SettledRow, IdleGuard,
         Row, RowCodes, Guard

\* create_dispatch_outbox and settle_pending_outbox keep the Outbox typed.
LEMMA OutboxType ==
    ASSUME TypeOK, NEW e \in Execs
    PROVE  /\ \A g \in Gens : CreateDispatchOutbox(e, g) => outbox' \in [Execs -> [Gens -> Row]]
           /\ Settled(e) \in [Gens -> Row]
  <1>1. ASSUME NEW g \in Gens, CreateDispatchOutbox(e, g)
        PROVE  outbox' \in [Execs -> [Gens -> Row]]
    BY <1>1, RowsType, CellType DEF TypeOK, CreateDispatchOutbox
  <1>2. Settled(e) \in [Gens -> Row]
    BY RowsType DEF TypeOK, Settled
  <1> QED
    BY <1>1, <1>2

\* cancel_execution_locked writes well-typed rows, whatever it makes of the
\* Incidents of the Execution.
LEMMA CancelLockedType ==
    ASSUME TypeOK, NEW e \in Execs, NEW inc \in [Gens \X Kinds -> IncidentStatus],
           CancelLocked(e, inc), UNCHANGED <<attempt, slot, guard>>
    PROVE  TypeOK'
  <1>1. execution' \in [Execs -> Execution]
    <2> DEFINE x == [execution[e] EXCEPT !.status = "cancelled", !.released = TRUE]
               y == [execution[e] EXCEPT !.cancel_requested = TRUE]
    <2>1. x \in Execution /\ y \in Execution
      BY RowTypes DEF Execution, Terminal
    <2>2. \/ execution' = [execution EXCEPT ![e] = x]
          \/ execution' = [execution EXCEPT ![e] = y]
      BY DEF CancelLocked
    <2> HIDE DEF x, y
    <2> QED
      BY <2>1, <2>2 DEF TypeOK
  <1>2. /\ admission' \in [Adapters -> Int]
        /\ outstanding' \in Int
    BY ConstantsAssumption DEF TypeOK, CancelLocked, ReleaseAdmissionOnce
  <1>3. incident' \in [Execs -> [Gens \X Kinds -> IncidentStatus]]
    BY DEF TypeOK, CancelLocked
  <1>4. outbox' \in [Execs -> [Gens -> Row]]
    <2>1. outbox' = outbox \/ outbox' = [outbox EXCEPT ![e] = Settled(e)]
      BY DEF CancelLocked
    <2> QED
      BY <2>1, OutboxType DEF TypeOK
  <1> QED
    BY <1>1, <1>2, <1>3, <1>4 DEF TypeOK

\* The empty database is well typed.
LEMMA TypeInit == Init => TypeOK
  <1> SUFFICES ASSUME Init PROVE TypeOK
    OBVIOUS
  <1>1. execution \in [Execs -> Execution]
    BY ConstantsAssumption DEF Init, Execution
  <1>2. attempt \in [Execs -> [Attempts -> Attempt]]
    BY ConstantsAssumption DEF Init, Attempt
  <1>3. slot \in [Adapters -> Slot]
    BY DEF Init, Slot
  <1>4. outbox \in [Execs -> [Gens -> Row]]
    BY RowsType DEF Init
  <1>5. incident \in [Execs -> [Gens \X Kinds -> IncidentStatus]]
    BY DEF Init, IncidentStatus
  <1>6. admission \in [Adapters -> Int] /\ outstanding \in Int
    BY DEF Init
  <1>7. guard \in [Adapters -> Guard]
    BY RowsType DEF Init
  <1> QED
    BY <1>1, <1>2, <1>3, <1>4, <1>5, <1>6, <1>7 DEF TypeOK

\* Every transaction leaves the rows well typed.
LEMMA TypeNext == TypeOK /\ [Next]_vars => TypeOK'
  <1> SUFFICES ASSUME TypeOK, [Next]_vars PROVE TypeOK'
    OBVIOUS
  <1>1. ASSUME NEW e \in Execs, AcceptExecution(e) PROVE TypeOK'
    <2>1. execution' \in [Execs -> Execution]
      <3> DEFINE x == [execution[e] EXCEPT !.status = "queued", !.gen = 1]
      <3>1. x \in Execution
        <4>1. 1 \in 0..MaxGen
          BY ConstantsAssumption
        <4>2. execution[e] \in Execution
          BY RowTypes
        <4> QED
          BY <4>1, <4>2 DEF Execution, Outstanding
      <3>2. execution' = [execution EXCEPT ![e] = x]
        BY <1>1 DEF AcceptExecution, ReserveAdmission
      <3> HIDE DEF x
      <3> QED
        BY <3>1, <3>2 DEF TypeOK
    <2>2. admission' \in [Adapters -> Int] /\ outstanding' \in Int
      <3>1. /\ admission' = [admission EXCEPT ![AdapterOf[e]] = @ + 1]
            /\ outstanding' = outstanding + 1
        BY <1>1 DEF AcceptExecution, ReserveAdmission
      <3> QED
        BY <3>1, ConstantsAssumption DEF TypeOK
    <2>3. outbox' \in [Execs -> [Gens -> Row]]
      <3>1. CreateDispatchOutbox(e, 1) /\ 1 \in Gens
        BY <1>1, ConstantsAssumption DEF AcceptExecution, ReserveAdmission, Gens
      <3> QED
        BY <3>1, OutboxType
    <2> QED
      BY <1>1, <2>1, <2>2, <2>3 DEF TypeOK, AcceptExecution, ReserveAdmission
  <1>2. ASSUME NEW e \in Execs, NEW g \in Gens, ClaimDispatch(e, g) PROVE TypeOK'
    <2>1. CASE execution[e].cancel_requested
      BY <1>2, <2>1, FinalizeType DEF TypeOK, ClaimDispatch, Terminal
    <2>2. CASE ~ execution[e].cancel_requested /\ Guarded(e)
      <3>1. outbox' \in [Execs -> [Gens -> Row]]
        <4>1. outbox' = [outbox EXCEPT ![e][g] = DeferredRow]
          BY <1>2, <2>2 DEF ClaimDispatch, DeferDispatch
        <4> QED
          BY <4>1, CellType, RowsType DEF TypeOK
      <3> QED
        BY <1>2, <2>2, <3>1 DEF TypeOK, ClaimDispatch
    <2>3. CASE /\ ~ execution[e].cancel_requested /\ ~ Guarded(e)
               /\ execution[e].attempt_count + 1 > MaxAttempts
      <3>1. Finalize(e, "dead_letter")
        BY <1>2, <2>3 DEF ClaimDispatch
      <3>2. slot' \in [Adapters -> Slot]
        <4>1. slot' = [slot EXCEPT ![AdapterOf[e]].active = NoAttempt]
          BY <1>2, <2>3 DEF ClaimDispatch
        <4> QED
          BY <4>1, ConstantsAssumption DEF TypeOK, Slot
      <3> QED
        BY <1>2, <2>3, <3>1, <3>2, FinalizeType DEF TypeOK, ClaimDispatch, Terminal
    <2>4. CASE /\ ~ execution[e].cancel_requested /\ ~ Guarded(e)
               /\ ~ (execution[e].attempt_count + 1 > MaxAttempts)
      <3> DEFINE n == execution[e].attempt_count + 1
                 row == [status |-> "claimed", fence |-> NextFence(AdapterOf[e]),
                         lease |-> LeaseTicks]
      <3>1. ClaimAttempt(e, n)
        BY <1>2, <2>4 DEF ClaimDispatch
      <3>2. n \in Attempts
        BY <2>4, ConstantsAssumption DEF TypeOK, Execution, Attempts
      <3>3. NextFence(AdapterOf[e]) \in Nat
        BY ConstantsAssumption DEF TypeOK, Slot, NextFence
      <3>4. row \in Attempt
        BY <3>3, ConstantsAssumption DEF Attempt, ActiveAttempt
      <3>5. attempt' = [attempt EXCEPT ![e][n] = row]
        BY <3>1 DEF ClaimAttempt
      <3>6. attempt' \in [Execs -> [Attempts -> Attempt]]
        <4> HIDE DEF n, row
        <4> QED BY <3>2, <3>4, <3>5, CellType DEF TypeOK
      <3>7. execution' \in [Execs -> Execution]
        <4> DEFINE x == [execution[e] EXCEPT !.status = "running", !.attempt_count = n]
        <4>1. x \in Execution
          <5>1. n \in 0..MaxAttempts
            BY <3>2, ConstantsAssumption DEF Attempts
          <5>2. execution[e] \in Execution
            BY RowTypes
          <5> HIDE DEF n
          <5> QED
            BY <5>1, <5>2 DEF Execution, Outstanding
        <4>2. execution' = [execution EXCEPT ![e] = x]
          BY <3>1 DEF ClaimAttempt
        <4> HIDE DEF x
        <4> QED
          BY <4>1, <4>2 DEF TypeOK
      <3>8. slot' \in [Adapters -> Slot]
        BY <3>1, <3>2, <3>3 DEF TypeOK, ClaimAttempt, Slot, AttemptIds
      <3> QED
        BY <3>1, <3>6, <3>7, <3>8 DEF TypeOK, ClaimAttempt
    <2> QED
      BY <2>1, <2>2, <2>3, <2>4
  <1>3. ASSUME NEW e \in Execs, NEW n \in Attempts, StartAttempt(e, n) PROVE TypeOK'
    <2>1. CASE execution[e].cancel_requested
      BY <1>3, <2>1, ApplyTerminalType DEF StartAttempt, Results, Reports
    <2>2. CASE ~ execution[e].cancel_requested
      <3>1. attempt' = [attempt EXCEPT ![e][n] = [attempt[e][n] EXCEPT !.status = "running"]]
        BY <1>3, <2>2 DEF StartAttempt
      <3>2. [attempt[e][n] EXCEPT !.status = "running"] \in Attempt
        BY RowTypes DEF Attempt, ActiveAttempt
      <3>3. attempt' \in [Execs -> [Attempts -> Attempt]]
        BY <3>1, <3>2, CellType DEF TypeOK
      <3> QED
        BY <1>3, <2>2, <3>3 DEF TypeOK, StartAttempt
    <2> QED
      BY <2>1, <2>2
  <1>4. ASSUME NEW e \in Execs, NEW n \in Attempts,
               RenewAttempt(e, n) \/ AttemptLeaseTick(e, n)
        PROVE  TypeOK'
    <2>1. PICK l \in 0..LeaseTicks :
             attempt' = [attempt EXCEPT ![e][n] = [attempt[e][n] EXCEPT !.lease = l]]
      <3>1. CASE RenewAttempt(e, n)
        <4>1. LeaseTicks \in 0..LeaseTicks
          BY ConstantsAssumption
        <4> QED
          BY <3>1, <4>1 DEF RenewAttempt
      <3>2. CASE AttemptLeaseTick(e, n)
        <4>1. attempt[e][n].lease \in 0..LeaseTicks
          BY DEF TypeOK, Attempt
        <4>2. attempt[e][n].lease - 1 \in 0..LeaseTicks
          BY <3>2, <4>1, ConstantsAssumption DEF AttemptLeaseTick, MayReport
        <4> QED
          BY <3>2, <4>2 DEF AttemptLeaseTick
      <3> QED
        BY <1>4, <3>1, <3>2
    <2>2. [attempt[e][n] EXCEPT !.lease = l] \in Attempt
      BY RowTypes DEF Attempt
    <2>3. attempt' \in [Execs -> [Attempts -> Attempt]]
      BY <2>1, <2>2, CellType DEF TypeOK
    <2> QED
      BY <1>4, <2>3 DEF TypeOK, RenewAttempt, AttemptLeaseTick
  <1>5. ASSUME NEW e \in Execs, NEW n \in Attempts, NEW r \in Results,
               FinishAttempt(e, n, r) \/ PrepareFailed(e, n, r)
        PROVE  TypeOK'
    BY <1>5, ApplyTerminalType DEF FinishAttempt, PrepareFailed
  <1>6. ASSUME NEW e \in Execs, NEW n \in Attempts, RecoverExpiredAttempt(e, n)
        PROVE  TypeOK'
    BY <1>6, ApplyTerminalType DEF RecoverExpiredAttempt, Results
  <1>7. ASSUME NEW e \in Execs, RetryDispatch(e) PROVE TypeOK'
    <2>1. execution[e].gen + 1 \in Gens
      BY <1>7, ConstantsAssumption DEF TypeOK, RetryDispatch, Execution, Gens
    <2>2. execution' \in [Execs -> Execution]
      <3> DEFINE x == [execution[e] EXCEPT !.status = "queued", !.gen = execution[e].gen + 1]
      <3>1. x \in Execution
        <4>1. execution[e].gen + 1 \in 0..MaxGen
          BY <2>1, ConstantsAssumption DEF Gens
        <4>2. execution[e] \in Execution
          BY RowTypes
        <4> QED
          BY <4>1, <4>2 DEF Execution, Outstanding
      <3>2. execution' = [execution EXCEPT ![e] = x]
        BY <1>7 DEF RetryDispatch
      <3> HIDE DEF x
      <3> QED
        BY <3>1, <3>2 DEF TypeOK
    <2>3. outbox' \in [Execs -> [Gens -> Row]]
      BY <1>7, <2>1, OutboxType DEF RetryDispatch
    <2> QED
      BY <1>7, <2>2, <2>3 DEF TypeOK, RetryDispatch
  <1>8. ASSUME NEW e \in Execs, CancelExecution(e) PROVE TypeOK'
    <2>1. Converged(e) \in [Gens \X Kinds -> IncidentStatus]
      BY DEF TypeOK, Converged, IncidentStatus
    <2>2. incident[e] \in [Gens \X Kinds -> IncidentStatus]
      BY DEF TypeOK
    <2> QED
      BY <1>8, <2>1, <2>2, CancelLockedType DEF CancelExecution
  <1>9. ASSUME NEW r \in Relays, NEW batch \in SUBSET (Execs \X Gens), LeaseDueOutbox(r, batch)
        PROVE  TypeOK'
    <2>1. outbox' \in [Execs -> [Gens -> Row]]
      <3>1. \A e \in Execs, g \in Gens : [outbox[e][g] EXCEPT !.owner = r, !.live = TRUE] \in Row
        BY RowTypes DEF Row
      <3> QED
        BY <1>9, <3>1 DEF TypeOK, LeaseDueOutbox
    <2> QED
      BY <1>9, <2>1 DEF TypeOK, LeaseDueOutbox
  <1>10. ASSUME NEW r \in Relays, NEW e \in Execs, NEW g \in Gens,
                ReleaseOutboxLease(r, e, g) \/ MarkOutboxPublished(r, e, g)
         PROVE  TypeOK'
    <2>1. outbox' \in [Execs -> [Gens -> Row]]
      <3>1. PICK row \in {PendingRow, PublishedRow} : outbox' = [outbox EXCEPT ![e][g] = row]
        BY <1>10 DEF ReleaseOutboxLease, MarkOutboxPublished
      <3>2. row \in Row
        BY RowsType
      <3> QED
        BY <3>1, <3>2, CellType DEF TypeOK
    <2> QED
      BY <1>10, <2>1 DEF TypeOK, ReleaseOutboxLease, MarkOutboxPublished
  <1>11. ASSUME NEW e \in Execs, SettleCancelledOutbox(e) PROVE TypeOK'
    <2>1. outbox' \in [Execs -> [Gens -> Row]]
      BY <1>11, OutboxType DEF TypeOK, SettleCancelledOutbox
    <2> QED
      BY <1>11, <2>1 DEF TypeOK, SettleCancelledOutbox
  <1>12. ASSUME NEW e \in Execs, NEW g \in Gens, OutboxLeaseExpire(e, g) PROVE TypeOK'
    <2>1. outbox' = [outbox EXCEPT ![e][g] = [outbox[e][g] EXCEPT !.live = FALSE]]
      BY <1>12 DEF OutboxLeaseExpire
    <2>2. [outbox[e][g] EXCEPT !.live = FALSE] \in Row
      BY RowTypes DEF Row
    <2>3. outbox' \in [Execs -> [Gens -> Row]]
      BY <2>1, <2>2, CellType DEF TypeOK
    <2> QED
      BY <1>12, <2>3 DEF TypeOK, OutboxLeaseExpire
  <1>13. ASSUME NEW e \in Execs, NEW g \in Gens, NEW k \in Kinds, ReconcileDeadLetter(e, g, k)
         PROVE  TypeOK'
    <2>1. PICK s \in IncidentStatus : incident' = [incident EXCEPT ![e][<<g, k>>] = s]
      BY <1>13 DEF ReconcileDeadLetter, IncidentStatus
    <2>2. incident' \in [Execs -> [Gens \X Kinds -> IncidentStatus]]
      BY <2>1, CellType DEF TypeOK
    <2>3. outbox' \in [Execs -> [Gens -> Row]]
      BY <1>13, CellType, RowsType DEF TypeOK, ReconcileDeadLetter
    <2> QED
      BY <1>13, <2>2, <2>3 DEF TypeOK, ReconcileDeadLetter
  <1>14. ASSUME NEW e \in Execs, NEW i \in Gens \X Kinds,
                CloseSettledIncident(e, i) \/ RecoverPendingDispatch(e, i)
         PROVE  TypeOK'
    <2>1. incident' \in [Execs -> [Gens \X Kinds -> IncidentStatus]]
      <3>1. incident' = [incident EXCEPT ![e][i] = "closed"]
        BY <1>14 DEF CloseSettledIncident, RecoverPendingDispatch, CloseIncident
      <3> QED
        BY <3>1, CellType DEF TypeOK, IncidentStatus
    <2> QED
      BY <1>14, <2>1 DEF TypeOK, CloseSettledIncident, RecoverPendingDispatch
  <1>15. ASSUME NEW e \in Execs, NEW i \in Gens \X Kinds, TerminateIncident(e, i)
         PROVE  TypeOK'
    <2> DEFINE inc == IF execution[e].status = "running"
                      THEN [incident[e] EXCEPT ![i] =
                               IF @ = "closed" THEN "closed" ELSE "terminating"]
                      ELSE [Converged(e) EXCEPT ![i] = "closed"]
    <2>1. inc \in [Gens \X Kinds -> IncidentStatus]
      BY DEF TypeOK, Converged, IncidentStatus
    <2>2. CancelLocked(e, inc) /\ UNCHANGED <<attempt, slot, guard>>
      BY <1>15 DEF TerminateIncident
    <2> HIDE DEF inc
    <2> QED
      BY <2>1, <2>2, CancelLockedType
  <1>16. ASSUME NEW e \in Execs, NEW i \in Gens \X Kinds, RecoverPublishedDispatch(e, i)
         PROVE  TypeOK'
    <2>1. execution[e].gen + 1 \in Gens
      BY <1>16, ConstantsAssumption DEF TypeOK, RecoverPublishedDispatch, Execution, Gens
    <2>2. execution' \in [Execs -> Execution]
      <3> DEFINE x == [execution[e] EXCEPT !.gen = execution[e].gen + 1]
      <3>1. x \in Execution
        BY <2>1, RowTypes DEF Execution, Gens
      <3>2. execution' = [execution EXCEPT ![e] = x]
        BY <1>16 DEF RecoverPublishedDispatch
      <3> HIDE DEF x
      <3> QED
        BY <3>1, <3>2 DEF TypeOK
    <2>3. outbox' \in [Execs -> [Gens -> Row]]
      BY <1>16, <2>1, CellType, RowsType DEF TypeOK, RecoverPublishedDispatch
    <2>4. incident' \in [Execs -> [Gens \X Kinds -> IncidentStatus]]
      BY <1>16, CellType DEF TypeOK, RecoverPublishedDispatch, CloseIncident, IncidentStatus
    <2> QED
      BY <1>16, <2>2, <2>3, <2>4 DEF TypeOK, RecoverPublishedDispatch
  <1>17. ASSUME NEW a \in Adapters, AcquireGcGuard(a) \/ FinishGuard(a) PROVE TypeOK'
    <2>1. [phase |-> "gc", holder |-> NoAttempt] \in Guard
      BY DEF Guard
    <2>2. guard' \in [Adapters -> Guard]
      BY <1>17, <2>1, RowsType DEF TypeOK, AcquireGcGuard, FinishGuard
    <2> QED
      BY <1>17, <2>2 DEF TypeOK, AcquireGcGuard, FinishGuard
  <1>18. ASSUME NEW e \in Execs, NEW n \in Attempts, AcquireReplacementGuard(e, n)
         PROVE  TypeOK'
    BY <1>18 DEF TypeOK, AcquireReplacementGuard, Guard, AttemptIds
  <1>19. CASE UNCHANGED vars
    BY <1>19 DEF TypeOK, vars
  <1> QED
    BY <1>1, <1>2, <1>3, <1>4, <1>5, <1>6, <1>7, <1>8, <1>9, <1>10, <1>11, <1>12, <1>13,
       <1>14, <1>15, <1>16, <1>17, <1>18, <1>19 DEF Next

\* Every table keeps its type: the generation, the attempt number and the lease
\* stay inside their ranges through every transaction.
THEOREM TypeCorrect == Spec => []TypeOK
  BY TypeInit, TypeNext, PTL DEF Spec

-----------------------------------------------------------------------------
(* The inductive invariant.  Serial execution and an honoured cancellation   *)
(* preserve themselves; the capacity counters also need the release marker,  *)
(* and the abstract lifecycle needs to know that a waiting Execution has an  *)
(* attempt left, which in turn rests on serial execution.                    *)

AttemptsLeft ==
    \A e \in Execs :
       /\ execution[e].status \in Waiting => execution[e].attempt_count < MaxAttempts
       /\ execution[e].status = "absent" => execution[e].attempt_count = 0

IInv ==
    /\ TypeOK
    /\ SerialSlot
    /\ CancelHonoured
    /\ AdmissionExact
    /\ AttemptsLeft

(* Every transaction does one of seven things to the Executions, Attempts,   *)
(* Slots and counters.                                                       *)

CancelWaiting(e) ==
    /\ execution[e].status \in Waiting
    /\ execution' = [execution EXCEPT ![e] =
                        [@ EXCEPT !.status = "cancelled", !.released = TRUE]]
    /\ ReleaseAdmissionOnce(e)
    /\ UNCHANGED <<attempt, slot>>

CancelRunning(e) ==
    /\ execution[e].status = "running"
    /\ execution' = [execution EXCEPT ![e].cancel_requested = TRUE]
    /\ UNCHANGED <<attempt, slot, admission, outstanding>>

Claiming(e, n) ==
    /\ execution[e].status = "queued"
    /\ ~ execution[e].cancel_requested
    /\ ~ Guarded(e)
    /\ ~ SlotBusy(AdapterOf[e])
    /\ n = execution[e].attempt_count + 1
    /\ ClaimAttempt(e, n)

Ending(e, n, r) ==
    /\ Active(e, n)
    /\ ApplyTerminal(e, n, r)

\* Nothing that the invariant is about changes.
Quiet ==
    /\ \A e \in Execs :
          /\ execution'[e].status = execution[e].status
          /\ execution'[e].attempt_count = execution[e].attempt_count
          /\ execution'[e].cancel_requested = execution[e].cancel_requested
          /\ execution'[e].released = execution[e].released
    /\ \A e \in Execs, n \in Attempts :
          /\ attempt'[e][n].fence = attempt[e][n].fence
          /\ attempt'[e][n].status \in ActiveAttempt <=> attempt[e][n].status \in ActiveAttempt
          /\ attempt'[e][n].status = "absent" <=> attempt[e][n].status = "absent"
    /\ UNCHANGED <<slot, admission, outstanding>>

\* A transaction that leaves Executions, Attempts, Slots and counters alone is
\* quiet.
LEMMA QuietWhenUnchanged ==
    UNCHANGED <<execution, attempt, slot, admission, outstanding>> => Quiet
  BY DEF Quiet

\* A step that only touches a lease or starts a claimed Attempt is quiet.
LEMMA QuietAttempt ==
    ASSUME TypeOK, NEW e \in Execs, NEW n \in Attempts, NEW row,
           attempt' = [attempt EXCEPT ![e][n] = row],
           row.fence = attempt[e][n].fence,
           row.status \in ActiveAttempt, attempt[e][n].status \in ActiveAttempt,
           UNCHANGED <<execution, slot, admission, outstanding>>
    PROVE  Quiet
  <1>1. \A d \in Execs, m \in Attempts :
           attempt'[d][m] = IF d = e /\ m = n THEN row ELSE attempt[d][m]
    BY DEF TypeOK
  <1>2. \A d \in Execs, m \in Attempts :
           /\ attempt'[d][m].fence = attempt[d][m].fence
           /\ attempt'[d][m].status \in ActiveAttempt <=> attempt[d][m].status \in ActiveAttempt
           /\ attempt'[d][m].status = "absent" <=> attempt[d][m].status = "absent"
    BY <1>1 DEF ActiveAttempt
  <1> QED
    BY <1>2 DEF Quiet

\* Every transaction of Next is of one of the seven shapes above: this is where
\* each handler of the code is looked at, once.
LEMMA Shapes ==
    ASSUME IInv, [Next]_vars
    PROVE  \/ Quiet
           \/ \E e \in Execs : \/ AcceptExecution(e)
                               \/ RetryDispatch(e)
                               \/ CancelWaiting(e)
                               \/ CancelRunning(e)
           \/ \E e \in Execs, n \in Attempts : Claiming(e, n)
           \/ \E e \in Execs, n \in Attempts, r \in Results : Ending(e, n, r)
  <1> USE DEF IInv
  <1>1. ASSUME NEW e \in Execs, NEW g \in Gens, ClaimDispatch(e, g)
        PROVE  Quiet \/ \E n \in Attempts : Claiming(e, n)
    <2>1. /\ execution[e].status = "queued"
          /\ ~ execution[e].cancel_requested
          /\ execution[e].attempt_count < MaxAttempts
      BY <1>1 DEF ClaimDispatch, CancelHonoured, AttemptsLeft, Waiting
    <2>2. execution[e].attempt_count \in 0..MaxAttempts
      BY RowTypes DEF Execution
    <2>3. /\ execution[e].attempt_count + 1 \in Attempts
          /\ ~ (execution[e].attempt_count + 1 > MaxAttempts)
      BY <2>1, <2>2, ConstantsAssumption DEF Attempts
    <2>4. CASE Guarded(e)
      BY <1>1, <2>1, <2>4, QuietWhenUnchanged DEF ClaimDispatch
    <2>5. CASE ~ Guarded(e)
      BY <1>1, <2>1, <2>3, <2>5 DEF ClaimDispatch, Claiming
    <2> QED
      BY <2>4, <2>5
  <1>2. ASSUME NEW e \in Execs, NEW n \in Attempts, StartAttempt(e, n)
        PROVE  Quiet \/ \E r \in Results : Ending(e, n, r)
    <2>1. CASE execution[e].cancel_requested
      BY <1>2, <2>1 DEF StartAttempt, MayReport, Ending, Results, Reports
    <2>2. CASE ~ execution[e].cancel_requested
      <3> DEFINE row == [attempt[e][n] EXCEPT !.status = "running"]
      <3>1. /\ attempt' = [attempt EXCEPT ![e][n] = row]
            /\ UNCHANGED <<execution, slot, admission, outstanding>>
        BY <1>2, <2>2 DEF StartAttempt
      <3>2. attempt[e][n].status \in ActiveAttempt
        BY <1>2 DEF StartAttempt, MayReport, Active
      <3>3. row.fence = attempt[e][n].fence /\ row.status \in ActiveAttempt
        BY RowTypes DEF Attempt, ActiveAttempt
      <3> HIDE DEF row
      <3> QED
        BY <3>1, <3>2, <3>3, QuietAttempt
    <2> QED
      BY <2>1, <2>2
  <1>3. ASSUME NEW e \in Execs, NEW n \in Attempts,
               RenewAttempt(e, n) \/ AttemptLeaseTick(e, n)
        PROVE  Quiet
    <2>1. PICK l : attempt' = [attempt EXCEPT ![e][n] = [attempt[e][n] EXCEPT !.lease = l]]
      BY <1>3 DEF RenewAttempt, AttemptLeaseTick
    <2> DEFINE row == [attempt[e][n] EXCEPT !.lease = l]
    <2>2. attempt[e][n].status \in ActiveAttempt
      BY <1>3 DEF RenewAttempt, AttemptLeaseTick, MayReport, Active
    <2>3. row.fence = attempt[e][n].fence /\ row.status \in ActiveAttempt
      BY <2>2, RowTypes DEF Attempt
    <2>4. UNCHANGED <<execution, slot, admission, outstanding>>
      BY <1>3 DEF RenewAttempt, AttemptLeaseTick
    <2>5. attempt' = [attempt EXCEPT ![e][n] = row]
      BY <2>1
    <2> HIDE DEF row
    <2> QED
      BY <2>2, <2>3, <2>4, <2>5, QuietAttempt
  <1>4. ASSUME NEW e \in Execs, NEW n \in Attempts, NEW r \in Results,
               FinishAttempt(e, n, r) \/ PrepareFailed(e, n, r)
        PROVE  Ending(e, n, r)
    BY <1>4 DEF FinishAttempt, PrepareFailed, MayReport, Ending
  <1>5. ASSUME NEW e \in Execs, NEW n \in Attempts, RecoverExpiredAttempt(e, n)
        PROVE  Ending(e, n, "worker_lost")
    BY <1>5 DEF RecoverExpiredAttempt, Ending
  <1>6. ASSUME NEW e \in Execs, NEW inc, CancelLocked(e, inc), UNCHANGED <<attempt, slot>>
        PROVE  CancelWaiting(e) \/ CancelRunning(e)
    BY <1>6 DEF CancelLocked, CancelWaiting, CancelRunning
  <1>7. ASSUME NEW e \in Execs, NEW i \in Gens \X Kinds, RecoverPublishedDispatch(e, i)
        PROVE  Quiet
    <2>1. /\ execution' = [execution EXCEPT ![e].gen = execution[e].gen + 1]
          /\ UNCHANGED <<attempt, slot, admission, outstanding>>
      BY <1>7 DEF RecoverPublishedDispatch
    <2> QED
      BY <2>1 DEF TypeOK, Quiet, Execution
  <1>8. ASSUME NEW e \in Execs, NEW g \in Gens, NEW k \in Kinds, ReconcileDeadLetter(e, g, k)
        PROVE  Quiet
    BY <1>8, QuietWhenUnchanged DEF ReconcileDeadLetter
  <1>9. ASSUME NEW e \in Execs, NEW i \in Gens \X Kinds,
               CloseSettledIncident(e, i) \/ RecoverPendingDispatch(e, i)
        PROVE  Quiet
    BY <1>9, QuietWhenUnchanged DEF CloseSettledIncident, RecoverPendingDispatch
  <1>10. ASSUME NEW e \in Execs, NEW g \in Gens, NEW r \in Relays,
                ReleaseOutboxLease(r, e, g) \/ MarkOutboxPublished(r, e, g)
         PROVE  Quiet
    BY <1>10, QuietWhenUnchanged DEF ReleaseOutboxLease, MarkOutboxPublished
  <1>11. ASSUME NEW e \in Execs, NEW g \in Gens,
                SettleCancelledOutbox(e) \/ OutboxLeaseExpire(e, g)
         PROVE  Quiet
    BY <1>11, QuietWhenUnchanged DEF SettleCancelledOutbox, OutboxLeaseExpire
  <1>12. ASSUME NEW r \in Relays, NEW batch \in SUBSET (Execs \X Gens), LeaseDueOutbox(r, batch)
         PROVE  Quiet
    BY <1>12, QuietWhenUnchanged DEF LeaseDueOutbox
  <1>13. ASSUME NEW a \in Adapters, AcquireGcGuard(a) \/ FinishGuard(a) PROVE Quiet
    BY <1>13, QuietWhenUnchanged DEF AcquireGcGuard, FinishGuard
  <1>14. ASSUME NEW e \in Execs, NEW n \in Attempts, AcquireReplacementGuard(e, n) PROVE Quiet
    BY <1>14, QuietWhenUnchanged DEF AcquireReplacementGuard
  <1>15. CASE UNCHANGED vars
    BY <1>15, QuietWhenUnchanged DEF vars
  <1>16. ASSUME NEW e \in Execs, CancelExecution(e)
         PROVE  CancelWaiting(e) \/ CancelRunning(e)
    BY <1>6, <1>16 DEF CancelExecution
  <1>17. ASSUME NEW e \in Execs, NEW i \in Gens \X Kinds, TerminateIncident(e, i)
         PROVE  CancelWaiting(e) \/ CancelRunning(e)
    BY <1>6, <1>17 DEF TerminateIncident
  <1>18. 1 \in Gens
    BY ConstantsAssumption DEF Gens
  <1> QED
    BY <1>1, <1>2, <1>3, <1>4, <1>5, <1>7, <1>8, <1>9, <1>10, <1>11, <1>12, <1>13, <1>14,
       <1>15, <1>16, <1>17, <1>18 DEF Next, Results

\* What the ending of an Attempt does to its Execution.
LEMMA EndingExecution ==
    ASSUME IInv, NEW e \in Execs, NEW n \in Attempts, NEW r \in Results, Ending(e, n, r)
    PROVE  /\ execution[e].status = "running"
           /\ execution[e].attempt_count = n
           /\ \A d \in Execs \ {e} : execution'[d] = execution[d]
           /\ execution'[e].status = StatusAfter(e, n, r)
           /\ execution'[e].attempt_count = n
           /\ execution'[e].cancel_requested = execution[e].cancel_requested
           /\ StatusAfter(e, n, r) \in Terminal \cup {"retry_wait"}
           /\ StatusAfter(e, n, r) # "running"
  <1>1. /\ execution[e].status = "running"
        /\ execution[e].attempt_count = n
    BY DEF IInv, Ending, SerialSlot
  <1>2. /\ StatusAfter(e, n, r) \in Terminal \cup {"retry_wait"}
        /\ StatusAfter(e, n, r) # "running"
    BY DEF StatusAfter, Terminal
  <1>3. \/ execution' = [execution EXCEPT ![e] =
                 [@ EXCEPT !.status = StatusAfter(e, n, r), !.released = TRUE]]
        \/ execution' = [execution EXCEPT ![e] = [@ EXCEPT !.status = StatusAfter(e, n, r)]]
    BY DEF Ending, ApplyTerminal, Finalize
  <1>4. execution \in [Execs -> Execution] /\ execution[e] \in Execution
    BY RowTypes DEF IInv, TypeOK
  <1>5. /\ \A d \in Execs \ {e} : execution'[d] = execution[d]
        /\ execution'[e].status = StatusAfter(e, n, r)
        /\ execution'[e].attempt_count = execution[e].attempt_count
        /\ execution'[e].cancel_requested = execution[e].cancel_requested
    BY <1>3, <1>4, Zenon DEF Execution
  <1> QED
    BY <1>1, <1>2, <1>5

\* What the ending of an Attempt does to the Attempts and to its Slot.
LEMMA EndingAttempt ==
    ASSUME IInv, NEW e \in Execs, NEW n \in Attempts, NEW r \in Results, Ending(e, n, r)
    PROVE  /\ \A d \in Execs, m \in Attempts : ~ (d = e /\ m = n) => attempt'[d][m] = attempt[d][m]
           /\ attempt'[e][n].status = r
           /\ attempt'[e][n].fence = attempt[e][n].fence
           /\ \A d \in Execs, m \in Attempts : Active(d, m)' <=> Active(d, m) /\ ~ (d = e /\ m = n)
           /\ slot[AdapterOf[e]].active = <<e, n>>
           /\ slot' = [slot EXCEPT ![AdapterOf[e]].active = NoAttempt]
  <1>1. /\ slot[AdapterOf[e]].active = <<e, n>>
        /\ slot[AdapterOf[e]].fence = attempt[e][n].fence
    BY DEF IInv, Ending, SerialSlot
  <1>2. \A d \in Execs, m \in Attempts :
           attempt'[d][m] = IF d = e /\ m = n
                            THEN [attempt[e][n] EXCEPT !.status = r]
                            ELSE attempt[d][m]
    BY DEF IInv, Ending, ApplyTerminal, TypeOK
  <1>3. r \notin ActiveAttempt
    BY DEF Results, Reports, ActiveAttempt
  <1>4. attempt'[e][n].status = r /\ attempt'[e][n].fence = attempt[e][n].fence
    <2>1. attempt[e][n] \in Attempt
      BY RowTypes DEF IInv
    <2>2. attempt'[e][n] = [attempt[e][n] EXCEPT !.status = r]
      BY <1>2
    <2> QED
      BY <2>1, <2>2 DEF Attempt
  <1>5. \A d \in Execs, m \in Attempts : ~ (d = e /\ m = n) => attempt'[d][m] = attempt[d][m]
    BY <1>2
  <1>6. \A d \in Execs, m \in Attempts : Active(d, m)' <=> Active(d, m) /\ ~ (d = e /\ m = n)
    BY <1>3, <1>4, <1>5 DEF Active
  <1>7. slot' = [slot EXCEPT ![AdapterOf[e]].active = NoAttempt]
    BY <1>1 DEF Ending, ApplyTerminal, ReleaseSlot
  <1> QED
    BY <1>1, <1>4, <1>5, <1>6, <1>7

\* What a Claim does to each row, and that no other Attempt of the Adapter is
\* active when it happens.
LEMMA ClaimingEffect ==
    ASSUME IInv, NEW e \in Execs, NEW n \in Attempts, Claiming(e, n)
    PROVE  /\ execution[e].status = "queued"
           /\ \A d \in Execs, m \in Attempts : AdapterOf[d] = AdapterOf[e] => ~ Active(d, m)
           /\ \A d \in Execs : AdapterOf[d] = AdapterOf[e] => execution[d].status # "running"
           /\ \A d \in Execs, m \in Attempts :
                 attempt'[d][m] = IF d = e /\ m = n
                                  THEN [status |-> "claimed", fence |-> NextFence(AdapterOf[e]),
                                        lease |-> LeaseTicks]
                                  ELSE attempt[d][m]
           /\ \A d \in Execs, m \in Attempts : Active(d, m)' <=> Active(d, m) \/ (d = e /\ m = n)
           /\ slot' = [slot EXCEPT ![AdapterOf[e]] =
                          [active |-> <<e, n>>, fence |-> NextFence(AdapterOf[e])]]
           /\ \A d \in Execs \ {e} : execution'[d] = execution[d]
           /\ execution'[e].status = "running"
           /\ execution'[e].attempt_count = n
           /\ execution'[e].cancel_requested = execution[e].cancel_requested
           /\ execution'[e].released = execution[e].released
           /\ UNCHANGED <<admission, outstanding>>
  <1>1. /\ execution[e].status = "queued"
        /\ ~ SlotBusy(AdapterOf[e])
        /\ ClaimAttempt(e, n)
    BY DEF Claiming
  <1>2. \A d \in Execs, m \in Attempts : AdapterOf[d] = AdapterOf[e] => ~ Active(d, m)
    <2> SUFFICES ASSUME NEW d \in Execs, NEW m \in Attempts,
                        AdapterOf[d] = AdapterOf[e], Active(d, m)
                 PROVE  FALSE
      OBVIOUS
    <2>1. slot[AdapterOf[e]].active = <<d, m>>
      BY DEF IInv, SerialSlot
    <2>2. <<d, m>> # NoAttempt
      BY ConstantsAssumption DEF AttemptIds
    <2> QED
      BY <1>1, <2>1, <2>2 DEF SlotBusy
  <1>3. \A d \in Execs : AdapterOf[d] = AdapterOf[e] => execution[d].status # "running"
    BY <1>2 DEF IInv, SerialSlot, HasActiveAttempt
  <1>4. \A d \in Execs, m \in Attempts :
           attempt'[d][m] = IF d = e /\ m = n
                            THEN [status |-> "claimed", fence |-> NextFence(AdapterOf[e]),
                                  lease |-> LeaseTicks]
                            ELSE attempt[d][m]
    BY <1>1 DEF IInv, TypeOK, ClaimAttempt
  <1>5. \A d \in Execs, m \in Attempts : Active(d, m)' <=> Active(d, m) \/ (d = e /\ m = n)
    BY <1>4 DEF Active, ActiveAttempt
  <1>6. /\ slot' = [slot EXCEPT ![AdapterOf[e]] =
                       [active |-> <<e, n>>, fence |-> NextFence(AdapterOf[e])]]
        /\ UNCHANGED <<admission, outstanding>>
    BY <1>1 DEF ClaimAttempt
  <1>7. /\ \A d \in Execs \ {e} : execution'[d] = execution[d]
        /\ execution'[e].status = "running"
        /\ execution'[e].attempt_count = n
        /\ execution'[e].cancel_requested = execution[e].cancel_requested
        /\ execution'[e].released = execution[e].released
    <2>1. execution \in [Execs -> Execution] /\ execution[e] \in Execution
      BY RowTypes DEF IInv, TypeOK
    <2>2. execution' = [execution EXCEPT ![e] =
             [@ EXCEPT !.status = "running", !.attempt_count = n]]
      BY <1>1 DEF ClaimAttempt
    <2> QED
      BY <2>1, <2>2 DEF Execution
  <1> QED
    BY <1>1, <1>2, <1>3, <1>4, <1>5, <1>6, <1>7

\* What the other shapes do to the rows of the Executions.
LEMMA WaitingEffect ==
    ASSUME IInv, NEW e \in Execs,
           AcceptExecution(e) \/ RetryDispatch(e) \/ CancelWaiting(e) \/ CancelRunning(e)
    PROVE  /\ \A d \in Execs \ {e} : execution'[d] = execution[d]
           /\ execution'[e].attempt_count = execution[e].attempt_count
           /\ UNCHANGED <<attempt, slot>>
           /\ AcceptExecution(e) => /\ execution[e].status = "absent"
                                    /\ execution'[e].status = "queued"
                                    /\ execution'[e].cancel_requested = execution[e].cancel_requested
                                    /\ execution'[e].released = execution[e].released
           /\ RetryDispatch(e) => /\ execution[e].status = "retry_wait"
                                  /\ execution'[e].status = "queued"
                                  /\ execution'[e].cancel_requested = execution[e].cancel_requested
                                  /\ execution'[e].released = execution[e].released
                                  /\ UNCHANGED <<admission, outstanding>>
           /\ CancelWaiting(e) => /\ execution[e].status \in Waiting
                                  /\ execution'[e].status = "cancelled"
                                  /\ execution'[e].cancel_requested = execution[e].cancel_requested
                                  /\ execution'[e].released
           /\ CancelRunning(e) => /\ execution[e].status = "running"
                                  /\ execution'[e].status = "running"
                                  /\ execution'[e].cancel_requested
                                  /\ execution'[e].released = execution[e].released
                                  /\ UNCHANGED <<admission, outstanding>>
  <1>1. execution \in [Execs -> Execution] /\ execution[e] \in Execution
    BY RowTypes DEF IInv, TypeOK
  <1> DEFINE Others == /\ \A d \in Execs \ {e} : execution'[d] = execution[d]
                       /\ execution'[e].attempt_count = execution[e].attempt_count
                       /\ UNCHANGED <<attempt, slot>>
  <1>2. ASSUME AcceptExecution(e)
        PROVE  /\ Others
               /\ execution[e].status = "absent"
               /\ execution'[e].status = "queued"
               /\ execution'[e].cancel_requested = execution[e].cancel_requested
               /\ execution'[e].released = execution[e].released
    BY <1>1, <1>2 DEF AcceptExecution, ReserveAdmission, Execution
  <1>3. ASSUME RetryDispatch(e)
        PROVE  /\ Others
               /\ execution[e].status = "retry_wait"
               /\ execution'[e].status = "queued"
               /\ execution'[e].cancel_requested = execution[e].cancel_requested
               /\ execution'[e].released = execution[e].released
               /\ UNCHANGED <<admission, outstanding>>
    BY <1>1, <1>3 DEF RetryDispatch, Execution
  <1>4. ASSUME CancelWaiting(e)
        PROVE  /\ Others
               /\ execution[e].status \in Waiting
               /\ execution'[e].status = "cancelled"
               /\ execution'[e].cancel_requested = execution[e].cancel_requested
               /\ execution'[e].released
    BY <1>1, <1>4 DEF CancelWaiting, Execution
  <1>5. ASSUME CancelRunning(e)
        PROVE  /\ Others
               /\ execution[e].status = "running"
               /\ execution'[e].status = "running"
               /\ execution'[e].cancel_requested
               /\ execution'[e].released = execution[e].released
               /\ UNCHANGED <<admission, outstanding>>
    BY <1>1, <1>5 DEF CancelRunning, Execution
  <1> QED
    BY <1>2, <1>3, <1>4, <1>5

\* At most one active Attempt per Adapter, held by its Slot under its fence.
LEMMA SerialNext ==
    ASSUME IInv, [Next]_vars
    PROVE  SerialSlot'
  <1> DEFINE P(e, n) == Active(e, n) => /\ slot[AdapterOf[e]].active = <<e, n>>
                                        /\ slot[AdapterOf[e]].fence = attempt[e][n].fence
                                        /\ execution[e].status = "running"
                                        /\ execution[e].attempt_count = n
             Q(a) == slot[a].active # NoAttempt =>
                        /\ Active(slot[a].active[1], slot[a].active[2])
                        /\ AdapterOf[slot[a].active[1]] = a
             R(e) == execution[e].status = "running" => HasActiveAttempt(e)
  <1>1. SerialSlot' <=> /\ \A e \in Execs, n \in Attempts : P(e, n)'
                        /\ \A a \in Adapters : Q(a)'
                        /\ \A e \in Execs : R(e)'
    BY DEF SerialSlot
  <1>2. /\ \A e \in Execs, n \in Attempts : P(e, n)
        /\ \A a \in Adapters : Q(a)
        /\ \A e \in Execs : R(e)
    BY DEF IInv, SerialSlot
  <1>t. /\ slot \in [Adapters -> Slot]
        /\ \A e \in Execs : AdapterOf[e] \in Adapters
        /\ \A a \in Adapters : slot[a].active # NoAttempt =>
              /\ slot[a].active[1] \in Execs
              /\ slot[a].active[2] \in Attempts
              /\ slot[a].active = <<slot[a].active[1], slot[a].active[2]>>
    BY ConstantsAssumption DEF IInv, TypeOK, Slot, AttemptIds
  <1>3. CASE Quiet
    <2>1. \A e \in Execs, n \in Attempts : Active(e, n)' <=> Active(e, n)
      BY <1>3 DEF Quiet, Active
    <2>2. \A e \in Execs, n \in Attempts : P(e, n)'
      BY <1>2, <1>3, <2>1 DEF Quiet
    <2>3. \A a \in Adapters : Q(a)'
      BY <1>2, <1>3, <1>t, <2>1 DEF Quiet
    <2>4. \A e \in Execs : R(e)'
      BY <1>2, <1>3, <2>1 DEF Quiet, HasActiveAttempt
    <2> QED
      BY <1>1, <2>2, <2>3, <2>4
  <1>4. ASSUME NEW e \in Execs,
               AcceptExecution(e) \/ RetryDispatch(e) \/ CancelWaiting(e) \/ CancelRunning(e)
        PROVE  SerialSlot'
    <2>1. /\ UNCHANGED <<attempt, slot>>
          /\ \A d \in Execs : execution'[d].attempt_count = execution[d].attempt_count
          /\ \A d \in Execs : execution'[d].status = "running" <=> execution[d].status = "running"
      BY <1>4, WaitingEffect DEF Waiting
    <2>2. \A d \in Execs, n \in Attempts : Active(d, n)' <=> Active(d, n)
      BY <2>1 DEF Active
    <2>3. \A d \in Execs, n \in Attempts : P(d, n)'
      BY <1>2, <2>1, <2>2
    <2>4. \A a \in Adapters : Q(a)'
      BY <1>2, <1>t, <2>1, <2>2
    <2>5. \A d \in Execs : R(d)'
      BY <1>2, <2>1, <2>2 DEF HasActiveAttempt
    <2> QED
      BY <1>1, <2>3, <2>4, <2>5
  <1>5. ASSUME NEW e \in Execs, NEW n \in Attempts, Claiming(e, n)
        PROVE  SerialSlot'
    <2> DEFINE b == AdapterOf[e]
    <2>1. /\ \A d \in Execs, m \in Attempts : AdapterOf[d] = b => ~ Active(d, m)
          /\ \A d \in Execs : AdapterOf[d] = b => execution[d].status # "running"
          /\ \A d \in Execs, m \in Attempts : Active(d, m)' <=> Active(d, m) \/ (d = e /\ m = n)
      BY <1>5, ClaimingEffect
    <2>a. \A d \in Execs, m \in Attempts :
             attempt'[d][m] = IF d = e /\ m = n
                              THEN [status |-> "claimed", fence |-> NextFence(b),
                                    lease |-> LeaseTicks]
                              ELSE attempt[d][m]
      BY <1>5, ClaimingEffect
    <2>c. /\ \A d \in Execs, m \in Attempts : ~ (d = e /\ m = n) => attempt'[d][m] = attempt[d][m]
          /\ attempt'[e][n].fence = NextFence(b)
      BY <2>a
    <2>2. /\ \A d \in Execs \ {e} : execution'[d] = execution[d]
          /\ execution'[e].status = "running"
          /\ execution'[e].attempt_count = n
      BY <1>5, ClaimingEffect
    <2>3. /\ slot'[b].active = <<e, n>>
          /\ slot'[b].fence = NextFence(b)
          /\ \A a \in Adapters \ {b} : slot'[a] = slot[a]
      <3>1. slot' = [slot EXCEPT ![b] = [active |-> <<e, n>>, fence |-> NextFence(b)]]
        BY <1>5, ClaimingEffect
      <3>2. slot \in [Adapters -> Slot] /\ b \in Adapters
        BY <1>t
      <3> HIDE DEF b
      <3> QED
        BY <3>1, <3>2
    <2>4. \A d \in Execs, m \in Attempts : P(d, m)'
      <3> SUFFICES ASSUME NEW d \in Execs, NEW m \in Attempts, Active(d, m)'
                   PROVE  /\ slot'[AdapterOf[d]].active = <<d, m>>
                          /\ slot'[AdapterOf[d]].fence = attempt'[d][m].fence
                          /\ execution'[d].status = "running"
                          /\ execution'[d].attempt_count = m
        OBVIOUS
      <3>1. CASE d = e /\ m = n
        BY <3>1, <2>2, <2>3, <2>c
      <3>2. CASE ~ (d = e /\ m = n)
        <4>1. Active(d, m) /\ AdapterOf[d] # b /\ d # e
          BY <3>2, <2>1
        <4> QED
          BY <4>1, <3>2, <1>2, <1>t, <2>2, <2>3, <2>c
      <3> QED
        BY <3>1, <3>2
    <2>5. \A a \in Adapters : Q(a)'
      <3> SUFFICES ASSUME NEW a \in Adapters, slot'[a].active # NoAttempt
                   PROVE  /\ attempt'[slot'[a].active[1]][slot'[a].active[2]].status \in ActiveAttempt
                          /\ AdapterOf[slot'[a].active[1]] = a
        BY DEF Active
      <3>1. CASE a = b
        BY <3>1, <2>3, <2>a DEF ActiveAttempt
      <3>2. CASE a # b
        <4> DEFINE d == slot[a].active[1]
                   m == slot[a].active[2]
        <4>1. slot'[a] = slot[a] /\ d \in Execs /\ m \in Attempts
          BY <3>2, <1>t, <2>3
        <4>2. Active(d, m) /\ AdapterOf[d] = a
          BY <4>1, <1>2
        <4>3. d # e
          BY <3>2, <4>2
        <4> QED
          BY <4>1, <4>2, <4>3, <2>c DEF Active
      <3> QED
        BY <3>1, <3>2
    <2>6. \A d \in Execs : R(d)'
      BY <1>2, <2>1, <2>2 DEF HasActiveAttempt
    <2> QED
      BY <1>1, <2>4, <2>5, <2>6
  <1>6. ASSUME NEW e \in Execs, NEW n \in Attempts, NEW r \in Results, Ending(e, n, r)
        PROVE  SerialSlot'
    <2> DEFINE b == AdapterOf[e]
    <2>1. /\ \A d \in Execs, m \in Attempts : Active(d, m)' <=> Active(d, m) /\ ~ (d = e /\ m = n)
          /\ \A d \in Execs, m \in Attempts : ~ (d = e /\ m = n) => attempt'[d][m] = attempt[d][m]
          /\ \A d \in Execs \ {e} : execution'[d] = execution[d]
          /\ execution'[e].status # "running"
      <3>1. /\ \A d \in Execs \ {e} : execution'[d] = execution[d]
            /\ execution'[e].status # "running"
        BY <1>6, EndingExecution
      <3> QED
        BY <1>6, <3>1, EndingAttempt, Zenon
    <2>2. /\ slot'[b].active = NoAttempt
          /\ \A a \in Adapters : slot'[a].fence = slot[a].fence
          /\ \A a \in Adapters \ {b} : slot'[a] = slot[a]
      <3>1. slot' = [slot EXCEPT ![b].active = NoAttempt]
        BY <1>6, EndingAttempt
      <3>2. slot \in [Adapters -> Slot] /\ b \in Adapters
        BY <1>t
      <3> HIDE DEF b
      <3> QED
        BY <3>1, <3>2 DEF Slot
    <2>3. slot[b].active = <<e, n>>
      BY <1>6, EndingAttempt
    <2>4. \A d \in Execs, m \in Attempts : Active(d, m)' => Active(d, m) /\ d # e /\ AdapterOf[d] # b
      BY <1>2, <2>1, <2>3
    <2>5. \A d \in Execs, m \in Attempts : P(d, m)'
      BY <1>2, <1>t, <2>1, <2>2, <2>4
    <2>6. \A a \in Adapters : Q(a)'
      <3> SUFFICES ASSUME NEW a \in Adapters, slot'[a].active # NoAttempt
                   PROVE  /\ attempt'[slot'[a].active[1]][slot'[a].active[2]].status \in ActiveAttempt
                          /\ AdapterOf[slot'[a].active[1]] = a
        BY DEF Active
      <3>1. a # b /\ slot'[a] = slot[a]
        BY <2>2
      <3> QED
        <4> DEFINE d == slot[a].active[1]
                   m == slot[a].active[2]
        <4>1. d \in Execs /\ m \in Attempts
          BY <3>1, <1>t
        <4>2. Active(d, m) /\ AdapterOf[d] = a
          BY <3>1, <1>2
        <4>3. d # e
          BY <3>1, <4>2
        <4> QED
          BY <3>1, <4>1, <4>2, <4>3, <2>1 DEF Active
    <2>7. \A d \in Execs : R(d)'
      BY <1>2, <2>1 DEF HasActiveAttempt
    <2> QED
      BY <1>1, <2>5, <2>6, <2>7
  <1> QED
    BY Shapes, <1>3, <1>4, <1>5, <1>6

\* A requested cancellation leaves only "cancelled", and a waiting Execution has
\* an attempt left.
LEMMA StatusNext ==
    ASSUME IInv, [Next]_vars
    PROVE  CancelHonoured' /\ AttemptsLeft'
  <1>1. /\ \A e \in Execs : execution[e].cancel_requested =>
              execution[e].status \in {"running", "cancelled"}
        /\ \A e \in Execs : execution[e].status \in Waiting =>
              execution[e].attempt_count < MaxAttempts
        /\ \A e \in Execs : execution[e].status = "absent" => execution[e].attempt_count = 0
    BY DEF IInv, CancelHonoured, AttemptsLeft
  <1>2. CASE Quiet
    BY <1>1, <1>2 DEF Quiet, CancelHonoured, AttemptsLeft
  <1>3. ASSUME NEW e \in Execs, AcceptExecution(e) PROVE CancelHonoured' /\ AttemptsLeft'
    <2>1. /\ \A d \in Execs \ {e} : execution'[d] = execution[d]
          /\ execution'[e].attempt_count = execution[e].attempt_count
          /\ execution[e].status = "absent"
          /\ execution'[e].status = "queued"
          /\ execution'[e].cancel_requested = execution[e].cancel_requested
      BY <1>3, WaitingEffect
    <2>2. execution'[e].attempt_count < MaxAttempts
      BY <1>1, <2>1, ConstantsAssumption
    <2> QED
      BY <1>1, <2>1, <2>2 DEF CancelHonoured, AttemptsLeft
  <1>4. ASSUME NEW e \in Execs, RetryDispatch(e) PROVE CancelHonoured' /\ AttemptsLeft'
    <2>1. /\ \A d \in Execs \ {e} : execution'[d] = execution[d]
          /\ execution'[e].attempt_count = execution[e].attempt_count
          /\ execution[e].status = "retry_wait"
          /\ execution'[e].status = "queued"
          /\ execution'[e].cancel_requested = execution[e].cancel_requested
      BY <1>4, WaitingEffect
    <2> QED
      BY <1>1, <2>1 DEF CancelHonoured, AttemptsLeft, Waiting
  <1>5. ASSUME NEW e \in Execs, CancelWaiting(e) \/ CancelRunning(e)
        PROVE  CancelHonoured' /\ AttemptsLeft'
    <2>1. /\ \A d \in Execs \ {e} : execution'[d] = execution[d]
          /\ execution'[e].status \in {"running", "cancelled"}
      BY <1>5, WaitingEffect
    <2> QED
      BY <1>1, <2>1 DEF CancelHonoured, AttemptsLeft, Waiting
  <1>6. ASSUME NEW e \in Execs, NEW n \in Attempts, Claiming(e, n)
        PROVE  CancelHonoured' /\ AttemptsLeft'
    <2>1. /\ \A d \in Execs \ {e} : execution'[d] = execution[d]
          /\ execution'[e].status = "running"
      BY <1>6, ClaimingEffect
    <2> QED
      BY <1>1, <2>1 DEF CancelHonoured, AttemptsLeft, Waiting
  <1>7. ASSUME NEW e \in Execs, NEW n \in Attempts, NEW r \in Results, Ending(e, n, r)
        PROVE  CancelHonoured' /\ AttemptsLeft'
    <2>1. /\ \A d \in Execs \ {e} : execution'[d] = execution[d]
          /\ execution'[e].status = StatusAfter(e, n, r)
          /\ execution'[e].attempt_count = n
          /\ execution'[e].cancel_requested = execution[e].cancel_requested
      BY <1>7, EndingExecution
    <2>2. /\ execution[e].cancel_requested => StatusAfter(e, n, r) = "cancelled"
          /\ StatusAfter(e, n, r) \in Waiting => n < MaxAttempts
          /\ StatusAfter(e, n, r) # "absent"
      BY DEF StatusAfter, Waiting
    <2> QED
      BY <1>1, <2>1, <2>2 DEF CancelHonoured, AttemptsLeft
  <1> QED
    BY Shapes, <1>2, <1>3, <1>4, <1>5, <1>6, <1>7

-----------------------------------------------------------------------------
(* The capacity counters.                                                    *)

AllOutstanding == {e \in Execs : execution[e].status \in Outstanding}

\* The sets AdmissionExact counts are finite.
LEMMA OutstandingFinite ==
    /\ IsFiniteSet(AllOutstanding)
    /\ \A a \in Adapters : IsFiniteSet(OutstandingOf(a))
  <1>1. AllOutstanding \in SUBSET Execs /\ \A a \in Adapters : OutstandingOf(a) \in SUBSET Execs
    BY DEF AllOutstanding, OutstandingOf
  <1> QED
    BY <1>1, FS_Subset, ConstantsAssumption

\* A step that keeps every Execution on its side of the line keeps the counters.
LEMMA AdmissionKept ==
    ASSUME IInv, UNCHANGED <<admission, outstanding>>,
           \A e \in Execs :
              /\ execution'[e].status \in Outstanding <=> execution[e].status \in Outstanding
              /\ execution'[e].status \in Terminal <=> execution[e].status \in Terminal
              /\ execution'[e].released = execution[e].released
    PROVE  AdmissionExact'
  <1>1. AllOutstanding' = AllOutstanding /\ \A a \in Adapters : OutstandingOf(a)' = OutstandingOf(a)
    BY DEF AllOutstanding, OutstandingOf
  <1> QED
    BY <1>1 DEF IInv, AdmissionExact, AllOutstanding

\* An Execution that ends gives its charge back exactly once.
LEMMA AdmissionReleased ==
    ASSUME IInv, NEW e \in Execs, ReleaseAdmissionOnce(e),
           \A d \in Execs \ {e} : execution'[d] = execution[d],
           execution[e].status \in Outstanding,
           execution'[e].status \in Terminal,
           execution'[e].released
    PROVE  AdmissionExact'
  <1> DEFINE b == AdapterOf[e]
  <1>1. Terminal \cap Outstanding = {}
    BY DEF Terminal, Outstanding
  <1>2. ~ execution[e].released
    BY <1>1 DEF IInv, AdmissionExact
  <1>3. b \in Adapters /\ admission \in [Adapters -> Int] /\ outstanding \in Int
    BY RowTypes DEF IInv, TypeOK
  <1>4. /\ admission'[b] = admission[b] - 1
        /\ \A a \in Adapters \ {b} : admission'[a] = admission[a]
        /\ outstanding' = outstanding - 1
    BY <1>2, <1>3 DEF ReleaseAdmissionOnce
  <1>5. /\ AllOutstanding' = AllOutstanding \ {e} /\ e \in AllOutstanding
        /\ OutstandingOf(b)' = OutstandingOf(b) \ {e} /\ e \in OutstandingOf(b)
        /\ \A a \in Adapters \ {b} : OutstandingOf(a)' = OutstandingOf(a)
    BY <1>1 DEF AllOutstanding, OutstandingOf
  <1>6. /\ Cardinality(AllOutstanding') = Cardinality(AllOutstanding) - 1
        /\ Cardinality(OutstandingOf(b)') = Cardinality(OutstandingOf(b)) - 1
    BY <1>3, <1>5, OutstandingFinite, FS_RemoveElement, Zenon
  <1>7. /\ \A a \in Adapters : admission[a] = Cardinality(OutstandingOf(a)) /\ admission[a] <= AdapterCap
        /\ outstanding = Cardinality(AllOutstanding) /\ outstanding <= GlobalCap
        /\ \A d \in Execs : execution[d].released <=> execution[d].status \in Terminal
    BY DEF IInv, AdmissionExact, AllOutstanding
  <1>8. \A a \in Adapters : admission'[a] = Cardinality(OutstandingOf(a)') /\ admission'[a] <= AdapterCap
    <2> SUFFICES ASSUME NEW a \in Adapters
                 PROVE  admission'[a] = Cardinality(OutstandingOf(a)') /\ admission'[a] <= AdapterCap
      OBVIOUS
    <2>1. CASE a = b
      BY <2>1, <1>3, <1>4, <1>6, <1>7, ConstantsAssumption
    <2>2. CASE a # b
      BY <2>2, <1>4, <1>5, <1>7
    <2> QED
      BY <2>1, <2>2
  <1>9. outstanding' = Cardinality(AllOutstanding') /\ outstanding' <= GlobalCap
    BY <1>3, <1>4, <1>6, <1>7, ConstantsAssumption
  <1>10. \A d \in Execs : execution'[d].released <=> execution'[d].status \in Terminal
    BY <1>7
  <1> QED
    BY <1>8, <1>9, <1>10 DEF AdmissionExact, AllOutstanding

\* An accepted Execution is charged, and only below both caps.
LEMMA AdmissionAccepted ==
    ASSUME IInv, NEW e \in Execs, AcceptExecution(e)
    PROVE  AdmissionExact'
  <1> DEFINE b == AdapterOf[e]
  <1>1. /\ \A d \in Execs \ {e} : execution'[d] = execution[d]
        /\ execution[e].status = "absent"
        /\ execution'[e].status = "queued"
        /\ execution'[e].released = execution[e].released
    BY WaitingEffect
  <1>2. b \in Adapters /\ admission \in [Adapters -> Int] /\ outstanding \in Int
    BY RowTypes DEF IInv, TypeOK
  <1>3. /\ admission'[b] = admission[b] + 1
        /\ \A a \in Adapters \ {b} : admission'[a] = admission[a]
        /\ outstanding' = outstanding + 1
        /\ admission[b] + 1 <= AdapterCap
        /\ outstanding + 1 <= GlobalCap
    BY <1>2 DEF AcceptExecution, ReserveAdmission
  <1>4. /\ AllOutstanding' = AllOutstanding \cup {e} /\ e \notin AllOutstanding
        /\ OutstandingOf(b)' = OutstandingOf(b) \cup {e} /\ e \notin OutstandingOf(b)
        /\ \A a \in Adapters \ {b} : OutstandingOf(a)' = OutstandingOf(a)
    BY <1>1 DEF AllOutstanding, OutstandingOf, Outstanding
  <1>5. /\ Cardinality(AllOutstanding') = Cardinality(AllOutstanding) + 1
        /\ Cardinality(OutstandingOf(b)') = Cardinality(OutstandingOf(b)) + 1
    BY <1>2, <1>4, OutstandingFinite, FS_AddElement, Zenon
  <1>6. /\ \A a \in Adapters : admission[a] = Cardinality(OutstandingOf(a)) /\ admission[a] <= AdapterCap
        /\ outstanding = Cardinality(AllOutstanding)
        /\ \A d \in Execs : execution[d].released <=> execution[d].status \in Terminal
    BY DEF IInv, AdmissionExact, AllOutstanding
  <1>7. \A a \in Adapters : admission'[a] = Cardinality(OutstandingOf(a)') /\ admission'[a] <= AdapterCap
    BY <1>2, <1>3, <1>4, <1>5, <1>6, ConstantsAssumption
  <1>8. outstanding' = Cardinality(AllOutstanding') /\ outstanding' <= GlobalCap
    BY <1>2, <1>3, <1>5, <1>6, ConstantsAssumption
  <1>9. \A d \in Execs : execution'[d].released <=> execution'[d].status \in Terminal
    BY <1>1, <1>6 DEF Terminal
  <1> QED
    BY <1>7, <1>8, <1>9 DEF AdmissionExact, AllOutstanding

\* Every transaction keeps the Admission counters exact.
LEMMA AdmissionNext ==
    ASSUME IInv, [Next]_vars
    PROVE  AdmissionExact'
  <1>1. CASE Quiet
    BY <1>1, AdmissionKept DEF Quiet
  <1>2. ASSUME NEW e \in Execs, RetryDispatch(e) \/ CancelRunning(e) PROVE AdmissionExact'
    <2>1. /\ \A d \in Execs \ {e} : execution'[d] = execution[d]
          /\ execution[e].status \in Outstanding
          /\ execution'[e].status \in Outstanding
          /\ execution'[e].released = execution[e].released
          /\ UNCHANGED <<admission, outstanding>>
      BY <1>2, WaitingEffect DEF Outstanding
    <2>2. Terminal \cap Outstanding = {}
      BY DEF Terminal, Outstanding
    <2> QED
      BY <2>1, <2>2, AdmissionKept
  <1>3. ASSUME NEW e \in Execs, CancelWaiting(e) PROVE AdmissionExact'
    <2>1. /\ \A d \in Execs \ {e} : execution'[d] = execution[d]
          /\ execution[e].status \in Outstanding
          /\ execution'[e].status \in Terminal
          /\ execution'[e].released
      BY <1>3, WaitingEffect DEF Outstanding, Waiting, Terminal
    <2> QED
      BY <1>3, <2>1, AdmissionReleased DEF CancelWaiting
  <1>4. ASSUME NEW e \in Execs, NEW n \in Attempts, Claiming(e, n) PROVE AdmissionExact'
    <2>1. /\ \A d \in Execs \ {e} : execution'[d] = execution[d]
          /\ execution[e].status \in Outstanding
          /\ execution'[e].status \in Outstanding
          /\ execution'[e].released = execution[e].released
          /\ UNCHANGED <<admission, outstanding>>
      BY <1>4, ClaimingEffect DEF Outstanding
    <2>2. Terminal \cap Outstanding = {}
      BY DEF Terminal, Outstanding
    <2> QED
      BY <2>1, <2>2, AdmissionKept
  <1>5. ASSUME NEW e \in Execs, NEW n \in Attempts, NEW r \in Results, Ending(e, n, r)
        PROVE  AdmissionExact'
    <2>1. /\ \A d \in Execs \ {e} : execution'[d] = execution[d]
          /\ execution[e].status = "running"
          /\ execution'[e].status = StatusAfter(e, n, r)
          /\ StatusAfter(e, n, r) \in Terminal \cup {"retry_wait"}
      BY <1>5, EndingExecution
    <2>2. "running" \in Outstanding /\ "retry_wait" \in Outstanding /\ Terminal \cap Outstanding = {}
      BY DEF Terminal, Outstanding
    <2>3. execution \in [Execs -> Execution] /\ execution[e] \in Execution
      BY RowTypes DEF IInv, TypeOK
    <2>4. CASE StatusAfter(e, n, r) \in Terminal
      <3>1. Finalize(e, StatusAfter(e, n, r))
        BY <1>5, <2>4 DEF Ending, ApplyTerminal
      <3>2. execution'[e].released /\ ReleaseAdmissionOnce(e)
        BY <3>1, <2>3 DEF Finalize, Execution
      <3> QED
        BY <2>1, <2>2, <2>4, <3>2, AdmissionReleased
    <2>5. CASE StatusAfter(e, n, r) = "retry_wait"
      <3>1. /\ execution' = [execution EXCEPT ![e].status = "retry_wait"]
            /\ UNCHANGED <<admission, outstanding>>
        BY <1>5, <2>5 DEF Ending, ApplyTerminal, Terminal
      <3>2. execution'[e].released = execution[e].released
        BY <2>3, <3>1 DEF Execution
      <3> QED
        BY <2>1, <2>2, <2>5, <3>1, <3>2, AdmissionKept
    <2> QED
      BY <2>1, <2>4, <2>5
  <1> QED
    BY Shapes, AdmissionAccepted, <1>1, <1>2, <1>3, <1>4, <1>5

-----------------------------------------------------------------------------
(* The theorems.                                                             *)

\* The empty database satisfies the inductive invariant.
LEMMA IInvInit == Init => IInv
  <1> SUFFICES ASSUME Init PROVE IInv
    OBVIOUS
  <1>1. TypeOK
    BY TypeInit
  <1>2. /\ \A e \in Execs : /\ execution[e].status = "absent"
                            /\ execution[e].attempt_count = 0
                            /\ ~ execution[e].cancel_requested
                            /\ ~ execution[e].released
        /\ \A e \in Execs, n \in Attempts : attempt[e][n].status = "absent"
        /\ \A a \in Adapters : slot[a].active = NoAttempt /\ admission[a] = 0
        /\ outstanding = 0
    BY DEF Init
  <1>3. SerialSlot
    BY <1>2 DEF SerialSlot, Active, ActiveAttempt
  <1>4. CancelHonoured /\ AttemptsLeft
    BY <1>2 DEF CancelHonoured, AttemptsLeft, Waiting
  <1>5. AdmissionExact
    <2>1. AllOutstanding = {} /\ \A a \in Adapters : OutstandingOf(a) = {}
      BY <1>2 DEF AllOutstanding, OutstandingOf, Outstanding
    <2>2. \A e \in Execs : execution[e].released <=> execution[e].status \in Terminal
      BY <1>2 DEF Terminal
    <2>3. Cardinality({}) = 0
      BY FS_EmptySet
    <2>a. 0 <= AdapterCap /\ 0 <= GlobalCap
      BY ConstantsAssumption
    <2>4. \A a \in Adapters : admission[a] = Cardinality(OutstandingOf(a)) /\ admission[a] <= AdapterCap
      BY <1>2, <2>1, <2>3, <2>a
    <2>5. outstanding = Cardinality(AllOutstanding) /\ outstanding <= GlobalCap
      BY <1>2, <2>1, <2>3, <2>a
    <2> QED
      BY <2>2, <2>4, <2>5 DEF AdmissionExact, AllOutstanding
  <1> QED
    BY <1>1, <1>3, <1>4, <1>5 DEF IInv

\* The inductive invariant is inductive.
LEMMA IInvNext == IInv /\ [Next]_vars => IInv'
  BY TypeNext, SerialNext, StatusNext, AdmissionNext DEF IInv

\* It holds in every reachable state.
LEMMA Invariance == Spec => []IInv
  BY IInvInit, IInvNext, PTL DEF Spec

\* Serial execution and fencing: in every reachable state an Adapter has at most
\* one active Attempt, named by its Slot under the newest fence.
THEOREM SerialExecution == Spec => []SerialSlot
  <1>1. IInv => SerialSlot
    BY DEF IInv
  <1> QED
    BY <1>1, Invariance, PTL

\* The capacity counters of admission are exact and below their caps.
THEOREM AdmissionCorrect == Spec => []AdmissionExact
  <1>1. IInv => AdmissionExact
    BY DEF IInv
  <1> QED
    BY <1>1, Invariance, PTL

\* A requested cancellation is never lost.
THEOREM CancellationCorrect == Spec => []CancelHonoured
  <1>1. IInv => CancelHonoured
    BY DEF IInv
  <1> QED
    BY <1>1, Invariance, PTL

-----------------------------------------------------------------------------
(* Fencing tokens.                                                           *)

\* A Claim issues a fence above all others of its Adapter; nothing else touches
\* fences.
LEMMA FencesNext ==
    ASSUME IInv, FencesUnique, [Next]_vars
    PROVE  FencesUnique'
  <1> DEFINE Made(e, n) == attempt[e][n].status # "absent"
             Older(e, n) == attempt[e][n].fence <= slot[AdapterOf[e]].fence
  <1>1. \A e, d \in Execs : \A n, m \in Attempts :
           AdapterOf[e] = AdapterOf[d] /\ Made(e, n) /\ Made(d, m) =>
              Older(e, n) /\ (attempt[e][n].fence = attempt[d][m].fence => e = d /\ n = m)
    BY DEF FencesUnique
  <1>2. ASSUME \A e \in Execs, n \in Attempts :
                  /\ Made(e, n)' => Made(e, n)
                  /\ attempt'[e][n].fence = attempt[e][n].fence,
               \A a \in Adapters : slot'[a].fence = slot[a].fence
        PROVE  FencesUnique'
    <2>1. \A e \in Execs : AdapterOf[e] \in Adapters
      BY ConstantsAssumption
    <2> QED
      BY <1>1, <1>2, <2>1 DEF FencesUnique
  <1>3. CASE Quiet
    BY <1>2, <1>3 DEF Quiet
  <1>4. ASSUME NEW e \in Execs,
               AcceptExecution(e) \/ RetryDispatch(e) \/ CancelWaiting(e) \/ CancelRunning(e)
        PROVE  FencesUnique'
    <2>1. UNCHANGED <<attempt, slot>>
      BY <1>4, WaitingEffect
    <2> QED
      BY <1>2, <2>1
  <1>5. ASSUME NEW e \in Execs, NEW n \in Attempts, NEW r \in Results, Ending(e, n, r)
        PROVE  FencesUnique'
    <2>1. /\ \A d \in Execs, m \in Attempts : ~ (d = e /\ m = n) => attempt'[d][m] = attempt[d][m]
          /\ attempt'[e][n].fence = attempt[e][n].fence
          /\ slot' = [slot EXCEPT ![AdapterOf[e]].active = NoAttempt]
      BY <1>5, EndingAttempt
    <2>2. Made(e, n)
      BY <1>5 DEF Ending, Active, ActiveAttempt
    <2>3. \A a \in Adapters : slot'[a].fence = slot[a].fence
      BY <2>1, RowTypes DEF IInv, TypeOK, Slot
    <2> QED
      BY <1>2, <2>1, <2>2, <2>3
  <1>6. ASSUME NEW e \in Execs, NEW n \in Attempts, Claiming(e, n)
        PROVE  FencesUnique'
    <2> DEFINE b == AdapterOf[e]
    <2>1. /\ \A d \in Execs, m \in Attempts :
                attempt'[d][m] = IF d = e /\ m = n
                                 THEN [status |-> "claimed", fence |-> NextFence(b),
                                       lease |-> LeaseTicks]
                                 ELSE attempt[d][m]
          /\ slot' = [slot EXCEPT ![b] = [active |-> <<e, n>>, fence |-> NextFence(b)]]
      BY <1>6, ClaimingEffect
    <2>2. /\ \A d \in Execs, m \in Attempts : ~ (d = e /\ m = n) => attempt'[d][m] = attempt[d][m]
          /\ attempt'[e][n].fence = NextFence(b)
      BY <2>1
    <2>3. /\ slot'[b].fence = NextFence(b)
          /\ \A a \in Adapters \ {b} : slot'[a] = slot[a]
      <3>1. slot \in [Adapters -> Slot] /\ b \in Adapters
        BY RowTypes DEF IInv, TypeOK
      <3> QED
        BY <2>1, <3>1
    <2>4. /\ slot[b].fence \in Nat
          /\ NextFence(b) = slot[b].fence + 1
          /\ \A d \in Execs, m \in Attempts : attempt[d][m].fence \in Nat
          /\ \A d \in Execs : AdapterOf[d] \in Adapters
      BY RowTypes DEF IInv, Slot, Attempt, NextFence
    <2>5. ASSUME NEW d \in Execs, NEW m \in Attempts, AdapterOf[d] = b, Made(d, m),
                 ~ (d = e /\ m = n)
          PROVE  attempt[d][m].fence < NextFence(b)
      <3>1. Older(d, m)
        BY <1>1, <2>5
      <3> QED
        BY <2>4, <2>5, <3>1
    <2> SUFFICES ASSUME NEW c \in Execs, NEW d \in Execs, NEW k \in Attempts, NEW m \in Attempts,
                        AdapterOf[c] = AdapterOf[d],
                        attempt'[c][k].status # "absent", attempt'[d][m].status # "absent"
                 PROVE  /\ attempt'[c][k].fence <= slot'[AdapterOf[c]].fence
                        /\ attempt'[c][k].fence = attempt'[d][m].fence => c = d /\ k = m
      BY DEF FencesUnique
    <2>6. CASE AdapterOf[c] # b
      <3>1. c # e /\ d # e
        BY <2>6
      <3> QED
        BY <1>1, <2>2, <2>3, <2>4, <2>6, <3>1
    <2>7. CASE AdapterOf[c] = b
      <3>1. CASE c = e /\ k = n
        <4>1. attempt'[c][k].fence = NextFence(b)
          BY <2>2, <3>1
        <4>2. CASE d = e /\ m = n
          BY <2>3, <2>4, <2>7, <3>1, <4>1, <4>2
        <4>3. CASE ~ (d = e /\ m = n)
          <5>1. attempt'[d][m] = attempt[d][m] /\ attempt[d][m].fence < NextFence(b)
            BY <2>2, <2>5, <2>7, <4>3
          <5> QED
            BY <2>3, <2>4, <2>7, <4>1, <5>1
        <4> QED
          BY <4>2, <4>3
      <3>2. CASE ~ (c = e /\ k = n)
        <4>1. attempt'[c][k] = attempt[c][k] /\ attempt[c][k].fence < NextFence(b)
          BY <2>2, <2>5, <2>7, <3>2
        <4>2. attempt'[c][k].fence <= slot'[AdapterOf[c]].fence
          BY <2>3, <2>4, <2>7, <4>1
        <4>3. CASE d = e /\ m = n
          BY <2>2, <2>4, <4>1, <4>2, <4>3
        <4>4. CASE ~ (d = e /\ m = n)
          BY <1>1, <2>2, <4>1, <4>2, <4>4
        <4> QED
          BY <4>3, <4>4
      <3> QED
        BY <3>1, <3>2
    <2> QED
      BY <2>6, <2>7
  <1> QED
    BY Shapes, <1>3, <1>4, <1>5, <1>6

\* No two Attempts of an Adapter ever carry the same fencing token, so a stale
\* owner cannot be taken for the current one.
THEOREM FencingCorrect == Spec => []FencesUnique
  <1>1. Init => FencesUnique
    BY DEF Init, FencesUnique
  <1>2. IInv /\ FencesUnique /\ [Next]_vars => FencesUnique'
    BY FencesNext
  <1> QED
    BY <1>1, <1>2, Invariance, PTL DEF Spec

-----------------------------------------------------------------------------
(* Terminal Executions.                                                      *)

\* A transaction that leaves a terminal Execution and its Attempts alone.
Untouched(e) == execution'[e] = execution[e] /\ attempt'[e] = attempt[e]

\* Writing the rows of another Execution touches nothing of this one.
LEMMA OthersUntouched ==
    ASSUME TypeOK, NEW d \in Execs, NEW e \in Execs \ {d}, NEW x, NEW y,
           execution' = execution \/ execution' = [execution EXCEPT ![d] = x],
           attempt' = attempt \/ attempt' = [attempt EXCEPT ![d] = y]
    PROVE  Untouched(e)
  BY DEF TypeOK, Untouched

\* No transaction touches a terminal Execution: every handler that writes an
\* Execution or an Attempt has looked at the status, or acts for an active
\* Attempt, whose Execution is running.
LEMMA TerminalUntouched ==
    ASSUME IInv, [Next]_vars, NEW e \in Execs, execution[e].status \in Terminal
    PROVE  Untouched(e)
  <1>a. TypeOK /\ SerialSlot
    BY DEF IInv
  <1>b. execution[e].status \notin {"absent", "running"} \cup Waiting
    BY DEF Terminal, Waiting
  <1>c. \A n \in Attempts : ~ Active(e, n)
    BY <1>a, <1>b DEF SerialSlot
  <1>1. ASSUME UNCHANGED <<execution, attempt>> PROVE Untouched(e)
    BY <1>1 DEF Untouched
  <1>2. ASSUME NEW d \in Execs, AcceptExecution(d) \/ RetryDispatch(d) PROVE Untouched(e)
    <2>1. d # e
      BY <1>2, <1>b DEF AcceptExecution, RetryDispatch, Waiting
    <2>2. PICK x : execution' = [execution EXCEPT ![d] = x] /\ attempt' = attempt
      BY <1>2 DEF AcceptExecution, RetryDispatch
    <2> QED
      BY <1>a, <2>1, <2>2, OthersUntouched
  <1>3. ASSUME NEW d \in Execs, NEW g \in Gens, ClaimDispatch(d, g) PROVE Untouched(e)
    <2>1. d # e
      BY <1>3, <1>b DEF ClaimDispatch, Waiting
    <2>2. \/ UNCHANGED <<execution, attempt>>
          \/ \E x : execution' = [execution EXCEPT ![d] = x] /\ attempt' = attempt
          \/ \E n, x, v : /\ execution' = [execution EXCEPT ![d] = x]
                          /\ attempt' = [attempt EXCEPT ![d][n] = v]
      <3>1. ASSUME NEW s, Finalize(d, s), attempt' = attempt
            PROVE  \E x : execution' = [execution EXCEPT ![d] = x] /\ attempt' = attempt
        BY <3>1 DEF Finalize
      <3>2. ASSUME NEW n, ClaimAttempt(d, n)
            PROVE  \E x, v : /\ execution' = [execution EXCEPT ![d] = x]
                             /\ attempt' = [attempt EXCEPT ![d][n] = v]
        BY <3>2 DEF ClaimAttempt
      <3> QED
        BY <1>3, <3>1, <3>2 DEF ClaimDispatch
    <2>3. CASE UNCHANGED <<execution, attempt>>
      BY <1>1, <2>3
    <2>4. CASE \E x : execution' = [execution EXCEPT ![d] = x] /\ attempt' = attempt
      BY <1>a, <2>1, <2>4, OthersUntouched
    <2>5. CASE \E n, x, v : /\ execution' = [execution EXCEPT ![d] = x]
                            /\ attempt' = [attempt EXCEPT ![d][n] = v]
      <3>1. PICK n, x, v : /\ execution' = [execution EXCEPT ![d] = x]
                           /\ attempt' = [attempt EXCEPT ![d] = [attempt[d] EXCEPT ![n] = v]]
        BY <2>5
      <3> QED
        BY <1>a, <2>1, <3>1, OthersUntouched
    <2> QED
      BY <2>2, <2>3, <2>4, <2>5
  <1>4. ASSUME NEW d \in Execs, NEW n \in Attempts, NEW r \in Results, Ending(d, n, r)
        PROVE  Untouched(e)
    <2>1. d # e
      BY <1>4, <1>c DEF Ending
    <2>2. PICK x : execution' = [execution EXCEPT ![d] = x]
      BY <1>4 DEF Ending, ApplyTerminal, Finalize
    <2>3. attempt' = [attempt EXCEPT ![d] =
                         [attempt[d] EXCEPT ![n] = [attempt[d][n] EXCEPT !.status = r]]]
      BY <1>4 DEF Ending, ApplyTerminal
    <2> QED
      BY <1>a, <2>1, <2>2, <2>3, OthersUntouched
  <1>5. ASSUME NEW d \in Execs, NEW n \in Attempts,
               \/ RenewAttempt(d, n)
               \/ AttemptLeaseTick(d, n)
               \/ StartAttempt(d, n) /\ ~ execution[d].cancel_requested
        PROVE  Untouched(e)
    <2>1. d # e
      BY <1>5, <1>c DEF RenewAttempt, AttemptLeaseTick, StartAttempt, MayReport
    <2>2. PICK v : /\ execution' = execution
                   /\ attempt' = [attempt EXCEPT ![d] = [attempt[d] EXCEPT ![n] = v]]
      BY <1>5 DEF RenewAttempt, AttemptLeaseTick, StartAttempt
    <2> QED
      BY <1>a, <2>1, <2>2, OthersUntouched
  <1>6. ASSUME NEW d \in Execs, NEW n \in Attempts,
               \/ StartAttempt(d, n) /\ execution[d].cancel_requested
               \/ RecoverExpiredAttempt(d, n)
               \/ \E r \in Results : FinishAttempt(d, n, r) \/ PrepareFailed(d, n, r)
        PROVE  \E r \in Results : Ending(d, n, r)
    BY <1>6 DEF StartAttempt, RecoverExpiredAttempt, FinishAttempt, PrepareFailed, MayReport,
                Ending, Results, Reports
  <1>7. ASSUME NEW d \in Execs, NEW inc, CancelLocked(d, inc), UNCHANGED attempt
        PROVE  Untouched(e)
    <2>1. d # e
      BY <1>7, <1>b DEF CancelLocked
    <2>2. PICK x : execution' = [execution EXCEPT ![d] = x]
      BY <1>7 DEF CancelLocked
    <2> QED
      BY <1>a, <1>7, <2>1, <2>2, OthersUntouched
  <1>8. ASSUME NEW d \in Execs, NEW i \in Gens \X Kinds, RecoverPublishedDispatch(d, i)
        PROVE  Untouched(e)
    <2>1. d # e
      BY <1>8, <1>b DEF RecoverPublishedDispatch, MayRecover, Waiting
    <2>2. PICK x : execution' = [execution EXCEPT ![d] = x] /\ attempt' = attempt
      BY <1>8 DEF RecoverPublishedDispatch
    <2> QED
      BY <1>a, <2>1, <2>2, OthersUntouched
  <1>9. ASSUME NEW d \in Execs, CancelExecution(d) PROVE Untouched(e)
    BY <1>7, <1>9 DEF CancelExecution
  <1>10. ASSUME NEW d \in Execs, NEW i \in Gens \X Kinds, TerminateIncident(d, i)
         PROVE  Untouched(e)
    BY <1>7, <1>10 DEF TerminateIncident
  <1>11. ASSUME NEW d \in Execs, NEW g \in Gens,
                \/ SettleCancelledOutbox(d)
                \/ OutboxLeaseExpire(d, g)
                \/ \E r \in Relays : ReleaseOutboxLease(r, d, g) \/ MarkOutboxPublished(r, d, g)
                \/ \E k \in Kinds : ReconcileDeadLetter(d, g, k)
         PROVE  Untouched(e)
    BY <1>1, <1>11 DEF SettleCancelledOutbox, OutboxLeaseExpire, ReleaseOutboxLease,
                       MarkOutboxPublished, ReconcileDeadLetter
  <1>12. ASSUME NEW d \in Execs, NEW i \in Gens \X Kinds,
                CloseSettledIncident(d, i) \/ RecoverPendingDispatch(d, i)
         PROVE  Untouched(e)
    BY <1>1, <1>12 DEF CloseSettledIncident, RecoverPendingDispatch
  <1>13. ASSUME NEW r \in Relays, NEW batch \in SUBSET (Execs \X Gens), LeaseDueOutbox(r, batch)
         PROVE  Untouched(e)
    BY <1>1, <1>13 DEF LeaseDueOutbox
  <1>14. ASSUME NEW a \in Adapters, AcquireGcGuard(a) \/ FinishGuard(a) PROVE Untouched(e)
    BY <1>1, <1>14 DEF AcquireGcGuard, FinishGuard
  <1>15. ASSUME NEW d \in Execs, NEW n \in Attempts, AcquireReplacementGuard(d, n)
         PROVE  Untouched(e)
    BY <1>1, <1>15 DEF AcquireReplacementGuard
  <1>16. CASE UNCHANGED vars
    BY <1>1, <1>16 DEF vars
  <1>17. 1 \in Gens
    BY ConstantsAssumption DEF Gens
  <1> QED
    BY <1>2, <1>3, <1>4, <1>5, <1>6, <1>8, <1>9, <1>10, <1>11, <1>12, <1>13, <1>14, <1>15,
       <1>16, <1>17 DEF Next

\* Once an Execution is terminal, no later report, recovery, cancellation,
\* redelivery or disposition changes its row or its Attempts.
THEOREM TerminalIsFinal == Spec => TerminalFinal
  <1>1. IInv /\ [Next]_vars =>
           [\A e \in Execs : execution[e].status \in Terminal =>
               execution'[e] = execution[e] /\ attempt'[e] = attempt[e]]_vars
    BY TerminalUntouched DEF Untouched
  <1> QED
    BY <1>1, Invariance, PTL DEF Spec, TerminalFinal

-----------------------------------------------------------------------------
(* Cache guards.                                                             *)

\* While a guard is held no Execution of the Adapter is accepted and no Attempt
\* claimed; a guard is taken only when nothing else is in use.
LEMMA GuardNext ==
    ASSUME IInv, GuardExcludesUse, [Next]_vars
    PROVE  GuardExcludesUse'
  <1> DEFINE NoneNew(e) == execution'[e].status \in Outstanding => execution[e].status \in Outstanding
             NoneActive(e) == \A n \in Attempts : Active(e, n)' => Active(e, n)
  <1>a. TypeOK /\ SerialSlot
    BY DEF IInv
  <1>b. \A e \in Execs : AdapterOf[e] \in Adapters
    BY ConstantsAssumption
  <1>c. Attempts # {}
    BY ConstantsAssumption DEF Attempts
  <1>1. ASSUME guard' = guard,
               \A e \in Execs : guard[AdapterOf[e]].phase # "idle" => NoneNew(e) /\ NoneActive(e)
        PROVE  GuardExcludesUse'
    BY <1>1, <1>b DEF GuardExcludesUse
  <1>2. ASSUME NEW a \in Adapters, AcquireGcGuard(a) PROVE GuardExcludesUse'
    <2>1. /\ guard' = [guard EXCEPT ![a] = [phase |-> "gc", holder |-> NoAttempt]]
          /\ UNCHANGED <<execution, attempt>>
          /\ \A e \in Execs : AdapterOf[e] = a => execution[e].status \notin Outstanding
      BY <1>2 DEF AcquireGcGuard, Referencing
    <2>2. \A b \in Adapters : guard'[b] = IF b = a THEN [phase |-> "gc", holder |-> NoAttempt]
                                                   ELSE guard[b]
      BY <1>a, <2>1 DEF TypeOK
    <2> QED
      BY <1>b, <2>1, <2>2 DEF GuardExcludesUse, Active
  <1>3. ASSUME NEW a \in Adapters, FinishGuard(a) PROVE GuardExcludesUse'
    <2>1. guard' = [guard EXCEPT ![a] = IdleGuard] /\ UNCHANGED <<execution, attempt>>
      BY <1>3 DEF FinishGuard
    <2>2. \A b \in Adapters : guard'[b] = IF b = a THEN IdleGuard ELSE guard[b]
      BY <1>a, <2>1 DEF TypeOK
    <2> QED
      BY <1>b, <2>1, <2>2 DEF GuardExcludesUse, Active, IdleGuard
  <1>4. ASSUME NEW d \in Execs, NEW m \in Attempts, AcquireReplacementGuard(d, m)
        PROVE  GuardExcludesUse'
    <2> DEFINE a == AdapterOf[d]
    <2>1. /\ guard' = [guard EXCEPT ![a] = [phase |-> "replacement", holder |-> <<d, m>>]]
          /\ UNCHANGED <<execution, attempt>>
          /\ slot[a].active = <<d, m>>
      BY <1>4 DEF AcquireReplacementGuard
    <2>2. \A b \in Adapters : guard'[b] = IF b = a THEN [phase |-> "replacement", holder |-> <<d, m>>]
                                                   ELSE guard[b]
      BY <1>a, <1>b, <2>1 DEF TypeOK
    <2>3. \A e \in Execs, n \in Attempts : AdapterOf[e] = a /\ Active(e, n) => <<e, n>> = <<d, m>>
      BY <1>a, <2>1 DEF SerialSlot
    <2> SUFFICES ASSUME NEW e \in Execs, NEW n \in Attempts
                 PROVE  /\ guard'[AdapterOf[e]].phase = "gc" => execution[e].status \notin Outstanding
                        /\ guard'[AdapterOf[e]].phase = "replacement" /\ Active(e, n) =>
                              guard'[AdapterOf[e]].holder = <<e, n>>
      BY <2>1 DEF GuardExcludesUse, Active
    <2>4. CASE AdapterOf[e] = a
      BY <1>b, <2>2, <2>3, <2>4
    <2>5. CASE AdapterOf[e] # a
      BY <1>b, <2>2, <2>5 DEF GuardExcludesUse
    <2> QED
      BY <2>4, <2>5
  <1>5. CASE Quiet /\ guard' = guard
    BY <1>1, <1>5 DEF Quiet, Active
  <1>6. ASSUME NEW e \in Execs,
               AcceptExecution(e) \/ RetryDispatch(e) \/ CancelWaiting(e) \/ CancelRunning(e),
               guard' = guard
        PROVE  GuardExcludesUse'
    <2>1. /\ UNCHANGED attempt
          /\ \A d \in Execs \ {e} : execution'[d] = execution[d]
      BY <1>6, WaitingEffect
    <2>2. execution[e].status \in Outstanding \/ ~ Guarded(e)
      BY <1>6 DEF AcceptExecution, RetryDispatch, CancelWaiting, CancelRunning, Waiting, Outstanding
    <2> QED
      BY <1>1, <1>6, <2>1, <2>2 DEF Active, Guarded
  <1>7. ASSUME NEW e \in Execs, NEW n \in Attempts, Claiming(e, n) PROVE GuardExcludesUse'
    <2>1. /\ \A d \in Execs \ {e} : execution'[d] = execution[d]
          /\ \A d \in Execs, m \in Attempts : Active(d, m)' <=> Active(d, m) \/ (d = e /\ m = n)
      BY <1>7, ClaimingEffect
    <2>2. guard' = guard /\ ~ Guarded(e)
      BY <1>7 DEF Claiming, ClaimAttempt
    <2> QED
      BY <1>1, <2>1, <2>2 DEF Guarded
  <1>8. ASSUME NEW e \in Execs, NEW n \in Attempts, NEW r \in Results, Ending(e, n, r)
        PROVE  GuardExcludesUse'
    <2>1. /\ \A d \in Execs \ {e} : execution'[d] = execution[d]
          /\ execution[e].status = "running"
      BY <1>8, EndingExecution
    <2>2. \A d \in Execs, m \in Attempts : Active(d, m)' => Active(d, m)
      BY <1>8, EndingAttempt
    <2>3. guard' = guard
      BY <1>8 DEF Ending, ApplyTerminal
    <2> QED
      BY <1>1, <2>1, <2>2, <2>3 DEF Outstanding
  <1>9. \/ guard' = guard
        \/ \E a \in Adapters : AcquireGcGuard(a) \/ FinishGuard(a)
        \/ \E e \in Execs, n \in Attempts : AcquireReplacementGuard(e, n)
    <2>1. ASSUME NEW e \in Execs, NEW n, NEW r, ApplyTerminal(e, n, r) PROVE guard' = guard
      BY <2>1 DEF ApplyTerminal
    <2>2. ASSUME NEW e \in Execs, NEW n, ClaimAttempt(e, n) PROVE guard' = guard
      BY <2>2 DEF ClaimAttempt
    <2> QED
      BY <2>1, <2>2, Zenon DEF Next, vars, AcceptExecution, RetryDispatch, CancelExecution,
         SettleCancelledOutbox, ClaimDispatch, OutboxLeaseExpire, ReleaseOutboxLease,
         MarkOutboxPublished, ReconcileDeadLetter, StartAttempt, RenewAttempt, AttemptLeaseTick,
         RecoverExpiredAttempt, FinishAttempt, PrepareFailed, CloseSettledIncident,
         TerminateIncident, RecoverPendingDispatch, RecoverPublishedDispatch, LeaseDueOutbox
  <1> QED
    BY Shapes, <1>2, <1>3, <1>4, <1>5, <1>6, <1>7, <1>8, <1>9

\* Garbage collection never holds the guard of an Adapter with an Execution that
\* still needs the cache, and a replacement never while another Attempt runs.
THEOREM GuardsExclude == Spec => []GuardExcludesUse
  <1>1. Init => GuardExcludesUse
    <2> SUFFICES ASSUME Init PROVE GuardExcludesUse
      OBVIOUS
    <2>1. \A e \in Execs : AdapterOf[e] \in Adapters
      BY ConstantsAssumption
    <2> QED
      BY <2>1 DEF Init, GuardExcludesUse, IdleGuard
  <1>2. IInv /\ GuardExcludesUse /\ [Next]_vars => GuardExcludesUse'
    BY GuardNext
  <1> QED
    BY <1>1, <1>2, Invariance, PTL DEF Spec

-----------------------------------------------------------------------------
(* Dispatch rows and generations.  That exactly the generations up to the    *)
(* current one have a row needs to know that an Execution without a row of   *)
(* its own has none in the Outbox either; that a queued one can be claimed,  *)
(* that a row is only ever settled for a cancelled Execution.                *)

Unaccepted ==
    \A e \in Execs : execution[e].status = "absent" <=> execution[e].gen = 0

SettledWhenCancelled ==
    \A e \in Execs, g \in Gens :
       outbox[e][g].code = "settled" => execution[e].status = "cancelled"

RowsInv == GenerationRows /\ Unaccepted /\ SettledWhenCancelled

\* What the transactions do to the rows and the generation of one Execution:
\* they neither add nor settle a row,
RowsKept(e) ==
    /\ execution'[e].gen = execution[e].gen
    /\ execution'[e].status = "absent" <=> execution[e].status = "absent"
    /\ execution[e].status = "cancelled" => execution'[e].status = "cancelled"
    /\ \A g \in Gens :
          /\ outbox'[e][g].status = "absent" <=> outbox[e][g].status = "absent"
          /\ outbox'[e][g].code = "settled" => outbox[e][g].code = "settled"

\* or settle what a cancelled one still has pending,
RowsSettled(e) ==
    /\ execution'[e].gen = execution[e].gen
    /\ execution[e].status # "absent"
    /\ execution'[e].status = "cancelled"
    /\ \A g \in Gens : outbox'[e][g].status = "absent" <=> outbox[e][g].status = "absent"

\* or start the next generation with a row of its own.
NextGeneration(e) ==
    /\ execution[e].gen + 1 \in Gens
    /\ execution'[e].gen = execution[e].gen + 1
    /\ execution[e].status # "cancelled"
    /\ execution'[e].status \notin {"absent", "cancelled"}
    /\ \A g \in Gens :
          outbox'[e][g] = IF g = execution[e].gen + 1 THEN PendingRow ELSE outbox[e][g]

\* Writing one row that stays present and is not settled keeps the rows.
LEMMA RowKept ==
    ASSUME TypeOK, NEW d \in Execs, NEW e \in Execs, NEW g \in Gens, NEW row,
           outbox' = [outbox EXCEPT ![d][g] = row],
           outbox[d][g].status # "absent", row.status # "absent",
           row.code = "settled" => outbox[d][g].code = "settled",
           execution' = execution
    PROVE  RowsKept(e)
  <1>1. \A f \in Execs, h \in Gens :
           outbox'[f][h] = IF f = d /\ h = g THEN row ELSE outbox[f][h]
    BY DEF TypeOK
  <1> QED
    BY <1>1 DEF RowsKept

\* The status and the code of the rows that transactions write.
LEMMA RowCodesOf ==
    /\ PendingRow.status = "pending" /\ PendingRow.code = "none"
    /\ PublishedRow.status = "published" /\ PublishedRow.code = "none"
    /\ DeferredRow.status = "pending" /\ DeferredRow.code = "deferred"
    /\ SettledRow.status = "published" /\ SettledRow.code = "settled"
    /\ AbsentRow.status = "absent" /\ AbsentRow.code = "none"
  BY DEF PendingRow, PublishedRow, DeferredRow, SettledRow, AbsentRow

\* settle_pending_outbox removes no row.
LEMMA SettledKeeps ==
    ASSUME TypeOK, NEW e \in Execs, outbox' = [outbox EXCEPT ![e] = Settled(e)]
    PROVE  /\ \A g \in Gens : outbox'[e][g].status = "absent" <=> outbox[e][g].status = "absent"
           /\ \A d \in Execs \ {e} : outbox'[d] = outbox[d]
  <1>1. \A g \in Gens : Settled(e)[g].status = "absent" <=> outbox[e][g].status = "absent"
    BY RowCodesOf DEF Settled
  <1> QED
    BY <1>1 DEF TypeOK

\* Every transaction does one of the three to every Execution.
LEMMA RowShapes ==
    ASSUME IInv, RowsInv, [Next]_vars, NEW e \in Execs
    PROVE  RowsKept(e) \/ RowsSettled(e) \/ NextGeneration(e)
  <1>a. TypeOK
    BY DEF IInv
  <1>b. /\ execution \in [Execs -> Execution]
        /\ outbox \in [Execs -> [Gens -> Row]]
    BY <1>a DEF TypeOK
  <1>1. ASSUME outbox' = outbox, execution'[e].gen = execution[e].gen,
               execution'[e].status = "absent" <=> execution[e].status = "absent",
               execution[e].status = "cancelled" => execution'[e].status = "cancelled"
        PROVE  RowsKept(e)
    BY <1>1 DEF RowsKept
  <1>2. ASSUME NEW d \in Execs, NEW g \in Gens, g = execution[d].gen + 1,
               execution[d].status # "cancelled",
               \E x \in Execution : /\ execution' = [execution EXCEPT ![d] = x]
                                    /\ x.gen = g /\ x.status \notin {"absent", "cancelled"},
               outbox' = [outbox EXCEPT ![d][g] = PendingRow]
        PROVE  RowsKept(e) \/ NextGeneration(e)
    <2>1. \A f \in Execs, h \in Gens :
             outbox'[f][h] = IF f = d /\ h = g THEN PendingRow ELSE outbox[f][h]
      BY <1>2, <1>b
    <2>2. CASE e = d
      BY <1>2, <1>b, <2>1, <2>2 DEF NextGeneration
    <2>3. CASE e # d
      BY <1>2, <1>b, <2>1, <2>3 DEF RowsKept
    <2> QED
      BY <2>2, <2>3
  <1>3. ASSUME NEW d \in Execs, NEW g \in Gens, g = execution[d].gen + 1, CreateDispatchOutbox(d, g)
        PROVE  outbox' = [outbox EXCEPT ![d][g] = PendingRow]
    <2>1. execution[d].gen \in Int
      BY <1>b DEF Execution
    <2>2. outbox[d][g].status = "absent"
      BY <1>3, <2>1 DEF RowsInv, GenerationRows, Gens
    <2> QED
      BY <1>3, <2>2 DEF CreateDispatchOutbox
  <1>4. ASSUME NEW d \in Execs, AcceptExecution(d) PROVE RowsKept(e) \/ NextGeneration(e)
    <2> DEFINE x == [execution[d] EXCEPT !.status = "queued", !.gen = 1]
    <2>1. 1 \in Gens /\ execution[d].gen = 0 /\ execution[d].status # "cancelled"
      BY <1>4, ConstantsAssumption DEF AcceptExecution, RowsInv, Unaccepted, Gens
    <2>2. x \in Execution /\ x.gen = 1 /\ x.status = "queued"
      <3>1. 1 \in 0..MaxGen
        BY ConstantsAssumption
      <3>2. execution[d] \in Execution
        BY <1>b
      <3> QED
        BY <3>1, <3>2 DEF Execution, Outstanding
    <2>3. execution' = [execution EXCEPT ![d] = x]
      BY <1>4 DEF AcceptExecution, ReserveAdmission
    <2>4. outbox' = [outbox EXCEPT ![d][1] = PendingRow]
      BY <1>3, <1>4, <2>1 DEF AcceptExecution
    <2>5. 1 = execution[d].gen + 1 /\ x.status \notin {"absent", "cancelled"}
      BY <2>1, <2>2
    <2> HIDE DEF x
    <2> QED
      BY <1>2, <2>1, <2>2, <2>3, <2>4, <2>5
  <1>5. ASSUME NEW d \in Execs, RetryDispatch(d) PROVE RowsKept(e) \/ NextGeneration(e)
    <2> DEFINE g == execution[d].gen + 1
               x == [execution[d] EXCEPT !.status = "queued", !.gen = g]
    <2>1. g \in Gens /\ execution[d].status # "cancelled"
      BY <1>5, <1>b, ConstantsAssumption DEF RetryDispatch, Execution, Gens
    <2>2. x \in Execution /\ x.gen = g /\ x.status = "queued"
      <3>1. g \in 0..MaxGen
        BY <2>1, ConstantsAssumption DEF Gens
      <3>2. execution[d] \in Execution
        BY <1>b
      <3> HIDE DEF g
      <3> QED
        BY <3>1, <3>2 DEF Execution, Outstanding
    <2>3. execution' = [execution EXCEPT ![d] = x]
      BY <1>5 DEF RetryDispatch
    <2>4. outbox' = [outbox EXCEPT ![d][g] = PendingRow]
      BY <1>3, <1>5, <2>1 DEF RetryDispatch
    <2> HIDE DEF x
    <2> QED
      BY <1>2, <2>1, <2>2, <2>3, <2>4
  <1>6. ASSUME NEW d \in Execs, NEW i \in Gens \X Kinds, RecoverPublishedDispatch(d, i)
        PROVE  RowsKept(e) \/ NextGeneration(e)
    <2> DEFINE g == execution[d].gen + 1
               x == [execution[d] EXCEPT !.gen = g]
    <2>0. execution[d].status = "queued"
      BY <1>6 DEF RecoverPublishedDispatch, MayRecover
    <2>1. g \in Gens
      BY <1>6, <1>b, ConstantsAssumption DEF RecoverPublishedDispatch, Execution, Gens
    <2>2. x \in Execution /\ x.gen = g /\ x.status = "queued"
      <3>1. g \in 0..MaxGen
        BY <2>1, ConstantsAssumption DEF Gens
      <3>2. execution[d] \in Execution
        BY <1>b
      <3> HIDE DEF g
      <3> QED
        BY <2>0, <3>1, <3>2 DEF Execution
    <2>3. execution' = [execution EXCEPT ![d] = x] /\ outbox' = [outbox EXCEPT ![d][g] = PendingRow]
      BY <1>6 DEF RecoverPublishedDispatch
    <2> HIDE DEF x
    <2> QED
      BY <1>2, <2>0, <2>1, <2>2, <2>3
  <1>7. ASSUME NEW d \in Execs, NEW s \in Terminal, Finalize(d, s), outbox' = outbox,
               execution[d].status \notin {"absent", "cancelled"}
        PROVE  RowsKept(e)
    <2> DEFINE x == [execution[d] EXCEPT !.status = s, !.released = TRUE]
    <2>1. execution' = [execution EXCEPT ![d] = x]
      BY <1>7 DEF Finalize
    <2>2. x.gen = execution[d].gen /\ x.status = s /\ s # "absent"
      BY <1>b DEF Execution, Terminal
    <2> HIDE DEF x
    <2> QED
      BY <1>1, <1>7, <1>b, <2>1, <2>2
  <1>8. ASSUME NEW d \in Execs, NEW g \in Gens, ClaimDispatch(d, g) PROVE RowsKept(e)
    <2>1. execution[d].status = "queued" /\ execution[d].gen = g
      BY <1>8 DEF ClaimDispatch
    <2>2. \/ \E s \in Terminal : Finalize(d, s) /\ outbox' = outbox
          \/ execution' = execution /\ DeferDispatch(d, g)
          \/ ClaimAttempt(d, execution[d].attempt_count + 1)
      BY <1>8 DEF ClaimDispatch, Terminal
    <2>3. CASE \E s \in Terminal : Finalize(d, s) /\ outbox' = outbox
      BY <1>7, <2>1, <2>3
    <2>4. CASE execution' = execution /\ DeferDispatch(d, g)
      <3>1. outbox[d][g].status # "absent"
        BY <2>1, <1>b DEF RowsInv, GenerationRows, Gens
      <3> QED
        BY <1>a, <2>4, <3>1, RowKept, RowCodesOf DEF DeferDispatch
    <2>5. CASE ClaimAttempt(d, execution[d].attempt_count + 1)
      <3> DEFINE x == [execution[d] EXCEPT !.status = "running",
                                           !.attempt_count = execution[d].attempt_count + 1]
      <3>1. execution' = [execution EXCEPT ![d] = x] /\ outbox' = outbox
        BY <2>5 DEF ClaimAttempt
      <3>2. x.gen = execution[d].gen /\ x.status = "running"
        BY <1>b DEF Execution
      <3> HIDE DEF x
      <3> QED
        BY <1>1, <1>b, <2>1, <3>1, <3>2
    <2> QED
      BY <2>2, <2>3, <2>4, <2>5
  <1>9. ASSUME NEW d \in Execs, NEW n \in Attempts, NEW r \in Results, Ending(d, n, r)
        PROVE  RowsKept(e)
    <2> DEFINE s == StatusAfter(d, n, r)
    <2>1. execution[d].status = "running"
      BY <1>9, EndingExecution
    <2>2. outbox' = outbox
      BY <1>9 DEF Ending, ApplyTerminal
    <2>3. CASE s \in Terminal
      <3>1. Finalize(d, s)
        BY <1>9, <2>3 DEF Ending, ApplyTerminal
      <3> QED
        BY <1>7, <2>1, <2>2, <2>3, <3>1
    <2>4. CASE s \notin Terminal
      <3> DEFINE x == [execution[d] EXCEPT !.status = s]
      <3>1. execution' = [execution EXCEPT ![d] = x]
        BY <1>9, <2>4 DEF Ending, ApplyTerminal
      <3>2. x.gen = execution[d].gen /\ x.status = s
        BY <1>b DEF Execution
      <3>3. s # "absent"
        BY DEF StatusAfter
      <3> HIDE DEF x, s
      <3> QED
        BY <1>1, <1>b, <2>1, <2>2, <3>1, <3>2, <3>3
    <2> QED
      BY <2>3, <2>4
  <1>10. ASSUME NEW d \in Execs, NEW inc, CancelLocked(d, inc)
         PROVE  RowsKept(e) \/ RowsSettled(e)
    <2>1. CASE execution[d].status \in Waiting
      <3> DEFINE x == [execution[d] EXCEPT !.status = "cancelled", !.released = TRUE]
      <3>1. /\ execution' = [execution EXCEPT ![d] = x]
            /\ outbox' = [outbox EXCEPT ![d] = Settled(d)]
        BY <1>10, <2>1 DEF CancelLocked, Waiting
      <3>2. x.gen = execution[d].gen /\ x.status = "cancelled"
        BY <1>b DEF Execution
      <3>3. execution[d].status # "absent"
        BY <2>1 DEF Waiting
      <3> HIDE DEF x
      <3>4. CASE e = d
        BY <1>a, <1>b, <3>1, <3>2, <3>3, <3>4, SettledKeeps DEF RowsSettled
      <3>5. CASE e # d
        BY <1>a, <1>b, <3>1, <3>5, SettledKeeps DEF RowsKept
      <3> QED
        BY <3>4, <3>5
    <2>2. CASE execution[d].status \notin Waiting
      <3> DEFINE x == [execution[d] EXCEPT !.cancel_requested = TRUE]
      <3>1. execution' = [execution EXCEPT ![d] = x] /\ outbox' = outbox
        BY <1>10, <2>2 DEF CancelLocked
      <3>2. x.gen = execution[d].gen /\ x.status = execution[d].status
        BY <1>b DEF Execution
      <3> HIDE DEF x
      <3> QED
        BY <1>1, <1>b, <3>1, <3>2
    <2> QED
      BY <2>1, <2>2
  <1>11. ASSUME NEW d \in Execs, SettleCancelledOutbox(d) PROVE RowsKept(e) \/ RowsSettled(e)
    <2>1. /\ execution' = execution /\ execution[d].status = "cancelled"
          /\ outbox' = [outbox EXCEPT ![d] = Settled(d)]
      BY <1>11 DEF SettleCancelledOutbox
    <2>2. CASE e = d
      BY <1>a, <2>1, <2>2, SettledKeeps DEF RowsSettled
    <2>3. CASE e # d
      BY <1>a, <2>1, <2>3, SettledKeeps DEF RowsKept
    <2> QED
      BY <2>2, <2>3
  <1>12. ASSUME NEW d \in Execs, NEW g \in Gens, NEW r \in Relays,
                ReleaseOutboxLease(r, d, g) \/ MarkOutboxPublished(r, d, g)
         PROVE  RowsKept(e)
    <2>1. PICK row \in {PendingRow, PublishedRow} : outbox' = [outbox EXCEPT ![d][g] = row]
      BY <1>12 DEF ReleaseOutboxLease, MarkOutboxPublished
    <2>2. execution' = execution /\ outbox[d][g].status = "pending"
      BY <1>12 DEF ReleaseOutboxLease, MarkOutboxPublished, Owns
    <2> QED
      BY <1>a, <2>1, <2>2, RowKept, RowCodesOf
  <1>13. ASSUME NEW d \in Execs, NEW g \in Gens, OutboxLeaseExpire(d, g) PROVE RowsKept(e)
    <2> DEFINE row == [outbox[d][g] EXCEPT !.live = FALSE]
    <2>1. outbox' = [outbox EXCEPT ![d][g] = row] /\ execution' = execution
      BY <1>13 DEF OutboxLeaseExpire
    <2>2. row.status = outbox[d][g].status /\ row.code = outbox[d][g].code
      BY <1>b DEF Row
    <2> HIDE DEF row
    <2>3. \A f \in Execs, h \in Gens :
             outbox'[f][h] = IF f = d /\ h = g THEN row ELSE outbox[f][h]
      BY <2>1, <1>b
    <2> QED
      BY <2>1, <2>2, <2>3 DEF RowsKept
  <1>14. ASSUME NEW r \in Relays, NEW batch \in SUBSET (Execs \X Gens), LeaseDueOutbox(r, batch)
         PROVE  RowsKept(e)
    <2>1. execution' = execution
      BY <1>14 DEF LeaseDueOutbox
    <2>2. \A g \in Gens : \/ outbox'[e][g] = outbox[e][g]
                          \/ outbox'[e][g] = [outbox[e][g] EXCEPT !.owner = r, !.live = TRUE]
      BY <1>14 DEF LeaseDueOutbox
    <2>3. \A g \in Gens : /\ outbox'[e][g].status = outbox[e][g].status
                          /\ outbox'[e][g].code = outbox[e][g].code
      <3> TAKE g \in Gens
      <3>1. outbox[e][g] \in Row
        BY <1>b
      <3>2. CASE outbox'[e][g] = outbox[e][g]
        BY <3>2
      <3>3. CASE outbox'[e][g] = [outbox[e][g] EXCEPT !.owner = r, !.live = TRUE]
        BY <3>1, <3>3 DEF Row
      <3> QED
        BY <2>2, <3>2, <3>3
    <2> QED
      BY <2>1, <2>3 DEF RowsKept
  <1>15. ASSUME NEW d \in Execs, NEW g \in Gens, NEW k \in Kinds, ReconcileDeadLetter(d, g, k)
         PROVE  RowsKept(e)
    <2>1. /\ outbox[d][g].status # "absent"
          /\ outbox' = outbox \/ outbox' = [outbox EXCEPT ![d][g] = PendingRow]
          /\ execution' = execution
      BY <1>15 DEF ReconcileDeadLetter, Dispatched
    <2> QED
      BY <1>1, <1>a, <2>1, RowKept, RowCodesOf
  <1>16. ASSUME UNCHANGED <<execution, outbox>> PROVE RowsKept(e)
    BY <1>1, <1>16
  <1>17. ASSUME NEW d \in Execs, NEW n \in Attempts,
                \/ RenewAttempt(d, n)
                \/ AttemptLeaseTick(d, n)
                \/ AcquireReplacementGuard(d, n)
                \/ StartAttempt(d, n)
                \/ RecoverExpiredAttempt(d, n)
                \/ \E r \in Results : FinishAttempt(d, n, r) \/ PrepareFailed(d, n, r)
         PROVE  RowsKept(e)
    <2>1. UNCHANGED <<execution, outbox>> \/ \E r \in Results : Ending(d, n, r)
      BY <1>17 DEF RenewAttempt, AttemptLeaseTick, AcquireReplacementGuard, StartAttempt,
                   RecoverExpiredAttempt, FinishAttempt, PrepareFailed, MayReport, Ending,
                   Results, Reports
    <2> QED
      BY <1>9, <1>16, <2>1
  <1>18. ASSUME NEW d \in Execs, NEW i \in Gens \X Kinds,
                CloseSettledIncident(d, i) \/ RecoverPendingDispatch(d, i)
         PROVE  RowsKept(e)
    BY <1>16, <1>18 DEF CloseSettledIncident, RecoverPendingDispatch
  <1>19. ASSUME NEW a \in Adapters, AcquireGcGuard(a) \/ FinishGuard(a) PROVE RowsKept(e)
    BY <1>16, <1>19 DEF AcquireGcGuard, FinishGuard
  <1>20. ASSUME NEW d \in Execs, NEW i \in Gens \X Kinds, TerminateIncident(d, i)
         PROVE  RowsKept(e) \/ RowsSettled(e)
    BY <1>10, <1>20 DEF TerminateIncident
  <1>21. ASSUME NEW d \in Execs, CancelExecution(d) PROVE RowsKept(e) \/ RowsSettled(e)
    BY <1>10, <1>21 DEF CancelExecution
  <1>22. CASE UNCHANGED vars
    BY <1>16, <1>22 DEF vars
  <1> QED
    BY <1>4, <1>5, <1>6, <1>8, <1>11, <1>12, <1>13, <1>14, <1>15, <1>17, <1>18, <1>19, <1>20,
       <1>21, <1>22 DEF Next

\* The three shapes keep generations and rows together.
LEMMA RowsNext ==
    ASSUME IInv, RowsInv, [Next]_vars
    PROVE  RowsInv'
  <1> SUFFICES ASSUME NEW e \in Execs
               PROVE  /\ execution'[e].status = "absent" <=> execution'[e].gen = 0
                      /\ \A g \in Gens :
                            /\ outbox'[e][g].status # "absent" <=> g <= execution'[e].gen
                            /\ outbox'[e][g].code = "settled" => execution'[e].status = "cancelled"
    BY DEF RowsInv, GenerationRows, Unaccepted, SettledWhenCancelled
  <1>1. /\ execution[e].status = "absent" <=> execution[e].gen = 0
        /\ \A g \in Gens :
              /\ outbox[e][g].status # "absent" <=> g <= execution[e].gen
              /\ outbox[e][g].code = "settled" => execution[e].status = "cancelled"
    BY DEF RowsInv, GenerationRows, Unaccepted, SettledWhenCancelled
  <1>2. execution[e].gen \in Nat
    BY RowTypes DEF IInv, Execution
  <1>3. CASE RowsKept(e)
    BY <1>1, <1>3 DEF RowsKept
  <1>4. CASE RowsSettled(e)
    BY <1>1, <1>4 DEF RowsSettled
  <1>5. CASE NextGeneration(e)
    BY <1>1, <1>2, <1>5, RowCodesOf, ConstantsAssumption DEF NextGeneration, Gens
  <1> QED
    BY <1>3, <1>4, <1>5, RowShapes

\* An empty Outbox belongs to Executions that do not exist yet.
LEMMA RowsInit == Init => RowsInv
  BY RowCodesOf, ConstantsAssumption
     DEF Init, RowsInv, GenerationRows, Unaccepted, SettledWhenCancelled, Gens

\* Generations and rows agree in every reachable state.
LEMMA RowsInvariance == Spec => []RowsInv
  <1>1. IInv /\ RowsInv /\ [Next]_vars => RowsInv'
    BY RowsNext
  <1> QED
    BY <1>1, RowsInit, Invariance, PTL DEF Spec

\* Exactly the generations up to the current one have an Outbox row, so no
\* message of a future generation exists.
THEOREM GenerationsCorrect == Spec => []GenerationRows
  <1>1. RowsInv => GenerationRows
    BY DEF RowsInv
  <1> QED
    BY <1>1, RowsInvariance, PTL

\* A waiting Execution can always be taken: an attempt number is left, no older
\* Attempt is active, and its current generation has a row that no cancellation
\* settled.
THEOREM QueuedIsClaimable == Spec => []QueuedClaimable
  <1>1. IInv /\ RowsInv => QueuedClaimable
    <2> SUFFICES ASSUME IInv, RowsInv, NEW e \in Execs, execution[e].status \in Waiting
                 PROVE  /\ execution[e].attempt_count < MaxAttempts
                        /\ ~ HasActiveAttempt(e)
                        /\ execution[e].gen \in Gens
                        /\ outbox[e][execution[e].gen].status # "absent"
                        /\ outbox[e][execution[e].gen].code # "settled"
      BY DEF QueuedClaimable
    <2>1. execution[e].attempt_count < MaxAttempts
      BY DEF IInv, AttemptsLeft
    <2>2. ~ HasActiveAttempt(e)
      BY DEF IInv, SerialSlot, HasActiveAttempt, Waiting
    <2>3. execution[e].gen \in Gens
      <3>1. execution[e].gen \in 0..MaxGen /\ execution[e].gen # 0
        BY RowTypes DEF IInv, Execution, RowsInv, Unaccepted, Waiting
      <3> QED
        BY <3>1, ConstantsAssumption DEF Gens
    <2>4. /\ outbox[e][execution[e].gen].status # "absent"
          /\ outbox[e][execution[e].gen].code # "settled"
      BY <2>3 DEF RowsInv, GenerationRows, SettledWhenCancelled, Waiting, Gens
    <2> QED
      BY <2>1, <2>2, <2>3, <2>4
  <1> QED
    BY <1>1, Invariance, RowsInvariance, PTL

-----------------------------------------------------------------------------
(* Terminations.                                                             *)

Tracked(e) ==
    \A i \in Gens \X Kinds : incident[e][i] = "terminating" =>
       execution[e].status = "running" /\ execution[e].cancel_requested

\* What converge_terminal_dispositions_locked leaves waits for nothing.
LEMMA ConvergedEnds ==
    ASSUME NEW e \in Execs, NEW i \in Gens \X Kinds
    PROVE  Converged(e)[i] # "terminating"
  BY DEF Converged

\* Closing an Incident, and a step that writes neither the Incidents nor the
\* Execution, keep every termination tracked.
LEMMA TrackedKept ==
    ASSUME TypeOK, TerminationTracked, NEW e \in Execs,
           \A i \in Gens \X Kinds : incident'[e][i] \in {incident[e][i], "closed", "open"},
           execution'[e].status = execution[e].status,
           execution'[e].cancel_requested = execution[e].cancel_requested
    PROVE  Tracked(e)'
  BY DEF TerminationTracked, Tracked

\* While nothing waits, nothing needs tracking.
LEMMA TrackedNone ==
    ASSUME TerminationTracked, NEW e \in Execs,
           execution[e].status # "running" \/ ~ execution[e].cancel_requested,
           incident'[e] = incident[e]
    PROVE  Tracked(e)'
  BY DEF TerminationTracked, Tracked

\* A running Execution that is terminated is asked to cancel in the same
\* transaction; whatever ends it resolves the Incident.
LEMMA TrackedNext ==
    ASSUME IInv, TerminationTracked, [Next]_vars
    PROVE  TerminationTracked'
  <1> SUFFICES ASSUME NEW e \in Execs PROVE Tracked(e)'
    BY DEF TerminationTracked, Tracked
  <1>a. TypeOK
    BY DEF IInv
  <1>b. /\ execution \in [Execs -> Execution]
        /\ incident \in [Execs -> [Gens \X Kinds -> IncidentStatus]]
    BY <1>a DEF TypeOK
  <1>1. ASSUME incident'[e] = incident[e], execution'[e].status = execution[e].status,
               execution'[e].cancel_requested = execution[e].cancel_requested
        PROVE  Tracked(e)'
    BY <1>1, TrackedKept, <1>a
  <1>2. ASSUME NEW d \in Execs, NEW x, execution' = [execution EXCEPT ![d] = x], d # e,
               \E inc : incident' = [incident EXCEPT ![d] = inc]
        PROVE  Tracked(e)'
    BY <1>1, <1>2, <1>b
  <1>3. ASSUME NEW d \in Execs, AcceptExecution(d) \/ RetryDispatch(d) PROVE Tracked(e)'
    <2>1. /\ incident' = incident
          /\ \A f \in Execs \ {d} : execution'[f] = execution[f]
          /\ execution[d].status \in {"absent", "retry_wait"}
      BY <1>3, WaitingEffect, Zenon DEF AcceptExecution, RetryDispatch
    <2>2. CASE d = e
      BY <2>1, <2>2, TrackedNone
    <2>3. CASE d # e
      BY <1>1, <2>1, <2>3
    <2> QED
      BY <2>2, <2>3
  <1>4. ASSUME NEW d \in Execs, NEW s, Finalize(d, s) PROVE Tracked(e)'
    <2>1. PICK x : /\ execution' = [execution EXCEPT ![d] = x]
                   /\ incident' = [incident EXCEPT ![d] = Converged(d)]
      BY <1>4 DEF Finalize
    <2>2. CASE d = e
      BY <1>b, <2>1, <2>2, ConvergedEnds DEF Tracked
    <2>3. CASE d # e
      BY <1>2, <2>1, <2>3
    <2> QED
      BY <2>2, <2>3
  <1>5. ASSUME NEW d \in Execs, NEW g \in Gens, ClaimDispatch(d, g) PROVE Tracked(e)'
    <2>1. execution[d].status = "queued"
      BY <1>5 DEF ClaimDispatch
    <2>2. \/ \E s : Finalize(d, s)
          \/ UNCHANGED <<execution, incident>>
          \/ ClaimAttempt(d, execution[d].attempt_count + 1)
      BY <1>5 DEF ClaimDispatch
    <2>3. CASE ClaimAttempt(d, execution[d].attempt_count + 1)
      <3>1. incident' = incident /\ \A f \in Execs \ {d} : execution'[f] = execution[f]
        BY <1>b, <2>3 DEF ClaimAttempt
      <3>2. CASE d = e
        BY <2>1, <3>1, <3>2, TrackedNone
      <3>3. CASE d # e
        BY <1>1, <3>1, <3>3
      <3> QED
        BY <3>2, <3>3
    <2> QED
      BY <1>1, <1>4, <2>2, <2>3
  <1>6. ASSUME NEW d \in Execs, NEW n \in Attempts, NEW r \in Results, Ending(d, n, r)
        PROVE  Tracked(e)'
    <2>1. CASE StatusAfter(d, n, r) \in Terminal
      BY <1>4, <1>6, <2>1 DEF Ending, ApplyTerminal
    <2>2. CASE StatusAfter(d, n, r) \notin Terminal
      <3>1. incident' = incident /\ \A f \in Execs \ {d} : execution'[f] = execution[f]
        BY <1>6, <2>2, EndingExecution DEF Ending, ApplyTerminal
      <3>2. ~ execution[d].cancel_requested
        BY <2>2 DEF StatusAfter, Terminal
      <3>3. CASE d = e
        BY <3>1, <3>2, <3>3, TrackedNone
      <3>4. CASE d # e
        BY <1>1, <3>1, <3>4
      <3> QED
        BY <3>3, <3>4
    <2> QED
      BY <2>1, <2>2
  <1>7. ASSUME NEW d \in Execs, NEW inc, CancelLocked(d, inc),
               execution[d].status # "running" =>
                  inc \in [Gens \X Kinds -> IncidentStatus \ {"terminating"}]
        PROVE  Tracked(e)'
    <2>1. PICK x : /\ execution' = [execution EXCEPT ![d] = x]
                   /\ incident' = [incident EXCEPT ![d] = inc]
                   /\ \/ execution[d].status \in Waiting
                      \/ /\ execution[d].status = "running"
                         /\ x = [execution[d] EXCEPT !.cancel_requested = TRUE]
      BY <1>7 DEF CancelLocked
    <2>2. CASE d # e
      BY <1>2, <2>1, <2>2
    <2>3. CASE d = e /\ execution[d].status \in Waiting
      BY <1>7, <1>b, <2>1, <2>3 DEF Tracked, Waiting
    <2>4. CASE d = e /\ execution[d].status = "running"
      <3>1. /\ execution'[e].status = "running"
            /\ execution'[e].cancel_requested
        BY <1>b, <2>1, <2>4 DEF Waiting, Execution
      <3> QED
        BY <3>1 DEF Tracked
    <2> QED
      BY <2>1, <2>2, <2>3, <2>4
  <1>8. ASSUME NEW d \in Execs, CancelExecution(d) PROVE Tracked(e)'
    <2>1. Converged(d) \in [Gens \X Kinds -> IncidentStatus \ {"terminating"}]
      BY <1>b DEF Converged, IncidentStatus
    <2> QED
      BY <1>7, <1>8, <2>1 DEF CancelExecution
  <1>9. ASSUME NEW d \in Execs, NEW i \in Gens \X Kinds, TerminateIncident(d, i)
        PROVE  Tracked(e)'
    <2>1. Converged(d) \in [Gens \X Kinds -> IncidentStatus \ {"terminating"}]
      BY <1>b DEF Converged, IncidentStatus
    <2>2. [Converged(d) EXCEPT ![i] = "closed"]
             \in [Gens \X Kinds -> IncidentStatus \ {"terminating"}]
      BY <2>1 DEF IncidentStatus
    <2> QED
      BY <1>7, <1>9, <2>2 DEF TerminateIncident
  <1>10. ASSUME NEW d \in Execs, NEW i \in Gens \X Kinds, NEW v \in IncidentStatus,
                incident' = [incident EXCEPT ![d][i] = v], execution' = execution,
                v = "terminating" => incident[d][i] = "terminating"
         PROVE  Tracked(e)'
    <2>1. \A f \in Execs, j \in Gens \X Kinds :
             incident'[f][j] = IF f = d /\ j = i THEN v ELSE incident[f][j]
      BY <1>10, <1>b
    <2> QED
      BY <1>10, <2>1 DEF Tracked, TerminationTracked
  <1>11. ASSUME NEW d \in Execs, NEW g \in Gens, NEW k \in Kinds, ReconcileDeadLetter(d, g, k)
         PROVE  Tracked(e)'
    <2> DEFINE v == IF execution[d].status \in Terminal THEN "closed"
                    ELSE IF incident[d][<<g, k>>] = "terminating" THEN "terminating"
                    ELSE "open"
    <2>1. /\ incident' = [incident EXCEPT ![d][<<g, k>>] = v]
          /\ execution' = execution
      BY <1>11 DEF ReconcileDeadLetter
    <2>2. /\ v \in IncidentStatus
          /\ v = "terminating" => incident[d][<<g, k>>] = "terminating"
      BY DEF IncidentStatus
    <2> HIDE DEF v
    <2> QED
      BY <1>10, <2>1, <2>2
  <1>12. ASSUME NEW d \in Execs, NEW i \in Gens \X Kinds,
                CloseSettledIncident(d, i) \/ RecoverPendingDispatch(d, i)
         PROVE  Tracked(e)'
    <2>1. incident' = [incident EXCEPT ![d][i] = "closed"] /\ execution' = execution
      BY <1>12 DEF CloseSettledIncident, RecoverPendingDispatch, CloseIncident
    <2> QED
      BY <1>10, <2>1 DEF IncidentStatus
  <1>13. ASSUME NEW d \in Execs, NEW i \in Gens \X Kinds, RecoverPublishedDispatch(d, i)
         PROVE  Tracked(e)'
    <2>1. /\ incident' = [incident EXCEPT ![d] = [incident[d] EXCEPT ![i] = "closed"]]
          /\ execution[d].status = "queued"
          /\ \E x : execution' = [execution EXCEPT ![d] = x]
      BY <1>13 DEF RecoverPublishedDispatch, CloseIncident, MayRecover
    <2>2. CASE d = e
      BY <1>b, <2>1, <2>2 DEF TerminationTracked, Tracked
    <2>3. CASE d # e
      BY <1>2, <2>1, <2>3
    <2> QED
      BY <2>2, <2>3
  <1>14. ASSUME UNCHANGED <<execution, incident>> PROVE Tracked(e)'
    BY <1>1, <1>14
  <1>15. ASSUME NEW d \in Execs, NEW g \in Gens,
                \/ SettleCancelledOutbox(d)
                \/ OutboxLeaseExpire(d, g)
                \/ \E r \in Relays : ReleaseOutboxLease(r, d, g) \/ MarkOutboxPublished(r, d, g)
         PROVE  Tracked(e)'
    BY <1>14, <1>15 DEF SettleCancelledOutbox, OutboxLeaseExpire, ReleaseOutboxLease,
                        MarkOutboxPublished
  <1>16. ASSUME NEW d \in Execs, NEW n \in Attempts,
                \/ RenewAttempt(d, n)
                \/ AttemptLeaseTick(d, n)
                \/ AcquireReplacementGuard(d, n)
                \/ StartAttempt(d, n)
                \/ RecoverExpiredAttempt(d, n)
                \/ \E r \in Results : FinishAttempt(d, n, r) \/ PrepareFailed(d, n, r)
         PROVE  Tracked(e)'
    <2>1. UNCHANGED <<execution, incident>> \/ \E r \in Results : Ending(d, n, r)
      BY <1>16 DEF RenewAttempt, AttemptLeaseTick, AcquireReplacementGuard, StartAttempt,
                   RecoverExpiredAttempt, FinishAttempt, PrepareFailed, MayReport, Ending,
                   Results, Reports
    <2> QED
      BY <1>6, <1>14, <2>1
  <1>17. ASSUME NEW r \in Relays, NEW batch \in SUBSET (Execs \X Gens), LeaseDueOutbox(r, batch)
         PROVE  Tracked(e)'
    BY <1>14, <1>17 DEF LeaseDueOutbox
  <1>18. ASSUME NEW a \in Adapters, AcquireGcGuard(a) \/ FinishGuard(a) PROVE Tracked(e)'
    BY <1>14, <1>18 DEF AcquireGcGuard, FinishGuard
  <1>19. CASE UNCHANGED vars
    BY <1>14, <1>19 DEF vars
  <1>20. 1 \in Gens
    BY ConstantsAssumption DEF Gens
  <1> QED
    BY <1>3, <1>5, <1>8, <1>9, <1>11, <1>12, <1>13, <1>15, <1>16, <1>17, <1>18, <1>19, <1>20
       DEF Next

\* An Incident waits for a termination only while its Execution is running under
\* a requested cancellation; no path ends the Execution and forgets it.
THEOREM TerminationsTracked == Spec => []TerminationTracked
  <1>1. Init => TerminationTracked
    BY DEF Init, TerminationTracked
  <1>2. IInv /\ TerminationTracked /\ [Next]_vars => TerminationTracked'
    BY TrackedNext
  <1> QED
    BY <1>1, <1>2, Invariance, PTL DEF Spec

-----------------------------------------------------------------------------
(* The transactions implement the abstract lifecycle.                        *)

\* Every transaction is a step of the abstract lifecycle or invisible to it.
LEMMA LifecycleStep ==
    ASSUME IInv, [Next]_vars
    PROVE  Lifecycle!Next \/ UNCHANGED Lifecycle!avars
  <1> DEFINE st == [e \in Execs |-> execution[e].status]
             at == [e \in Execs |-> execution[e].attempt_count]
             cr == [e \in Execs |-> execution[e].cancel_requested]
  <1>1. CASE Quiet
    <2>1. st' = st /\ at' = at /\ cr' = cr
      BY <1>1 DEF Quiet
    <2> QED
      BY <2>1 DEF Lifecycle!avars
  <1>2. ASSUME NEW e \in Execs, AcceptExecution(e) PROVE Lifecycle!Next
    <2>1. /\ \A d \in Execs \ {e} : execution'[d] = execution[d]
          /\ execution'[e].attempt_count = execution[e].attempt_count
          /\ execution[e].status = "absent"
          /\ execution'[e].status = "queued"
          /\ execution'[e].cancel_requested = execution[e].cancel_requested
      BY <1>2, WaitingEffect
    <2>2. st[e] = "absent" /\ st' = [st EXCEPT ![e] = "queued"] /\ at' = at /\ cr' = cr
      BY <2>1
    <2>3. /\ Lifecycle!UnfinishedOf(AdapterOf[e]) = OutstandingOf(AdapterOf[e])
          /\ {d \in Execs : st[d] \in Lifecycle!Unfinished} = AllOutstanding
      BY DEF Lifecycle!UnfinishedOf, Lifecycle!Unfinished, OutstandingOf, AllOutstanding, Outstanding
    <2>4. /\ Cardinality(OutstandingOf(AdapterOf[e])) < AdapterCap
          /\ Cardinality(AllOutstanding) < GlobalCap
      <3>1. /\ AdapterOf[e] \in Adapters
            /\ admission[AdapterOf[e]] \in Int /\ outstanding \in Int
        BY RowTypes DEF IInv, TypeOK
      <3>2. /\ admission[AdapterOf[e]] = Cardinality(OutstandingOf(AdapterOf[e]))
            /\ outstanding = Cardinality(AllOutstanding)
        BY <3>1 DEF IInv, AdmissionExact, AllOutstanding
      <3>3. admission[AdapterOf[e]] + 1 <= AdapterCap /\ outstanding + 1 <= GlobalCap
        BY <1>2 DEF AcceptExecution, ReserveAdmission
      <3> QED
        BY <3>1, <3>2, <3>3, ConstantsAssumption
    <2>a. Cardinality(Lifecycle!UnfinishedOf(AdapterOf[e])) < AdapterCap
      BY <2>3, <2>4
    <2>b. Cardinality({d \in Execs : st[d] \in Lifecycle!Unfinished}) < GlobalCap
      BY <2>3, <2>4
    <2>5. Lifecycle!Accept(e)
      BY <2>2, <2>a, <2>b DEF Lifecycle!Accept, Lifecycle!Cardinality, Cardinality
    <2> QED
      BY <2>5 DEF Lifecycle!Next
  <1>3. ASSUME NEW e \in Execs, RetryDispatch(e) PROVE Lifecycle!Next
    <2>1. /\ \A d \in Execs \ {e} : execution'[d] = execution[d]
          /\ execution'[e].attempt_count = execution[e].attempt_count
          /\ execution[e].status = "retry_wait"
          /\ execution'[e].status = "queued"
          /\ execution'[e].cancel_requested = execution[e].cancel_requested
      BY <1>3, WaitingEffect
    <2>2. st[e] = "retry_wait" /\ st' = [st EXCEPT ![e] = "queued"] /\ at' = at /\ cr' = cr
      BY <2>1
    <2>3. Lifecycle!Requeue(e)
      BY <2>2 DEF Lifecycle!Requeue
    <2> QED
      BY <2>3 DEF Lifecycle!Next
  <1>4. ASSUME NEW e \in Execs, CancelWaiting(e) PROVE Lifecycle!Next
    <2>1. /\ \A d \in Execs \ {e} : execution'[d] = execution[d]
          /\ execution'[e].attempt_count = execution[e].attempt_count
          /\ execution[e].status \in Waiting
          /\ execution'[e].status = "cancelled"
          /\ execution'[e].cancel_requested = execution[e].cancel_requested
      BY <1>4, WaitingEffect
    <2>2. st[e] \in Waiting /\ st' = [st EXCEPT ![e] = "cancelled"] /\ at' = at /\ cr' = cr
      BY <2>1
    <2>3. Lifecycle!CancelWaiting(e)
      BY <2>2 DEF Lifecycle!CancelWaiting, Waiting
    <2> QED
      BY <2>3 DEF Lifecycle!Next
  <1>5. ASSUME NEW e \in Execs, CancelRunning(e) PROVE Lifecycle!Next
    <2>1. /\ \A d \in Execs \ {e} : execution'[d] = execution[d]
          /\ execution'[e].attempt_count = execution[e].attempt_count
          /\ execution[e].status = "running"
          /\ execution'[e].status = "running"
      BY <1>5, WaitingEffect
    <2>2. execution'[e].cancel_requested = TRUE
      BY <1>5, RowTypes DEF IInv, TypeOK, CancelRunning, Execution
    <2>3. st[e] = "running" /\ cr' = [cr EXCEPT ![e] = TRUE] /\ at' = at /\ st' = st
      BY <2>1, <2>2
    <2>4. Lifecycle!CancelRunning(e)
      BY <2>3 DEF Lifecycle!CancelRunning
    <2> QED
      BY <2>4 DEF Lifecycle!Next
  <1>6. ASSUME NEW e \in Execs, NEW n \in Attempts, Claiming(e, n) PROVE Lifecycle!Next
    <2>1. /\ \A d \in Execs \ {e} : execution'[d] = execution[d]
          /\ execution[e].status = "queued"
          /\ execution'[e].status = "running"
          /\ execution'[e].attempt_count = n
          /\ execution'[e].cancel_requested = execution[e].cancel_requested
          /\ \A d \in Execs : AdapterOf[d] = AdapterOf[e] => execution[d].status # "running"
      BY <1>6, ClaimingEffect
    <2>2. n = execution[e].attempt_count + 1 /\ execution[e].attempt_count < MaxAttempts
      BY <1>6 DEF Claiming, IInv, AttemptsLeft, Waiting
    <2>3. /\ st[e] = "queued" /\ at[e] < MaxAttempts
          /\ st' = [st EXCEPT ![e] = "running"]
          /\ at' = [at EXCEPT ![e] = at[e] + 1]
          /\ cr' = cr
          /\ \A d \in Execs : AdapterOf[d] = AdapterOf[e] => st[d] # "running"
      BY <2>1, <2>2
    <2>4. Lifecycle!Begin(e)
      BY <2>3 DEF Lifecycle!Begin
    <2> QED
      BY <2>4 DEF Lifecycle!Next
  <1>7. ASSUME NEW e \in Execs, NEW n \in Attempts, NEW r \in Results, Ending(e, n, r)
        PROVE  Lifecycle!Next
    <2> DEFINE s == StatusAfter(e, n, r)
    <2>1. /\ \A d \in Execs \ {e} : execution'[d] = execution[d]
          /\ execution[e].status = "running"
          /\ execution[e].attempt_count = n
          /\ execution'[e].status = s
          /\ execution'[e].attempt_count = n
          /\ execution'[e].cancel_requested = execution[e].cancel_requested
      BY <1>7, EndingExecution
    <2>2. /\ s \in {"succeeded", "dead_letter", "cancelled", "retry_wait"}
          /\ execution[e].cancel_requested => s = "cancelled"
          /\ s = "retry_wait" => n < MaxAttempts
      BY DEF StatusAfter
    <2> HIDE DEF s
    <2>3. /\ st[e] = "running"
          /\ cr[e] => s = "cancelled"
          /\ s = "retry_wait" => at[e] < MaxAttempts
          /\ st' = [st EXCEPT ![e] = s]
          /\ at' = at /\ cr' = cr
      BY <2>1, <2>2
    <2>4. Lifecycle!End(e)
      BY <2>2, <2>3 DEF Lifecycle!End
    <2> QED
      BY <2>4 DEF Lifecycle!Next
  <1> QED
    BY Shapes, <1>1, <1>2, <1>3, <1>4, <1>5, <1>6, <1>7

\* Everything the transactions do to an Execution is a step of the lifecycle a
\* caller is promised: serial per Adapter, at most MaxAttempts attempts, within
\* capacity, one ending, cancellation honoured.
THEOREM ControlImplementsLifecycle == Spec => ImplementsLifecycle
  <1>1. Init => Lifecycle!Init
    BY DEF Init, Lifecycle!Init
  <1>2. IInv /\ [Next]_vars => [Lifecycle!Next]_(Lifecycle!avars)
    BY LifecycleStep
  <1> QED
    BY <1>1, <1>2, Invariance, PTL DEF Spec, ImplementsLifecycle, Lifecycle!Spec
=============================================================================
