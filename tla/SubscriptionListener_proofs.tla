--------------------- MODULE SubscriptionListener_proofs ---------------------
(***************************************************************************)
(* Proofs about SubscriptionListener, for any number of Control processes, *)
(* messages, acquisitions and crashes.                                     *)
(*                                                                         *)
(* None of the three invariants is inductive.  What carries them is that   *)
(* an acquisition has a generation of its own (OwnersDistinct) and that    *)
(* the lease row, once it names an owner, awaits the close of exactly that *)
(* one until it has been acknowledged (LeaseAwaits).                       *)
(***************************************************************************)
EXTENDS SubscriptionListener, TLAPS

(* An owner that handles a message holds one of the source's; when it may  *)
(* acknowledge it, the message is in custody.                              *)
Custodian ==
  \A p \in Procs :
    /\ owner[p].pc \in {"holding", "faulting", "committed"} =>
         owner[p].msg \in Messages
    /\ owner[p].pc = "committed" => owner[p].msg \in custody

(* Every acquisition has a generation of its own, the last one being       *)
(* acquired.                                                               *)
OwnersDistinct ==
  /\ \A p \in Procs : /\ owner[p].gen <= acquired
                      /\ owner[p].gen = 0 <=> owner[p] = NoOwner
  /\ \A p, q \in Procs : p # q /\ owner[p].gen = owner[q].gen =>
                           owner[p].gen = 0

(* The lease row names the last acquisition until its close has been       *)
(* acknowledged; it remembers that generation once it was fenced.          *)
LeaseAwaits ==
  /\ lease.owner \in {0, acquired}
  /\ lease.gen >= acquired
  /\ lease.owner = 0 =>
       /\ lease.closing = 0
       /\ \A p \in Procs : owner[p].gen = acquired => acquired = 0
  /\ lease.owner # 0 =>
       \/ lease.gen = lease.owner /\ lease.closing = 0
       \/ lease.gen > lease.owner /\ lease.closing = lease.owner

(* "stopped" is reported only of a disabled subscription without an owner. *)
StoppedIdle == connection = "stopped" => lease.owner = 0 /\ desired = "disabled"

(* The inductive invariant.                                                *)
LInv == /\ LTypeOK /\ AckAfterCustody /\ Custodian /\ OwnersDistinct
        /\ LeaseAwaits /\ StoppedIdle /\ CapacityPauseResumes

-----------------------------------------------------------------------------
(* What the steps write into the lease row and into an owner's entry.      *)
LEMMA LeaseWrites ==
  ASSUME NEW l \in LeaseRow, NEW g \in Nat
  PROVE  /\ Fence(l) \in LeaseRow
         /\ ClosedLease(l) \in LeaseRow
         /\ [owner |-> g, gen |-> g, closing |-> 0, live |-> TRUE] \in LeaseRow
<1>1. Fence(l) \in LeaseRow
  BY DEF LeaseRow, Fence
<1>2. ClosedLease(l) \in LeaseRow
  BY DEF LeaseRow, ClosedLease
<1>3. [owner |-> g, gen |-> g, closing |-> 0, live |-> TRUE] \in LeaseRow
  BY DEF LeaseRow
<1>. QED  BY <1>1, <1>2, <1>3

(* Writes to the entry of an owner thread.                                 *)
LEMMA OwnerWrites ==
  ASSUME NEW r \in OwnerEntry, NEW g \in Nat
  PROVE  /\ NoOwner \in OwnerEntry
         /\ [NoOwner EXCEPT !.gen = g, !.pc = "opening"] \in OwnerEntry
         /\ [r EXCEPT !.stop = TRUE] \in OwnerEntry
         /\ [r EXCEPT !.pc = "unconfirmed", !.stop = TRUE] \in OwnerEntry
<1>1. /\ NoOwner \in OwnerEntry
      /\ [NoOwner EXCEPT !.gen = g, !.pc = "opening"] \in OwnerEntry
  BY DEF OwnerEntry, NoOwner, Failures
<1>2. [r EXCEPT !.stop = TRUE] \in OwnerEntry
  BY DEF OwnerEntry
<1>3. [r EXCEPT !.pc = "unconfirmed", !.stop = TRUE] \in OwnerEntry
  BY DEF OwnerEntry
<1>. QED  BY <1>1, <1>2, <1>3

(* A step of one owner that keeps its generation.                          *)
LEMMA OwnerMoves ==
  ASSUME LTypeOK, LTypeOK', OwnersDistinct, acquired' = acquired,
         NEW p \in Procs, owner[p].gen # 0, owner'[p].gen = owner[p].gen,
         \A q \in Procs : q # p => owner'[q] = owner[q]
  PROVE  OwnersDistinct'
  BY DEF LTypeOK, OwnersDistinct, NoOwner

(* StartOnce keeps the inductive invariant.                                *)
LEMMA StartOnceStep ==
  ASSUME LInv, NEW p \in Procs, StartOnce(p)
  PROVE  LInv'
<1>1. LTypeOK'
  <2>. lease.gen + 1 \in Nat
    BY DEF LInv, LTypeOK, LeaseRow
  <2>1. owner' \in [Procs -> OwnerEntry]
    BY OwnerWrites DEF LInv, LTypeOK, StartOnce
  <2>. QED  BY <2>1, ListenerAssumption DEF LInv, LTypeOK, StartOnce,
               LeaseRow
<1>2. AckAfterCustody'
  BY DEF LInv, StartOnce, AckAfterCustody
<1>3. Custodian'
  BY DEF LInv, StartOnce, Custodian
<1>4. OwnersDistinct'
  <2>1. acquired' > acquired
    BY DEF LInv, LTypeOK, StartOnce, LeaseAwaits, LeaseRow
  <2>2. \A q \in Procs : q # p => owner'[q] = owner[q]
    BY DEF StartOnce
  <2>3. owner'[p].gen = acquired'
    BY DEF LInv, LTypeOK, StartOnce
  <2>. QED  BY <1>1, <2>1, <2>2, <2>3 DEF OwnersDistinct, LInv, LTypeOK,
               NoOwner, OwnerEntry
<1>5. LeaseAwaits'
  BY DEF LInv, LTypeOK, StartOnce, LeaseAwaits, LeaseRow
<1>6. StoppedIdle'
  BY DEF StartOnce, StoppedIdle
<1>7. CapacityPauseResumes'
  BY DEF StartOnce, CapacityPauseResumes
<1>. QED  BY <1>1, <1>2, <1>3, <1>4, <1>5, <1>6, <1>7 DEF LInv

(* OpenTransport keeps the inductive invariant.                            *)
LEMMA OpenTransportStep ==
  ASSUME LInv, NEW p \in Procs, OpenTransport(p)
  PROVE  LInv'
<1>1. LTypeOK'
  BY DEF LInv, LTypeOK, OpenTransport, OwnerEntry
<1>2. AckAfterCustody'
  BY DEF LInv, OpenTransport, AckAfterCustody
<1>3. Custodian'
  BY DEF LInv, LTypeOK, OpenTransport, Custodian, OwnerEntry
<1>4. OwnersDistinct'
  BY OwnerMoves DEF LInv, LTypeOK, OpenTransport, NoOwner, Capacity,
     NoMessage, Custodian, OwnersDistinct, OwnerEntry
<1>5. LeaseAwaits'
  BY DEF LInv, LTypeOK, OpenTransport, LeaseAwaits, OwnerEntry
<1>6. StoppedIdle'
  BY DEF LInv, OpenTransport, StoppedIdle
<1>7. CapacityPauseResumes'
  BY DEF LInv, LTypeOK, OpenTransport, CapacityPauseResumes
<1>. QED  BY <1>1, <1>2, <1>3, <1>4, <1>5, <1>6, <1>7 DEF LInv

(* Connected keeps the inductive invariant.                                *)
LEMMA ConnectedStep ==
  ASSUME LInv, NEW p \in Procs, Connected(p)
  PROVE  LInv'
<1>1. LTypeOK'
  BY DEF LInv, LTypeOK, Connected, Retire, OwnerEntry
<1>2. AckAfterCustody'
  BY DEF LInv, Connected, AckAfterCustody
<1>3. Custodian'
  BY DEF LInv, LTypeOK, Connected, Retire, Custodian, OwnerEntry
<1>4. OwnersDistinct'
  BY OwnerMoves DEF LInv, LTypeOK, Connected, Retire, NoOwner, Capacity,
     NoMessage, NoFault, AckAfterCustody, Custodian, OwnersDistinct, Failures,
     LeaseRow, OwnerEntry
<1>5. LeaseAwaits'
  BY DEF LInv, LTypeOK, Connected, Retire, LeaseAwaits, OwnerEntry
<1>6. StoppedIdle'
  BY DEF LInv, Connected, StoppedIdle
<1>7. CapacityPauseResumes'
  BY DEF LInv, LTypeOK, Connected, Retire, CapacityPauseResumes
<1>. QED  BY <1>1, <1>2, <1>3, <1>4, <1>5, <1>6, <1>7 DEF LInv

(* Poll keeps the inductive invariant.                                     *)
LEMMA PollStep ==
  ASSUME LInv, NEW p \in Procs, Poll(p)
  PROVE  LInv'
<1>1. LTypeOK'
  BY DEF LInv, LTypeOK, Poll, Retire, OwnerEntry
<1>2. AckAfterCustody'
  BY DEF LInv, Poll, AckAfterCustody
<1>3. Custodian'
  BY DEF LInv, LTypeOK, Poll, Retire, Custodian, OwnerEntry
<1>4. OwnersDistinct'
  <2>1. owner[p].gen # 0
    BY DEF LInv, OwnersDistinct, NoOwner, Poll
  <2>2. /\ owner'[p].gen = owner[p].gen
        /\ \A q \in Procs : q # p => owner'[q] = owner[q]
    BY DEF LInv, LTypeOK, OwnerEntry, Poll, Retire
  <2>3. acquired' = acquired
    BY DEF Poll
  <2>. QED  BY <1>1, <2>1, <2>2, <2>3, OwnerMoves DEF LInv
<1>5. LeaseAwaits'
  BY DEF LInv, LTypeOK, Poll, Retire, Custodian, LeaseAwaits, StoppedIdle,
     OwnerEntry
<1>6. StoppedIdle'
  BY DEF LInv, Poll, StoppedIdle
<1>7. CapacityPauseResumes'
  BY DEF LInv, LTypeOK, Poll, Retire, CapacityPauseResumes
<1>. QED  BY <1>1, <1>2, <1>3, <1>4, <1>5, <1>6, <1>7 DEF LInv

(* TakeCustody keeps the inductive invariant.                              *)
LEMMA TakeCustodyStep ==
  ASSUME LInv, NEW p \in Procs, TakeCustody(p)
  PROVE  LInv'
<1>1. LTypeOK'
  BY DEF LInv, LTypeOK, TakeCustody, Retire, Custodian, OwnerEntry
<1>2. AckAfterCustody'
  BY DEF LInv, TakeCustody, AckAfterCustody
<1>3. Custodian'
  BY DEF LInv, LTypeOK, TakeCustody, Retire, CommitOutcomes, Custodian,
     OwnerEntry
<1>4. OwnersDistinct'
  <2>1. owner[p].gen # 0
    BY DEF LInv, OwnersDistinct, NoOwner, TakeCustody
  <2>2. /\ owner'[p].gen = owner[p].gen
        /\ \A q \in Procs : q # p => owner'[q] = owner[q]
    BY DEF LInv, LTypeOK, OwnerEntry, TakeCustody, Retire,
       CommitOutcomes
  <2>3. acquired' = acquired
    BY DEF TakeCustody
  <2>. QED  BY <1>1, <2>1, <2>2, <2>3, OwnerMoves DEF LInv
<1>5. LeaseAwaits'
  BY DEF LInv, LTypeOK, TakeCustody, Retire, LeaseAwaits, OwnerEntry
<1>6. StoppedIdle'
  BY DEF LInv, TakeCustody, StoppedIdle
<1>7. CapacityPauseResumes'
  BY DEF LInv, LTypeOK, TakeCustody, Retire, CapacityPauseResumes
<1>. QED  BY <1>1, <1>2, <1>3, <1>4, <1>5, <1>6, <1>7 DEF LInv

(* RecordFault keeps the inductive invariant.                              *)
LEMMA RecordFaultStep ==
  ASSUME LInv, NEW p \in Procs, RecordFault(p)
  PROVE  LInv'
<1>1. LTypeOK'
  BY DEF LInv, LTypeOK, RecordFault, Retire, Custodian, Failures, OwnerEntry
<1>2. AckAfterCustody'
  BY DEF LInv, RecordFault, AckAfterCustody
<1>3. Custodian'
  BY DEF LInv, LTypeOK, RecordFault, Retire, Custodian, OwnerEntry
<1>4. OwnersDistinct'
  <2>1. owner[p].gen # 0
    BY DEF LInv, OwnersDistinct, NoOwner, RecordFault
  <2>2. /\ owner'[p].gen = owner[p].gen
        /\ \A q \in Procs : q # p => owner'[q] = owner[q]
    BY DEF LInv, LTypeOK, OwnerEntry, RecordFault, Retire
  <2>3. acquired' = acquired
    BY DEF RecordFault
  <2>. QED  BY <1>1, <2>1, <2>2, <2>3, OwnerMoves DEF LInv
<1>5. LeaseAwaits'
  BY DEF LInv, LTypeOK, RecordFault, Retire, LeaseAwaits, OwnerEntry
<1>6. StoppedIdle'
  BY DEF LInv, RecordFault, StoppedIdle
<1>7. CapacityPauseResumes'
  BY DEF LInv, LTypeOK, RecordFault, LeaseValid, Retire,
     CapacityPauseResumes, LeaseRow, OwnerEntry
<1>. QED  BY <1>1, <1>2, <1>3, <1>4, <1>5, <1>6, <1>7 DEF LInv

(* Acknowledge keeps the inductive invariant.                              *)
LEMMA AcknowledgeStep ==
  ASSUME LInv, NEW p \in Procs, Acknowledge(p)
  PROVE  LInv'
<1>1. LTypeOK'
  BY DEF LInv, LTypeOK, Acknowledge, Retire, OwnerEntry
<1>2. AckAfterCustody'
  BY DEF LInv, LTypeOK, Acknowledge, AckAfterCustody, Custodian
<1>3. Custodian'
  BY DEF LInv, LTypeOK, Acknowledge, Retire, Custodian, OwnerEntry
<1>4. OwnersDistinct'
  BY <1>1, OwnerMoves DEF LInv, LTypeOK, Acknowledge, Retire, NoOwner,
     OwnersDistinct, OwnerEntry
<1>5. LeaseAwaits'
  BY DEF LInv, LTypeOK, Acknowledge, Retire, LeaseAwaits, OwnerEntry
<1>6. StoppedIdle'
  BY DEF LInv, Acknowledge, StoppedIdle
<1>7. CapacityPauseResumes'
  BY DEF LInv, LTypeOK, Acknowledge, Retire, CapacityPauseResumes
<1>. QED  BY <1>1, <1>2, <1>3, <1>4, <1>5, <1>6, <1>7 DEF LInv

(* CloseTransport keeps the inductive invariant.                           *)
LEMMA CloseTransportStep ==
  ASSUME LInv, NEW p \in Procs, CloseTransport(p)
  PROVE  LInv'
<1>1. LTypeOK'
  BY DEF LInv, LTypeOK, CloseTransport, OwnerEntry
<1>2. AckAfterCustody'
  BY DEF LInv, CloseTransport, AckAfterCustody
<1>3. Custodian'
  BY DEF LInv, CloseTransport, Custodian
<1>4. OwnersDistinct'
  BY OwnerMoves DEF LInv, CloseTransport, NoOwner, NoMessage,
     OwnersDistinct, OwnerEntry
<1>5. LeaseAwaits'
  BY DEF LInv, CloseTransport, LeaseAwaits
<1>6. StoppedIdle'
  BY DEF LInv, CloseTransport, StoppedIdle
<1>7. CapacityPauseResumes'
  BY DEF LInv, CloseTransport, CapacityPauseResumes
<1>. QED  BY <1>1, <1>2, <1>3, <1>4, <1>5, <1>6, <1>7 DEF LInv

(* FinishOwner keeps the inductive invariant.                              *)
LEMMA FinishOwnerStep ==
  ASSUME LInv, NEW p \in Procs, FinishOwner(p)
  PROVE  LInv'
<1>1. LTypeOK'
  <2>2. lease' \in LeaseRow
    BY LeaseWrites DEF LInv, LTypeOK, FinishOwner, OwnLease
  <2>. QED  BY <2>2 DEF LInv, LTypeOK, FinishOwner, OwnLease, Fence,
               ClosedLease, RunOutcome, NoOwner, OwnersDistinct, Failures,
               LeaseRow, OwnerEntry
<1>2. AckAfterCustody'
  BY DEF LInv, FinishOwner, AckAfterCustody
<1>3. Custodian'
  BY DEF LInv, FinishOwner, NoOwner, Custodian
<1>4. OwnersDistinct'
  BY DEF LInv, LTypeOK, FinishOwner, NoOwner, OwnersDistinct
<1>5. LeaseAwaits'
  BY DEF LInv, LTypeOK, FinishOwner, OwnLease, Awaited, Fence, ClosedLease,
     NoOwner, OwnersDistinct, LeaseAwaits
<1>6. StoppedIdle'
  BY DEF LInv, FinishOwner, OwnLease, Fence, ClosedLease, RunOutcome,
     StoppedIdle
<1>7. CapacityPauseResumes'
  BY DEF LInv, LTypeOK, FinishOwner, OwnLease, Awaited, Fence, RunOutcome,
     Capacity, LeaseAwaits, CapacityPauseResumes
<1>. QED  BY <1>1, <1>2, <1>3, <1>4, <1>5, <1>6, <1>7 DEF LInv

(* FinishUnconfirmed keeps the inductive invariant.                        *)
LEMMA FinishUnconfirmedStep ==
  ASSUME LInv, NEW p \in Procs, FinishUnconfirmed(p)
  PROVE  LInv'
<1>1. LTypeOK'
  <2>1. owner' \in [Procs -> OwnerEntry]
    BY OwnerWrites DEF LInv, LTypeOK, FinishUnconfirmed
  <2>2. lease' \in LeaseRow
    BY LeaseWrites DEF LInv, LTypeOK, FinishUnconfirmed, OwnLease
  <2>. QED  BY <2>1, <2>2 DEF LInv, LTypeOK, FinishUnconfirmed, OwnLease,
               Fence, LeaseAwaits
<1>2. AckAfterCustody'
  BY DEF LInv, FinishUnconfirmed, AckAfterCustody
<1>3. Custodian'
  BY DEF LInv, LTypeOK, FinishUnconfirmed, Custodian
<1>4. OwnersDistinct'
  BY <1>1, OwnerMoves DEF LInv, LTypeOK, FinishUnconfirmed, NoOwner,
     NoMessage, OwnersDistinct
<1>5. LeaseAwaits'
  BY DEF LInv, LTypeOK, FinishUnconfirmed, OwnLease, Fence, LeaseAwaits
<1>6. StoppedIdle'
  BY DEF LInv, FinishUnconfirmed, OwnLease, Fence, StoppedIdle
<1>7. CapacityPauseResumes'
  BY DEF LInv, LTypeOK, FinishUnconfirmed, OwnLease, Awaited, Fence,
     CapacityPauseResumes
<1>. QED  BY <1>1, <1>2, <1>3, <1>4, <1>5, <1>6, <1>7 DEF LInv

(* ReportUnconfirmed keeps the inductive invariant.                        *)
LEMMA ReportUnconfirmedStep ==
  ASSUME LInv, NEW p \in Procs, ReportUnconfirmed(p)
  PROVE  LInv'
<1>1. LTypeOK'
  BY DEF LInv, LTypeOK, ReportUnconfirmed
<1>2. AckAfterCustody'
  BY DEF LInv, ReportUnconfirmed, AckAfterCustody
<1>3. Custodian'
  BY DEF LInv, ReportUnconfirmed, Custodian
<1>4. OwnersDistinct'
  BY DEF LInv, ReportUnconfirmed, OwnersDistinct
<1>5. LeaseAwaits'
  BY DEF LInv, ReportUnconfirmed, LeaseAwaits
<1>6. StoppedIdle'
  BY DEF ReportUnconfirmed, StoppedIdle
<1>7. CapacityPauseResumes'
  BY DEF ReportUnconfirmed, Capacity, CapacityPauseResumes
<1>. QED  BY <1>1, <1>2, <1>3, <1>4, <1>5, <1>6, <1>7 DEF LInv

(* Renew keeps the inductive invariant.                                    *)
LEMMA RenewStep ==
  ASSUME LInv, NEW p \in Procs, Renew(p)
  PROVE  LInv'
<1>1. LTypeOK'
  <2>1. owner' \in [Procs -> OwnerEntry]
    BY OwnerWrites DEF LInv, LTypeOK, Renew
  <2>. QED  BY <2>1 DEF LInv, LTypeOK, Renew
<1>2. AckAfterCustody'
  BY DEF LInv, Renew, AckAfterCustody
<1>3. Custodian'
  BY DEF LInv, Renew, Custodian
<1>4. OwnersDistinct'
  BY <1>1, OwnerMoves DEF LInv, Renew, OwnersDistinct
<1>5. LeaseAwaits'
  BY DEF LInv, Renew, LeaseAwaits
<1>6. StoppedIdle'
  BY DEF LInv, Renew, StoppedIdle
<1>7. CapacityPauseResumes'
  BY DEF LInv, Renew, CapacityPauseResumes
<1>. QED  BY <1>1, <1>2, <1>3, <1>4, <1>5, <1>6, <1>7 DEF LInv

(* StopSingle keeps the inductive invariant.                               *)
LEMMA StopSingleStep ==
  ASSUME LInv, NEW p \in Procs, StopSingle(p)
  PROVE  LInv'
<1>1. LTypeOK'
  <2>1. owner' \in [Procs -> OwnerEntry]
    BY OwnerWrites DEF LInv, LTypeOK, StopSingle
  <2>. QED  BY <2>1 DEF LInv, LTypeOK, StopSingle, Fence, NoOwner,
               OwnersDistinct, LeaseRow
<1>2. AckAfterCustody'
  BY DEF LInv, StopSingle, AckAfterCustody
<1>3. Custodian'
  BY DEF LInv, StopSingle, Custodian
<1>4. OwnersDistinct'
  BY <1>1, OwnerMoves DEF LInv, StopSingle, NoOwner, NoMessage,
     OwnersDistinct
<1>5. LeaseAwaits'
  BY DEF LInv, LTypeOK, StopSingle, Fence, LeaseAwaits
<1>6. StoppedIdle'
  BY DEF LInv, StopSingle, StoppedIdle
<1>7. CapacityPauseResumes'
  BY DEF LInv, LTypeOK, StopSingle, CapacityPauseResumes
<1>. QED  BY <1>1, <1>2, <1>3, <1>4, <1>5, <1>6, <1>7 DEF LInv

(* Crash keeps the inductive invariant.                                    *)
LEMMA CrashStep ==
  ASSUME LInv, NEW p \in Procs, Crash(p)
  PROVE  LInv'
<1>1. LTypeOK'
  BY ListenerAssumption DEF LInv, LTypeOK, Crash, NoOwner, Failures,
     OwnerEntry
<1>2. AckAfterCustody'
  BY DEF LInv, Crash, AckAfterCustody
<1>3. Custodian'
  BY DEF LInv, Crash, NoOwner, Custodian
<1>4. OwnersDistinct'
  BY DEF LInv, LTypeOK, Crash, NoOwner, OwnersDistinct
<1>5. LeaseAwaits'
  BY DEF LInv, Crash, NoOwner, LeaseAwaits
<1>6. StoppedIdle'
  BY DEF LInv, Crash, StoppedIdle
<1>7. CapacityPauseResumes'
  BY DEF LInv, LTypeOK, Crash, CapacityPauseResumes
<1>. QED  BY <1>1, <1>2, <1>3, <1>4, <1>5, <1>6, <1>7 DEF LInv

(* Enable keeps the inductive invariant.                                   *)
LEMMA EnableStep ==
  ASSUME LInv, Enable
  PROVE  LInv'
<1>1. LTypeOK'
  BY DEF LInv, LTypeOK, Enable, Fence, LeaseAwaits, LeaseRow
<1>2. AckAfterCustody'
  BY DEF LInv, Enable, AckAfterCustody
<1>3. Custodian'
  BY DEF LInv, Enable, Custodian
<1>4. OwnersDistinct'
  BY DEF LInv, Enable, OwnersDistinct
<1>5. LeaseAwaits'
  BY DEF LInv, LTypeOK, Enable, Fence, LeaseAwaits, LeaseRow
<1>6. StoppedIdle'
  BY DEF Enable, StoppedIdle
<1>7. CapacityPauseResumes'
  BY DEF Enable, CapacityPauseResumes
<1>. QED  BY <1>1, <1>2, <1>3, <1>4, <1>5, <1>6, <1>7 DEF LInv

(* Resume keeps the inductive invariant.                                   *)
LEMMA ResumeStep ==
  ASSUME LInv, Resume
  PROVE  LInv'
<1>1. LTypeOK'
  BY DEF LInv, LTypeOK, Resume, Fence, LeaseAwaits, LeaseRow
<1>2. AckAfterCustody'
  BY DEF LInv, Resume, AckAfterCustody
<1>3. Custodian'
  BY DEF LInv, Resume, Custodian
<1>4. OwnersDistinct'
  BY DEF LInv, Resume, OwnersDistinct
<1>5. LeaseAwaits'
  BY DEF LInv, LTypeOK, Resume, Fence, LeaseAwaits, LeaseRow
<1>6. StoppedIdle'
  BY DEF Resume, StoppedIdle
<1>7. CapacityPauseResumes'
  BY DEF Resume, CapacityPauseResumes
<1>. QED  BY <1>1, <1>2, <1>3, <1>4, <1>5, <1>6, <1>7 DEF LInv

(* Disable keeps the inductive invariant.                                  *)
LEMMA DisableStep ==
  ASSUME LInv, Disable
  PROVE  LInv'
<1>1. LTypeOK'
  BY DEF LInv, LTypeOK, Disable, Fence, DisabledState, LeaseAwaits, LeaseRow
<1>2. AckAfterCustody'
  BY DEF LInv, Disable, AckAfterCustody
<1>3. Custodian'
  BY DEF LInv, Disable, Custodian
<1>4. OwnersDistinct'
  BY DEF LInv, Disable, OwnersDistinct
<1>5. LeaseAwaits'
  BY DEF LInv, LTypeOK, Disable, Fence, LeaseAwaits, LeaseRow
<1>6. StoppedIdle'
  BY DEF Disable, Fence, DisabledState, StoppedIdle
<1>7. CapacityPauseResumes'
  BY DEF Disable, DisabledState, CapacityPauseResumes
<1>. QED  BY <1>1, <1>2, <1>3, <1>4, <1>5, <1>6, <1>7 DEF LInv

(* ExpireLease keeps the inductive invariant.                              *)
LEMMA ExpireLeaseStep ==
  ASSUME LInv, ExpireLease
  PROVE  LInv'
<1>1. LTypeOK'
  BY DEF LInv, LTypeOK, ExpireLease, LeaseRow
<1>2. AckAfterCustody'
  BY DEF LInv, ExpireLease, AckAfterCustody
<1>3. Custodian'
  BY DEF LInv, ExpireLease, Custodian
<1>4. OwnersDistinct'
  BY DEF LInv, ExpireLease, OwnersDistinct
<1>5. LeaseAwaits'
  BY DEF LInv, ExpireLease, LeaseAwaits
<1>6. StoppedIdle'
  BY DEF LInv, ExpireLease, StoppedIdle
<1>7. CapacityPauseResumes'
  BY DEF LInv, ExpireLease, CapacityPauseResumes
<1>. QED  BY <1>1, <1>2, <1>3, <1>4, <1>5, <1>6, <1>7 DEF LInv

(* Every step keeps the inductive invariant.                               *)
LEMMA LStep == LInv /\ [LNext]_listenerVars => LInv'
<1>. SUFFICES ASSUME LInv, [LNext]_listenerVars PROVE LInv'
  OBVIOUS
<1>1. ASSUME NEW p \in Procs,
             \/ StartOnce(p) \/ OpenTransport(p) \/ Connected(p) \/ Poll(p)
             \/ TakeCustody(p) \/ RecordFault(p) \/ Acknowledge(p)
      PROVE  LInv'
  BY <1>1, StartOnceStep, OpenTransportStep, ConnectedStep, PollStep,
     TakeCustodyStep, RecordFaultStep, AcknowledgeStep
<1>2. ASSUME NEW p \in Procs,
             \/ CloseTransport(p) \/ FinishOwner(p) \/ FinishUnconfirmed(p)
             \/ ReportUnconfirmed(p) \/ Renew(p) \/ StopSingle(p) \/ Crash(p)
      PROVE  LInv'
  BY <1>2, CloseTransportStep, FinishOwnerStep, FinishUnconfirmedStep,
     ReportUnconfirmedStep, RenewStep, StopSingleStep, CrashStep
<1>3. CASE Enable \/ Resume \/ Disable \/ ExpireLease
  BY <1>3, EnableStep, ResumeStep, DisableStep, ExpireLeaseStep
<1>4. CASE UNCHANGED listenerVars
  BY <1>4 DEF LInv, LTypeOK, AckAfterCustody, Custodian, OwnersDistinct,
     LeaseAwaits, StoppedIdle, CapacityPauseResumes, listenerVars
<1>. QED  BY <1>1, <1>2, <1>3, <1>4 DEF LNext

(* The initial states satisfy the inductive invariant.                     *)
LEMMA LStart == LInit => LInv
  BY ListenerAssumption DEF LInit, LInv, LTypeOK, AckAfterCustody,
     Custodian, OwnersDistinct, LeaseAwaits, StoppedIdle, CapacityPauseResumes,
     NoOwner, Failures, LeaseRow, OwnerEntry

(* The inductive invariant holds of every behaviour.                       *)
LEMMA LInvariant == LSpec => []LInv
  BY LStart, LStep, PTL DEF LSpec

(* The state of the lease, of the owner threads and of the source stays    *)
(* within its types.                                                       *)
THEOREM ListenerTypes == LSpec => []LTypeOK
<1>1. LInv => LTypeOK  BY DEF LInv
<1>. QED  BY LInvariant, <1>1, PTL

(* No message is lost: what the source was told to forget is in custody,   *)
(* whatever is fenced, crashes, or is not known to have committed.         *)
THEOREM NoMessageLost == LSpec => []AckAfterCustody
<1>1. LInv => AckAfterCustody  BY DEF LInv
<1>. QED  BY LInvariant, <1>1, PTL

(* "stopped" means that the client of the last acquisition has closed.     *)
(* The lease awaits no close then, so nobody holds the last generation.    *)
THEOREM StoppedIsTrue == LSpec => []StoppedMeansClosed
<1>1. ASSUME LInv PROVE StoppedMeansClosed
  BY <1>1 DEF LInv, LTypeOK, StoppedIdle, LeaseAwaits, OwnersDistinct,
     StoppedMeansClosed, NativeOpen, NoOwner, OwnerEntry
<1>. QED  BY LInvariant, <1>1, PTL

(* A capacity pause has somebody to end it, unless a process died.         *)
THEOREM PauseEnds == LSpec => []CapacityPauseResumes
<1>1. LInv => CapacityPauseResumes  BY DEF LInv
<1>. QED  BY LInvariant, <1>1, PTL
=============================================================================
