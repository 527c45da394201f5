--------------------- MODULE SubscriptionDelivery_proofs ---------------------
(***************************************************************************)
(* Proofs about SubscriptionDelivery, for any number of receipts and       *)
(* deliveries, any batch and unit sizes and any quota: a shard is served   *)
(* in order, what is owed can be delivered, the quota rows agree with what *)
(* they account for, and every variable keeps its type.                    *)
(*                                                                         *)
(* None of these is inductive.  What carries order and custody is the      *)
(* barrier: when it is set it names the first unfinished receipt, and a    *)
(* first unfinished receipt that is being processed or has failed is named *)
(* by it.  The quota needs that only the latest delivery of a receipt that *)
(* waits is pending, the types that an Execution is named by the delivery  *)
(* that heads it: a dispatch then gives its Execution to no more receipts  *)
(* than a batch may have, and nobody else ever gives it to another.        *)
(***************************************************************************)
EXTENDS MCSubscriptions, SubscriptionListener_proofs, LeastElement,
        FiniteSetTheorems, SequenceTheorems, TLAPS

States == {"pending", "processing", "failed", "succeeded", "skipped", "deleted"}

Keys == (1..MaxSequence) \X (1..MaxOrdinal)

Ages == 0..2

Delivery == [state : States, execution : Keys \cup {Absent}, kept : BOOLEAN,
             revision : 0..MaxRevisions]

Receipt == [state : States, payload : BOOLEAN, age : Ages, deliveries : Seq(Delivery)]

(* The bounds on receipts and on their deliveries.                         *)
Bounded(rs) == /\ Len(rs) <= MaxSequence
               /\ \A s \in DOMAIN rs : Len(rs[s].deliveries) <= MaxOrdinal

(* The types the proofs need.                                              *)
Rows ==
  /\ mode \in {"single", "business_batch"}
  /\ receipts \in Seq(Receipt)
  /\ Bounded(receipts)
  /\ shared \in [Keys -> Int]
  /\ blocker \in Nat
  /\ revisions \in 0..MaxRevisions /\ repairRevision \in 0..revisions

Owed == Unfinished(receipts)

(* An unfinished receipt has its payload and is in the state of its latest *)
(* delivery.                                                               *)
Current ==
  \A s \in Owed : /\ receipts[s].payload
                  /\ Ordinal(s) # 0
                  /\ Last(s).state = receipts[s].state

(* In single mode an Execution has one member, and only the first          *)
(* unfinished receipt can have failed.                                     *)
Alone ==
  mode = "single" =>
    \A s \in Owed :
      /\ receipts[s].state = "processing" => Last(s).execution[1] = s
      /\ receipts[s].state = "failed" => IsHead(s)

(* The barrier names the first unfinished receipt or none.                 *)
BarrierOwed == blocker # 0 => blocker \in Owed /\ IsHead(blocker)

(* A first unfinished receipt that was dispatched is the barrier.          *)
HeadBlocked ==
  \A s \in Owed :
    IsHead(s) /\ receipts[s].state \in {"failed", "processing"} => blocker = s

(* The latest delivery of a settled receipt is over.                       *)
Finished ==
  \A s \in DOMAIN receipts : receipts[s].state \in Settled =>
    Ordinal(s) # 0 /\ Last(s).state \notin {"pending", "processing"}

(* Only the latest delivery of a receipt that waits can be pending.        *)
PendingLast ==
  \A s \in DOMAIN receipts : \A i \in DOMAIN receipts[s].deliveries :
    receipts[s].deliveries[i].state = "pending" =>
      i = Ordinal(s) /\ receipts[s].state = "pending"

(* The quota rows agree with what they account for, and no limit is passed.*)
Ledger ==
  /\ quota \in [pending : Int, history : Int, dedupe : Int, paused : BOOLEAN]
  /\ quota.pending <= PendingMax /\ quota.history <= HistoryMax
  /\ quota.dedupe <= DedupeMax /\ audits \in 0..MaxAudits
  /\ PendingLast /\ LedgerMatches

Shard == Current /\ ShardOrder /\ Alone /\ BarrierOwed /\ HeadBlocked

(* What a step that dispatches nothing does to the deliveries: no delivery *)
(* gets an Execution, none becomes pending again, and rows disappear with  *)
(* their receipt only.                                                     *)
Inherits ==
  /\ \A s \in DOMAIN receipts :
       /\ s \in DOMAIN receipts'
       /\ \/ receipts'[s].state = "deleted"
          \/ /\ receipts[s].state # "deleted" /\ Ordinal(s) <= Ordinal(s)'
             /\ \A i \in 1..Ordinal(s) :
                  receipts[s].deliveries[i].state # "pending" =>
                    receipts'[s].deliveries[i].state # "pending"
  /\ \A s \in DOMAIN receipts' : \A i \in 1..Ordinal(s)' :
       \/ receipts'[s].deliveries[i].execution = Absent
       \/ /\ s \in DOMAIN receipts /\ i \in 1..Ordinal(s)
          /\ receipts'[s].deliveries[i].execution = receipts[s].deliveries[i].execution

(* What a dispatch does to them: it gives its Execution to the latest       *)
(* delivery of every receipt it takes.                                     *)
Binds(s, taken) ==
  /\ <<s, Ordinal(s)>> \in Keys /\ s \in taken /\ taken \subseteq DOMAIN receipts
  /\ DOMAIN receipts' = DOMAIN receipts
  /\ \A t \in DOMAIN receipts \ taken : receipts'[t] = receipts[t]
  /\ \A t \in taken :
       /\ receipts'[t].state = "processing" /\ Ordinal(t)' = Ordinal(t)
       /\ receipts'[t].deliveries[Ordinal(t)].state = "processing"
       /\ receipts'[t].deliveries[Ordinal(t)].execution = <<s, Ordinal(s)>>
       /\ \A i \in 1..Ordinal(t) :
            i # Ordinal(t) => receipts'[t].deliveries[i] = receipts[t].deliveries[i]

(* The receipts an Execution serves.                                       *)
Batch(rs, x) == {s \in DOMAIN rs : \E i \in 1..Len(rs[s].deliveries) :
                                     rs[s].deliveries[i].execution = x}

(* The delivery that heads an Execution: of a receipt that is gone, or one  *)
(* that is there and not pending any more.                                 *)
Heads(rs, x) ==
  /\ x \in Keys /\ x[1] \in DOMAIN rs
  /\ \/ rs[x[1]].state = "deleted"
     \/ /\ x[2] \in 1..Len(rs[x[1]].deliveries)
        /\ rs[x[1]].deliveries[x[2]].state # "pending"

(* An Execution is named by the delivery that heads it.                    *)
Headed ==
  \A s \in DOMAIN receipts : \A i \in 1..Ordinal(s) :
    \/ receipts[s].deliveries[i].execution = Absent
    \/ Heads(receipts, receipts[s].deliveries[i].execution)

(* No Execution serves more receipts than a batch may have.                *)
Sized == \A x \in Keys : Cardinality(Batch(receipts, x)) <= BatchMembers

Statuses == {"idle", "pending", "processing", "draining", "blocked", "repair"}

(* The types of what the shard does not depend on.                         *)
Shape ==
  /\ mode \in DeliveryModes
  /\ reception \in {"enabled", "disabled"}
  /\ deliveryState \in Statuses
  /\ shared \in [Keys -> Never..BatchMembers]

(* The inductive invariant.                                                *)
CInv == Rows /\ Shard /\ Finished /\ Ledger

-----------------------------------------------------------------------------
(* Sequences.                                                              *)

(* A function on 1..n is a sequence of length n.                           *)
LEMMA FunctionIsSeq ==
  ASSUME NEW S, NEW n \in Nat, NEW f \in [1..n -> S]
  PROVE  f \in Seq(S) /\ Len(f) = n
<1>1. f = [i \in 1..n |-> f[i]] /\ \A i \in 1..n : f[i] \in S
  OBVIOUS
<1>2. f \in Seq(S)
  BY <1>1
<1>3. Len(f) \in Nat /\ DOMAIN f = 1..Len(f) /\ DOMAIN f = 1..n
  BY <1>2, LenProperties
<1>. QED  BY <1>2, <1>3

(* The receipts and what the operators on them read.                       *)
LEMMA Reads ==
  ASSUME NEW rs \in Seq(Receipt)
  PROVE  /\ Len(rs) \in Nat /\ DOMAIN rs = 1..Len(rs) /\ rs \in [1..Len(rs) -> Receipt]
         /\ \A s \in DOMAIN rs : rs[s] \in Receipt /\ s \in Nat /\ s # 0
         /\ Unfinished(rs) \in SUBSET Nat /\ Unfinished(rs) \subseteq DOMAIN rs
         /\ \A s \in DOMAIN rs :
              /\ s \in Unfinished(rs) <=> rs[s].state \notin Settled \cup {"deleted"}
              /\ rs[s].state \in States
         /\ \A s \in Unfinished(rs) : rs[s].state \in {"pending", "processing", "failed"}
         /\ \A s \in DOMAIN rs :
              rs[s].state \in {"pending", "processing", "failed"} => s \in Unfinished(rs)
<1>1. Len(rs) \in Nat /\ DOMAIN rs = 1..Len(rs) /\ rs \in [1..Len(rs) -> Receipt]
  BY LenProperties
<1>2. \A s \in DOMAIN rs : rs[s] \in Receipt /\ s \in Nat /\ s # 0
  BY <1>1
<1>3. \A s \in DOMAIN rs : rs[s].state \in States
  BY <1>2 DEF Receipt
<1>. QED  BY <1>1, <1>2, <1>3 DEF Unfinished, IsUnfinished, Settled, States

(* Receipts that gain no delivery stay within the bounds.                  *)
LEMMA StaysBounded ==
  ASSUME NEW rs \in Seq(Receipt), Bounded(rs), NEW new \in Seq(Receipt),
         DOMAIN new = DOMAIN rs,
         \A s \in DOMAIN rs : Len(new[s].deliveries) <= Len(rs[s].deliveries)
  PROVE  Bounded(new)
<1>1. Len(new) = Len(rs)
  BY LenProperties
<1>2. ASSUME NEW s \in DOMAIN rs PROVE Len(new[s].deliveries) <= MaxOrdinal
  <2>1. rs[s] \in Receipt /\ new[s] \in Receipt
    BY Reads
  <2>2. Len(rs[s].deliveries) \in Nat /\ Len(new[s].deliveries) \in Nat
    BY <2>1 DEF Receipt
  <2>. QED  BY <2>2, DeliveryAssumption DEF Bounded
<1>. QED  BY <1>1, <1>2 DEF Bounded

(* A receipt that has just settled has no age.                             *)
LEMMA NoAge == 0 \in Ages
  BY DEF Ages

(* A receipt with its latest delivery replaced.                            *)
LEMMA LastReplaced ==
  ASSUME NEW r \in Receipt, NEW d \in Delivery, Len(r.deliveries) # 0
  PROVE  /\ SetLast(r, d) \in Receipt
         /\ SetLast(r, d).state = r.state /\ SetLast(r, d).payload = r.payload
         /\ Len(SetLast(r, d).deliveries) = Len(r.deliveries)
         /\ SetLast(r, d).deliveries[Len(r.deliveries)] = d
         /\ \A i \in 1..Len(r.deliveries) :
              i # Len(r.deliveries) => SetLast(r, d).deliveries[i] = r.deliveries[i]
<1>. DEFINE n == Len(r.deliveries)
            ds == [r.deliveries EXCEPT ![n] = d]
<1>1. r.deliveries \in Seq(Delivery) /\ n \in Nat /\ n \in 1..n
  <2>1. r.deliveries \in Seq(Delivery)
    BY DEF Receipt
  <2>. QED  BY <2>1, LenProperties
<1>2. /\ ds \in Seq(Delivery) /\ Len(ds) = n /\ ds[n] = d
      /\ \A i \in 1..n : i # n => ds[i] = r.deliveries[i]
  BY <1>1, ExceptSeq
<1>3. SetLast(r, d) = [r EXCEPT !.deliveries = ds]
  BY DEF SetLast
<1>. HIDE DEF ds
<1>4. [r EXCEPT !.deliveries = ds] \in Receipt
  BY <1>2 DEF Receipt
<1>5. /\ [r EXCEPT !.deliveries = ds].state = r.state
      /\ [r EXCEPT !.deliveries = ds].payload = r.payload
      /\ [r EXCEPT !.deliveries = ds].deliveries = ds
  BY DEF Receipt
<1>. QED  BY <1>2, <1>3, <1>4, <1>5

(* The barrier that is recomputed is the first unfinished receipt.         *)
LEMMA Recomputed ==
  ASSUME NEW rs \in Seq(Receipt), NEW b, b = RecomputeBlocker(rs)
  PROVE  /\ b \in Nat
         /\ b # 0 => b \in Unfinished(rs) /\ \A t \in Unfinished(rs) : b <= t
         /\ \A s \in Unfinished(rs) : (\A t \in Unfinished(rs) : s <= t) => b = s
<1>1. Unfinished(rs) \in SUBSET Nat
  BY Reads
<1>2. CASE Unfinished(rs) = {}
  BY <1>2 DEF RecomputeBlocker
<1>3. CASE Unfinished(rs) # {}
  <2>1. b = Min(Unfinished(rs))
    BY <1>3 DEF RecomputeBlocker
  <2>2. b \in Unfinished(rs) /\ \A t \in Unfinished(rs) : b <= t
    BY <1>1, <1>3, <2>1, MinProperty
  <2>. QED  BY <1>1, <2>2
<1>. QED  BY <1>2, <1>3

-----------------------------------------------------------------------------
(* What the steps do to the shard.                                         *)

(* Nothing happens to an unfinished receipt.                               *)
LEMMA ShardQuiet ==
  ASSUME Shard, mode' = mode, blocker' = blocker, Owed' = Owed,
         \A s \in Owed : receipts'[s] = receipts[s]
  PROVE  Shard'
<1>1. \A s \in Owed : Last(s)' = Last(s) /\ Ordinal(s)' = Ordinal(s)
  BY DEF Last, Ordinal
<1>2. \A s : IsHead(s)' <=> IsHead(s)
  BY DEF IsHead, Owed
<1>3. Current'
  BY <1>1 DEF Shard, Current
<1>4. ShardOrder'
  BY <1>1 DEF Shard, ShardOrder, Owed
<1>5. Alone'
  BY <1>1, <1>2 DEF Shard, Alone
<1>6. BarrierOwed' /\ HeadBlocked'
  BY <1>2 DEF Shard, BarrierOwed, HeadBlocked
<1>. QED  BY <1>3, <1>4, <1>5, <1>6 DEF Shard

(* New pending receipts come behind the others.                            *)
LEMMA ShardGrows ==
  ASSUME Rows, Rows', Shard, mode' = mode, blocker' = blocker, Owed \subseteq Owed',
         \A s \in Owed : receipts'[s] = receipts[s],
         \A t \in Owed' \ Owed :
            /\ \A s \in Owed : s < t
            /\ receipts'[t].payload /\ receipts'[t].state = "pending"
            /\ Ordinal(t)' # 0 /\ Last(t)'.state = "pending"
  PROVE  Shard'
<1>0. Owed \in SUBSET Nat /\ Owed' \in SUBSET Nat
  BY Reads DEF Rows, Owed
<1>1. \A s \in Owed : Last(s)' = Last(s) /\ Ordinal(s)' = Ordinal(s)
  BY DEF Last, Ordinal
<1>2. \A s \in Owed : IsHead(s)' <=> IsHead(s)
  BY <1>0 DEF IsHead, Owed
<1>3. Current'
  BY <1>1 DEF Shard, Current
<1>4. ShardOrder'
  <2>. SUFFICES ASSUME NEW s \in Owed', NEW t \in Owed',
                       receipts'[s].state = "processing", t < s
                PROVE  /\ receipts'[t].state = "processing"
                       /\ Last(t)'.execution = Last(s)'.execution
    BY DEF ShardOrder, Owed
  <2>1. s \in Owed
    OBVIOUS
  <2>2. t \in Owed
    BY <1>0, <2>1
  <2>. QED  BY <1>1, <2>1, <2>2 DEF Shard, ShardOrder, Owed
<1>5. Alone'
  BY <1>1, <1>2 DEF Shard, Alone
<1>6. BarrierOwed'
  BY <1>2 DEF Shard, BarrierOwed
<1>7. HeadBlocked'
  BY <1>2 DEF Shard, HeadBlocked
<1>. QED  BY <1>3, <1>4, <1>5, <1>6, <1>7 DEF Shard

(* The head and the receipts behind it that share its Execution are        *)
(* dispatched.                                                             *)
LEMMA ShardDispatches ==
  ASSUME Rows, Rows', Shard, mode' = mode, Owed' = Owed,
         NEW s \in Owed, NEW taken \in SUBSET Owed, NEW x,
         IsHead(s), s \in taken, receipts[s].state = "pending", blocker' = s,
         \A u \in taken : \A t \in Owed : t < u => t \in taken,
         mode = "single" => taken = {s} /\ x[1] = s,
         \A t \in Owed \ taken : receipts'[t] = receipts[t],
         \A t \in taken : /\ receipts'[t].state = "processing"
                          /\ receipts'[t].payload = receipts[t].payload
                          /\ Ordinal(t)' = Ordinal(t)
                          /\ Last(t)'.state = "processing"
                          /\ Last(t)'.execution = x
  PROVE  Shard'
<1>0. Owed \in SUBSET Nat
  BY Reads DEF Rows, Owed
<1>1. \A t \in Owed \ taken : Last(t)' = Last(t) /\ Ordinal(t)' = Ordinal(t)
  BY DEF Last, Ordinal
<1>2. \A t \in Owed : receipts[t].state # "processing"
  <2>. SUFFICES ASSUME NEW t \in Owed, receipts[t].state = "processing" PROVE FALSE
    OBVIOUS
  <2>1. s <= t /\ s # t
    BY DEF IsHead, Owed
  <2>2. s < t
    BY <1>0, <2>1
  <2>. QED  BY <2>2 DEF Shard, ShardOrder, Owed
<1>3. \A t : IsHead(t)' <=> IsHead(t)
  BY DEF IsHead, Owed
<1>4. \A t \in Owed : IsHead(t) => t = s
  BY <1>0 DEF IsHead, Owed
<1>5. Current'
  BY <1>1 DEF Shard, Current
<1>6. ShardOrder'
  <2>. SUFFICES ASSUME NEW u \in Owed, NEW t \in Owed,
                       receipts'[u].state = "processing", t < u
                PROVE  /\ receipts'[t].state = "processing"
                       /\ Last(t)'.execution = Last(u)'.execution
    BY DEF ShardOrder, Owed
  <2>1. u \in taken
    BY <1>2
  <2>2. t \in taken
    BY <2>1
  <2>. QED  BY <2>1, <2>2
<1>7. Alone'
  BY <1>2, <1>3 DEF Shard, Alone
<1>8. BarrierOwed' /\ HeadBlocked'
  BY <1>3, <1>4 DEF BarrierOwed, HeadBlocked
<1>. QED  BY <1>5, <1>6, <1>7, <1>8 DEF Shard

(* The members of one Execution are settled: they have succeeded or failed,*)
(* and the barrier is recomputed or, in single mode, cleared or kept.      *)
LEMMA ShardObserves ==
  ASSUME Rows, Rows', Shard, mode' = mode, NEW x, NEW members, members # {},
         \A s : s \in members <=> /\ s \in Owed /\ receipts[s].state = "processing"
                                  /\ Last(s).execution = x,
         \A s : s \in Owed' <=> /\ s \in Owed
                                /\ s \in members => receipts'[s].state = "failed",
         \A t \in Owed \ members : receipts'[t] = receipts[t],
         \A t \in members : /\ receipts'[t].state \in {"failed", "succeeded"}
                            /\ receipts'[t].payload = receipts[t].payload
                            /\ Ordinal(t)' = Ordinal(t)
                            /\ Last(t)'.state = receipts'[t].state,
         mode = "business_batch" => blocker' = RecomputeBlocker(receipts'),
         mode = "single" =>
            \A s \in members : blocker' = IF receipts'[s].state = "succeeded" THEN 0 ELSE s
  PROVE  Shard'
<1>0. Owed \in SUBSET Nat /\ Owed' \subseteq Owed
  BY Reads DEF Rows, Owed
<1>1. \A t \in Owed \ members : Last(t)' = Last(t) /\ Ordinal(t)' = Ordinal(t)
  BY DEF Last, Ordinal
<1>2. PICK m \in members : TRUE
  OBVIOUS
<1>3. ASSUME NEW t \in Owed, receipts[t].state = "processing" PROVE t \in members
  <2>1. m \in Owed /\ receipts[m].state = "processing" /\ Last(m).execution = x
    BY <1>2
  <2>2. t = m \/ t < m \/ m < t
    BY <1>0, <2>1
  <2>3. Last(t).execution = Last(m).execution
    BY <1>3, <2>1, <2>2 DEF Shard, ShardOrder, Owed
  <2>. QED  BY <1>3, <2>1, <2>3
<1>4. \A t \in Owed' : receipts'[t].state # "processing"
  BY <1>0, <1>3
<1>5. Current'
  BY <1>0, <1>1 DEF Shard, Current
<1>6. ShardOrder'
  BY <1>4 DEF ShardOrder, Owed
<1>7. ASSUME mode = "single" PROVE Alone' /\ BarrierOwed' /\ HeadBlocked'
  <2>1. \A t \in members : t = x[1]
    BY <1>7 DEF Shard, Alone
  <2>2. members = {m}
    BY <1>2, <2>1
  <2>3. \A t \in Owed : t < m => FALSE
    <3>. SUFFICES ASSUME NEW t \in Owed, t < m PROVE FALSE
      OBVIOUS
    <3>1. m \in Owed /\ receipts[m].state = "processing"
      BY <1>2
    <3>2. receipts[t].state = "processing"
      BY <3>1 DEF Shard, ShardOrder, Owed
    <3>3. t = m
      BY <1>3, <2>2, <3>2
    <3>. QED  BY <1>0, <3>1, <3>3
  <2>4. IsHead(m)'
    BY <1>0, <1>2, <2>3 DEF IsHead, Owed
  <2>5. ASSUME NEW t \in Owed', receipts'[t].state = "failed" PROVE t = m
    <3>. SUFFICES ASSUME t # m PROVE FALSE
      OBVIOUS
    <3>1. t \in Owed /\ receipts[t].state = "failed" /\ m \in Owed
      BY <1>0, <1>2, <2>2, <2>5
    <3>2. IsHead(t)
      BY <1>7, <3>1 DEF Shard, Alone
    <3>3. t < m
      BY <1>0, <3>1, <3>2 DEF IsHead, Owed
    <3>. QED  BY <2>3, <3>1, <3>3
  <2>6. blocker' = IF receipts'[m].state = "succeeded" THEN 0 ELSE m
    BY <1>2, <1>7
  <2>7. Alone'
    BY <1>4, <2>4, <2>5 DEF Alone
  <2>8. CASE receipts'[m].state = "succeeded"
    <3>1. m \notin Owed' /\ blocker' = 0
      BY <2>6, <2>8, <1>2
    <3>. QED  BY <1>4, <2>5, <2>7, <3>1 DEF BarrierOwed, HeadBlocked
  <2>9. CASE receipts'[m].state # "succeeded"
    <3>1. m \in Owed' /\ blocker' = m
      BY <2>6, <2>9, <1>2
    <3>. QED  BY <1>4, <2>4, <2>5, <2>7, <3>1 DEF BarrierOwed, HeadBlocked
  <2>. QED  BY <2>8, <2>9
<1>8. ASSUME mode = "business_batch" PROVE Alone' /\ BarrierOwed' /\ HeadBlocked'
  <2>1. BarrierOwed' /\ HeadBlocked'
    <3>1. receipts' \in Seq(Receipt) /\ blocker' = RecomputeBlocker(receipts')
      BY <1>8 DEF Rows
    <3>2. /\ blocker' # 0 => blocker' \in Owed' /\ \A t \in Owed' : blocker' <= t
          /\ \A s \in Owed' : (\A t \in Owed' : s <= t) => blocker' = s
      BY <3>1, Recomputed DEF Owed
    <3>. QED  BY <3>2 DEF BarrierOwed, HeadBlocked, IsHead, Owed
  <2>. QED  BY <1>8, <2>1 DEF Alone
<1>. QED  BY <1>5, <1>6, <1>7, <1>8 DEF Shard, Rows

(* A failed or settled receipt becomes pending again: the barrier itself,  *)
(* or one of a drained shard.                                              *)
LEMMA ShardReplays ==
  ASSUME Rows, Rows', Shard, mode' = mode, blocker' = blocker, NEW s \in Nat \ {0},
         Owed' = Owed \cup {s}, blocker = s \/ Owed = {},
         \A t \in Owed \ {s} : receipts'[t] = receipts[t],
         s \in Owed => receipts[s].state = "failed",
         receipts'[s].state = "pending", receipts'[s].payload,
         Ordinal(s)' # 0, Last(s)'.state = "pending"
  PROVE  Shard'
<1>0. Owed \in SUBSET Nat
  BY Reads DEF Rows, Owed
<1>1. \A t \in Owed \ {s} : Last(t)' = Last(t) /\ Ordinal(t)' = Ordinal(t)
  BY DEF Last, Ordinal
<1>2. \A t \in Owed : s <= t
  BY <1>0 DEF Shard, BarrierOwed, IsHead, Owed
<1>3. IsHead(s)' /\ \A t \in Owed' : IsHead(t)' => t = s
  BY <1>0, <1>2 DEF IsHead, Owed
<1>4. blocker # 0 => blocker = s
  BY DEF Shard, BarrierOwed
<1>5. Current'
  BY <1>1 DEF Shard, Current
<1>6. \A t \in Owed : receipts[t].state # "processing"
  <2>. SUFFICES ASSUME NEW t \in Owed, receipts[t].state = "processing" PROVE FALSE
    OBVIOUS
  <2>1. s \in Owed /\ s # t
    BY DEF Shard, BarrierOwed
  <2>2. s < t
    BY <1>0, <1>2, <2>1
  <2>. QED  BY <2>1, <2>2 DEF Shard, ShardOrder, Owed
<1>7. \A t \in Owed' : receipts'[t].state # "processing"
  BY <1>6
<1>8. ShardOrder'
  BY <1>7 DEF ShardOrder, Owed
<1>9. Alone'
  <2>. SUFFICES ASSUME mode = "single", NEW t \in Owed', receipts'[t].state = "failed"
                PROVE  IsHead(t)'
    BY <1>7 DEF Alone
  <2>1. t \in Owed /\ t # s /\ receipts[t].state = "failed"
    OBVIOUS
  <2>2. IsHead(t) /\ s \in Owed
    BY <2>1 DEF Shard, Alone, BarrierOwed
  <2>. QED  BY <1>0, <1>2, <2>1, <2>2 DEF IsHead, Owed
<1>10. BarrierOwed' /\ HeadBlocked'
  BY <1>3, <1>4 DEF BarrierOwed, HeadBlocked
<1>. QED  BY <1>5, <1>8, <1>9, <1>10 DEF Shard

(* One receipt that is not being processed is given up.                    *)
LEMMA ShardSkips ==
  ASSUME Rows, Rows', Shard, mode' = mode, blocker' = RecomputeBlocker(receipts'),
         NEW s \in Owed, Owed' = Owed \ {s},
         \A t \in Owed \ {s} : receipts'[t] = receipts[t]
  PROVE  Shard'
<1>1. \A t \in Owed \ {s} : Last(t)' = Last(t) /\ Ordinal(t)' = Ordinal(t)
  BY DEF Last, Ordinal
<1>2. \A t \in Owed' : IsHead(t) => IsHead(t)'
  BY DEF IsHead, Owed
<1>3. Current'
  BY <1>1 DEF Shard, Current
<1>4. ShardOrder'
  BY <1>1 DEF Shard, ShardOrder, Owed
<1>5. Alone'
  BY <1>1, <1>2 DEF Shard, Alone
<1>6. BarrierOwed' /\ HeadBlocked'
  <2>1. receipts' \in Seq(Receipt)
    BY DEF Rows
  <2>2. /\ blocker' # 0 => blocker' \in Owed' /\ \A t \in Owed' : blocker' <= t
        /\ \A t \in Owed' : (\A u \in Owed' : t <= u) => blocker' = t
    BY <2>1, Recomputed DEF Owed
  <2>. QED  BY <2>2 DEF BarrierOwed, HeadBlocked, IsHead, Owed
<1>. QED  BY <1>3, <1>4, <1>5, <1>6 DEF Shard

-----------------------------------------------------------------------------
(* The latest delivery of a receipt that has one.                          *)
LEMMA LastRead ==
  ASSUME Rows, NEW s \in DOMAIN receipts
  PROVE  /\ receipts[s].deliveries \in Seq(Delivery) /\ Ordinal(s) \in Nat
         /\ Ordinal(s) # 0 => Last(s) \in Delivery
<1>1. receipts[s] \in Receipt
  BY Reads DEF Rows
<1>2. receipts[s].deliveries \in Seq(Delivery)
  BY <1>1 DEF Receipt
<1>3. /\ Ordinal(s) \in Nat
      /\ receipts[s].deliveries \in [1..Ordinal(s) -> Delivery]
  BY <1>2, LenProperties DEF Ordinal
<1>. QED  BY <1>2, <1>3 DEF Ordinal, Last

-----------------------------------------------------------------------------
(* The delivery rows the quota accounts for.                               *)

(* Sets of pairs with the same pairs are equal.                            *)
LEMMA PairSets ==
  ASSUME NEW A, NEW B, \A d \in A \cup B : d = <<d[1], d[2]>>,
         \A s, i : <<s, i>> \in A <=> <<s, i>> \in B
  PROVE  A = B
<1>1. ASSUME NEW d \in A PROVE d \in B
  <2>1. d = <<d[1], d[2]>>
    OBVIOUS
  <2>2. <<d[1], d[2]>> \in A
    BY <2>1
  <2>3. <<d[1], d[2]>> \in B
    BY <2>2
  <2>. QED  BY <2>1, <2>3
<1>2. ASSUME NEW d \in B PROVE d \in A
  <2>1. d = <<d[1], d[2]>>
    OBVIOUS
  <2>2. <<d[1], d[2]>> \in B
    BY <2>1
  <2>3. <<d[1], d[2]>> \in A
    BY <2>2
  <2>. QED  BY <2>1, <2>3
<1>. QED  BY <1>1, <1>2

(* What the row sets contain, and that they can be counted.                *)
LEMMA RowsRead ==
  ASSUME NEW rs \in Seq(Receipt), Bounded(rs)
  PROVE  /\ \A d \in DeliveryRows(rs) : d = <<d[1], d[2]>>
         /\ \A s, i : <<s, i>> \in DeliveryRows(rs) <=>
              s \in DOMAIN rs /\ i \in 1..Len(rs[s].deliveries)
         /\ \A s, i : <<s, i>> \in PendingRows(rs) <=>
              /\ s \in DOMAIN rs /\ i \in 1..Len(rs[s].deliveries)
              /\ rs[s].deliveries[i].state = "pending"
         /\ \A s, i : <<s, i>> \in HeldRows(rs) <=>
              /\ s \in DOMAIN rs /\ i \in 1..Len(rs[s].deliveries)
              /\ Retains(rs[s], rs[s].deliveries[i])
         /\ PendingRows(rs) \subseteq DeliveryRows(rs)
         /\ HeldRows(rs) \subseteq DeliveryRows(rs)
         /\ IsFiniteSet(PendingRows(rs)) /\ Cardinality(PendingRows(rs)) \in Nat
         /\ IsFiniteSet(HeldRows(rs)) /\ Cardinality(HeldRows(rs)) \in Nat
         /\ IsFiniteSet(DOMAIN rs)
<1>1. \A d \in DeliveryRows(rs) : d = <<d[1], d[2]>>
  BY DEF DeliveryRows
<1>2. ASSUME NEW s, NEW i
      PROVE  <<s, i>> \in DeliveryRows(rs) <=>
               s \in DOMAIN rs /\ i \in 1..Len(rs[s].deliveries)
  <2>1. <<s, i>> \in DeliveryRows(rs) <=>
          /\ s \in DOMAIN rs /\ i \in 1..MaxOrdinal
          /\ i <= Len(rs[s].deliveries)
    BY DEF DeliveryRows
  <2>2. s \in DOMAIN rs => /\ Len(rs[s].deliveries) \in Nat
                           /\ Len(rs[s].deliveries) <= MaxOrdinal
    BY Reads DEF Bounded, Receipt
  <2>. QED  BY <2>1, <2>2, DeliveryAssumption
<1>3. IsFiniteSet(DOMAIN rs) /\ IsFiniteSet(1..MaxOrdinal)
  <2>1. DOMAIN rs = 1..Len(rs) /\ Len(rs) \in Nat
    BY LenProperties
  <2>. QED  BY <2>1, FS_Interval, DeliveryAssumption
<1>4. IsFiniteSet(DeliveryRows(rs))
  <2>1. IsFiniteSet((DOMAIN rs) \X (1..MaxOrdinal))
    BY <1>3, FS_Product
  <2>2. DeliveryRows(rs) \subseteq (DOMAIN rs) \X (1..MaxOrdinal)
    BY DEF DeliveryRows
  <2>. QED  BY <2>1, <2>2, FS_Subset
<1>5. PendingRows(rs) \subseteq DeliveryRows(rs) /\ HeldRows(rs) \subseteq DeliveryRows(rs)
  BY DEF PendingRows, HeldRows
<1>6. IsFiniteSet(PendingRows(rs)) /\ IsFiniteSet(HeldRows(rs))
  BY <1>4, <1>5, FS_Subset
<1>7. Cardinality(PendingRows(rs)) \in Nat /\ Cardinality(HeldRows(rs)) \in Nat
  BY <1>6, FS_CardinalityType
<1>8. \A s, i : <<s, i>> \in PendingRows(rs) <=>
        /\ s \in DOMAIN rs /\ i \in 1..Len(rs[s].deliveries)
        /\ rs[s].deliveries[i].state = "pending"
  BY <1>2 DEF PendingRows
<1>9. \A s, i : <<s, i>> \in HeldRows(rs) <=>
        /\ s \in DOMAIN rs /\ i \in 1..Len(rs[s].deliveries)
        /\ Retains(rs[s], rs[s].deliveries[i])
  BY <1>2 DEF HeldRows
<1>. QED  BY <1>1, <1>2, <1>3, <1>5, <1>6, <1>7, <1>8, <1>9

(* What the row sets contain of one receipt.                               *)
LEMMA RowAt ==
  ASSUME NEW rs \in Seq(Receipt), Bounded(rs), NEW s \in DOMAIN rs, NEW i
  PROVE  /\ <<s, i>> \in PendingRows(rs) <=>
              i \in 1..Len(rs[s].deliveries) /\ rs[s].deliveries[i].state = "pending"
         /\ <<s, i>> \in HeldRows(rs) <=>
              i \in 1..Len(rs[s].deliveries) /\ Retains(rs[s], rs[s].deliveries[i])
<1>1. <<s, i>> \in PendingRows(rs) <=>
        i \in 1..Len(rs[s].deliveries) /\ rs[s].deliveries[i].state = "pending"
  BY RowsRead
<1>2. <<s, i>> \in HeldRows(rs) <=>
        i \in 1..Len(rs[s].deliveries) /\ Retains(rs[s], rs[s].deliveries[i])
  BY RowsRead
<1>. QED  BY <1>1, <1>2

(* Disjoint sets add up.                                                   *)
LEMMA Disjoint ==
  ASSUME NEW A, NEW B, IsFiniteSet(A), IsFiniteSet(B), A \cap B = {}
  PROVE  /\ Cardinality(A \cup B) = Cardinality(A) + Cardinality(B)
         /\ Cardinality(A) \in Nat /\ Cardinality(B) \in Nat
<1>1. Cardinality(A) \in Nat /\ Cardinality(B) \in Nat
  BY FS_CardinalityType
<1>2. Cardinality(A \cap B) = 0
  BY FS_EmptySet
<1>3. Cardinality(A \cup B) = Cardinality(A) + Cardinality(B) - Cardinality(A \cap B)
  BY FS_Union
<1>. QED  BY <1>1, <1>2, <1>3

(* As many rows as receipts, one of each.                                  *)
LEMMA OneRowEach ==
  ASSUME NEW T, IsFiniteSet(T), NEW f \in [T -> Nat]
  PROVE  /\ IsFiniteSet({<<t, f[t]>> : t \in T})
         /\ Cardinality({<<t, f[t]>> : t \in T}) = Cardinality(T)
<1>. DEFINE R == {<<t, f[t]>> : t \in T}
            g == [t \in T |-> <<t, f[t]>>]
<1>1. g \in Bijection(T, R)
  <2>1. g \in [T -> R]
    OBVIOUS
  <2>2. \A a, b \in T : g[a] = g[b] => a = b
    OBVIOUS
  <2>3. \A r \in R : \E t \in T : g[t] = r
    OBVIOUS
  <2>. QED  BY <2>1, <2>2, <2>3 DEF Bijection, Injection, IsInjective, Surjection
<1>2. ExistsBijection(T, R)
  BY <1>1 DEF ExistsBijection
<1>. QED  BY <1>2, FS_Bijection

(* The latest deliveries of some receipts, none of them deleted, are       *)
(* neither pending nor deleted any more.                                   *)
LEMMA LatestLeave ==
  ASSUME Rows, Rows', PendingLast, DOMAIN receipts' = DOMAIN receipts,
         NEW T \in SUBSET DOMAIN receipts,
         \A t \in T :
           /\ Ordinal(t) # 0 /\ Ordinal(t)' = Ordinal(t)
           /\ \A i \in 1..Ordinal(t) :
                i # Ordinal(t) => receipts'[t].deliveries[i] = receipts[t].deliveries[i]
           /\ Last(t).state # "deleted" /\ Last(t)'.state \notin {"pending", "deleted"}
           /\ Last(t)'.kept = Last(t).kept /\ receipts'[t].payload = receipts[t].payload
           /\ receipts[t].state # "deleted" /\ receipts'[t].state # "deleted",
         \A t \in DOMAIN receipts \ T : receipts'[t] = receipts[t]
  PROVE  /\ PendingRows(receipts') = PendingRows(receipts) \ {<<t, Ordinal(t)>> : t \in T}
         /\ HeldRows(receipts') = HeldRows(receipts)
         /\ Stored' = Stored /\ PendingLast'
<1>. DEFINE gone == {<<t, Ordinal(t)>> : t \in T}
<1>0. /\ receipts \in Seq(Receipt) /\ Bounded(receipts)
      /\ receipts' \in Seq(Receipt) /\ Bounded(receipts')
  BY DEF Rows
<1>1. \A t \in DOMAIN receipts : /\ Len(receipts'[t].deliveries) = Ordinal(t)
                                 /\ Ordinal(t) \in Nat /\ Ordinal(t) = Len(receipts[t].deliveries)
  BY LastRead DEF Ordinal
<1>2. ASSUME NEW t \in DOMAIN receipts, NEW i \in 1..Ordinal(t)
      PROVE  /\ ~ (t \in T /\ i = Ordinal(t)) =>
                  receipts'[t].deliveries[i] = receipts[t].deliveries[i]
             /\ receipts'[t].payload = receipts[t].payload
  OBVIOUS
<1>3. PendingRows(receipts') = PendingRows(receipts) \ gone
  <2>1. ASSUME NEW t, NEW i
        PROVE  <<t, i>> \in PendingRows(receipts') <=> <<t, i>> \in PendingRows(receipts) \ gone
    <3>1. <<t, i>> \in gone <=> t \in T /\ i = Ordinal(t)
      OBVIOUS
    <3>2. <<t, i>> \in PendingRows(receipts') <=>
            /\ t \in DOMAIN receipts /\ i \in 1..Ordinal(t)
            /\ receipts'[t].deliveries[i].state = "pending"
      BY <1>0, <1>1, RowsRead
    <3>3. <<t, i>> \in PendingRows(receipts) <=>
            /\ t \in DOMAIN receipts /\ i \in 1..Ordinal(t)
            /\ receipts[t].deliveries[i].state = "pending"
      BY <1>0, <1>1, RowsRead
    <3>4. CASE t \in T /\ i = Ordinal(t)
      BY <3>1, <3>2, <3>4 DEF Last, Ordinal
    <3>5. CASE ~ (t \in T /\ i = Ordinal(t))
      BY <1>2, <3>1, <3>2, <3>3, <3>5
    <3>. QED  BY <3>4, <3>5
  <2>2. \A d \in PendingRows(receipts') \cup PendingRows(receipts) : d = <<d[1], d[2]>>
    BY <1>0, RowsRead
  <2>. HIDE DEF gone
  <2>. QED  BY <2>1, <2>2, PairSets
<1>4. HeldRows(receipts') = HeldRows(receipts)
  <2>1. ASSUME NEW t, NEW i
        PROVE  <<t, i>> \in HeldRows(receipts') <=> <<t, i>> \in HeldRows(receipts)
    <3>1. <<t, i>> \in HeldRows(receipts') <=>
            /\ t \in DOMAIN receipts /\ i \in 1..Ordinal(t)
            /\ Retains(receipts'[t], receipts'[t].deliveries[i])
      BY <1>0, <1>1, RowsRead
    <3>2. <<t, i>> \in HeldRows(receipts) <=>
            /\ t \in DOMAIN receipts /\ i \in 1..Ordinal(t)
            /\ Retains(receipts[t], receipts[t].deliveries[i])
      BY <1>0, <1>1, RowsRead
    <3>3. ASSUME t \in DOMAIN receipts, i \in 1..Ordinal(t)
          PROVE  Retains(receipts'[t], receipts'[t].deliveries[i])
                   <=> Retains(receipts[t], receipts[t].deliveries[i])
      <4>1. CASE t \in T /\ i = Ordinal(t)
        BY <1>2, <3>3, <4>1 DEF Retains, Last, Ordinal
      <4>2. CASE ~ (t \in T /\ i = Ordinal(t))
        BY <1>2, <3>3, <4>2 DEF Retains
      <4>. QED  BY <4>1, <4>2
    <3>. QED  BY <3>1, <3>2, <3>3
  <2>2. \A d \in HeldRows(receipts') \cup HeldRows(receipts) : d = <<d[1], d[2]>>
    BY <1>0, RowsRead
  <2>. QED  BY <2>1, <2>2, PairSets
<1>5. Stored' = Stored
  BY DEF Stored
<1>6. PendingLast'
  <2>1. ASSUME NEW t \in DOMAIN receipts, NEW i \in 1..Ordinal(t),
               receipts'[t].deliveries[i].state = "pending"
        PROVE  i = Ordinal(t) /\ receipts'[t].state = "pending"
    <3>1. ~ (t \in T /\ i = Ordinal(t))
      BY <2>1 DEF Last, Ordinal
    <3>2. receipts[t].deliveries[i].state = "pending" /\ i \in DOMAIN receipts[t].deliveries
      <4>1. DOMAIN receipts[t].deliveries = 1..Ordinal(t)
        BY LastRead, LenProperties DEF Ordinal
      <4>. QED  BY <1>2, <2>1, <3>1, <4>1
    <3>3. i = Ordinal(t) /\ receipts[t].state = "pending"
      BY <3>2 DEF PendingLast
    <3>4. t \notin T
      BY <3>1, <3>3
    <3>. QED  BY <3>3, <3>4
  <2>2. ASSUME NEW t \in DOMAIN receipts
        PROVE  /\ DOMAIN receipts'[t].deliveries = 1..Ordinal(t)
               /\ Len(receipts'[t].deliveries) = Ordinal(t)
    <3>1. receipts'[t].deliveries \in Seq(Delivery)
      BY <1>0, Reads DEF Receipt
    <3>. QED  BY <1>1, <3>1, LenProperties
  <2>. QED  BY <2>1, <2>2 DEF PendingLast, Ordinal
<1>. QED  BY <1>3, <1>4, <1>5, <1>6

-----------------------------------------------------------------------------
(* The actions.                                                            *)

(* A step that writes neither receipts nor the barrier.                    *)
LEMMA AsideStep ==
  ASSUME CInv, Rows', Ledger', UNCHANGED <<mode, receipts, blocker>>
  PROVE  CInv' /\ Inherits
<1>1. Owed' = Owed
  BY DEF Owed
<1>2. Shard'
  BY <1>1, ShardQuiet DEF CInv
<1>3. Finished'
  BY DEF CInv, Finished, Ordinal, Last
<1>4. Inherits
  <2>1. \A s \in DOMAIN receipts : Ordinal(s) \in Nat /\ Ordinal(s)' = Ordinal(s)
    BY LastRead DEF CInv, Ordinal
  <2>. QED  BY <2>1 DEF Inherits
<1>. QED  BY <1>2, <1>3, <1>4 DEF CInv

(* The ledger of a step that leaves its rows and the quota alone.          *)
LEMMA LedgerQuiet ==
  ASSUME Ledger, PendingLast', Stored' = Stored, UNCHANGED <<quota, audits>>,
         PendingRows(receipts') = PendingRows(receipts),
         HeldRows(receipts') = HeldRows(receipts)
  PROVE  Ledger'
  BY DEF Ledger, LedgerMatches

(* The same when no row is written at all.                                 *)
LEMMA LedgerUntouched ==
  ASSUME Ledger, UNCHANGED <<receipts, quota, audits>>
  PROVE  Ledger'
  BY LedgerQuiet DEF Ledger, PendingLast, Ordinal, Stored

(* Receive stores n new receipts behind the others.                        *)
LEMMA ReceiveStep ==
  ASSUME CInv, NEW n \in 1..UnitItems, Receive(n)
  PROVE  CInv' /\ Inherits
<1>. DEFINE L == Len(receipts)
            new == [i \in 1..n |-> NewReceipt]
<1>1. receipts \in Seq(Receipt) /\ L \in Nat /\ n \in Nat
  BY Reads, DeliveryAssumption DEF CInv, Rows
<1>2. NewReceipt \in Receipt /\ NewReceipt.state = "pending" /\ NewReceipt.payload
      /\ Len(NewReceipt.deliveries) = 1 /\ NewReceipt.deliveries[1].state = "pending"
  <2>1. NewDelivery(0) \in Delivery
    BY DeliveryAssumption DEF NewDelivery, Delivery, Absent, States
  <2>2. <<NewDelivery(0)>> \in Seq(Delivery)
    BY <2>1
  <2>3. NewDelivery(0).state = "pending"
    BY DEF NewDelivery
  <2>. QED  BY <2>2, <2>3, NoAge DEF NewReceipt, Receipt, States
<1>3. new \in Seq(Receipt) /\ Len(new) = n
  <2>1. new \in [1..n -> Receipt]
    BY <1>2
  <2>. HIDE DEF new
  <2>. QED  BY <1>1, <2>1, FunctionIsSeq
<1>4. receipts' = receipts \o new /\ UNCHANGED <<mode, blocker, shared, repairRevision, revisions>>
  BY DEF Receive
<1>5. new = [i \in 1..n |-> NewReceipt]
  OBVIOUS
<1>. HIDE DEF new
<1>6. /\ receipts' \in Seq(Receipt) /\ Len(receipts') = L + n
      /\ \A i \in 1..L : receipts'[i] = receipts[i]
      /\ \A i \in L+1..L+n : receipts'[i] = new[i - L]
  <2>1. /\ receipts \o new \in Seq(Receipt) /\ Len(receipts \o new) = L + n
        /\ \A i \in 1..L : (receipts \o new)[i] = receipts[i]
        /\ \A i \in L+1..L+n : (receipts \o new)[i] = new[i - L]
    BY <1>1, <1>3
  <2>. QED  BY <1>4, <2>1
<1>7. \A i \in L+1..L+n : receipts'[i] = NewReceipt
  <2>. SUFFICES ASSUME NEW i \in L+1..L+n PROVE receipts'[i] = NewReceipt
    OBVIOUS
  <2>1. i - L \in 1..n
    BY <1>1
  <2>. QED  BY <1>5, <1>6, <2>1
<1>9. DOMAIN receipts = 1..L /\ DOMAIN receipts' = 1..(L + n)
  BY <1>1, <1>6, Reads
<1>8. Rows'
  <2>1. Bounded(receipts')
    <3>1. L + n <= MaxSequence
      BY DEF Receive
    <3>2. \A s \in 1..L + n : s \in 1..L \/ s \in L+1..L+n
      BY <1>1
    <3>3. \A s \in 1..L : Len(receipts[s].deliveries) <= MaxOrdinal
      BY <1>9 DEF CInv, Rows, Bounded
    <3>4. 1 <= MaxOrdinal
      BY DeliveryAssumption
    <3>. QED  BY <1>2, <1>6, <1>7, <1>9, <3>1, <3>2, <3>3, <3>4, Zenon DEF Bounded
  <2>. QED  BY <1>4, <1>6, <2>1 DEF CInv, Rows
<1>10. DOMAIN receipts' = (1..L) \cup (L+1..L+n)
  BY <1>1, <1>9
<1>11. Owed \subseteq 1..L /\ Owed \subseteq Owed'
  <2>1. \A s \in DOMAIN receipts : s \in Owed <=> receipts[s].state \notin Settled \cup {"deleted"}
    BY <1>1, Reads DEF Owed
  <2>2. \A s \in DOMAIN receipts' :
          s \in Owed' <=> receipts'[s].state \notin Settled \cup {"deleted"}
    BY <1>6, Reads DEF Owed
  <2>. QED  BY <2>1, <2>2, <1>6, <1>9, <1>10, Reads DEF Owed, Unfinished
<1>12. Owed' \ Owed \subseteq L+1..L+n
  BY <1>6, <1>9, <1>10 DEF Owed, Unfinished, IsUnfinished
<1>13. Shard'
  <2>1. \A s \in Owed : receipts'[s] = receipts[s]
    BY <1>6, <1>11
  <2>2. ASSUME NEW t \in Owed' \ Owed
        PROVE  /\ \A s \in Owed : s < t
               /\ receipts'[t].payload /\ receipts'[t].state = "pending"
               /\ Ordinal(t)' # 0 /\ Last(t)'.state = "pending"
    <3>1. receipts'[t] = NewReceipt
      BY <1>7, <1>12
    <3>2. \A s \in Owed : s < t
      BY <1>1, <1>11, <1>12
    <3>. QED  BY <1>2, <3>1, <3>2 DEF Ordinal, Last
  <2>. QED  BY <1>4, <1>8, <1>11, <2>1, <2>2, ShardGrows DEF CInv
<1>14. Finished'
  <2>. SUFFICES ASSUME NEW s \in DOMAIN receipts', receipts'[s].state \in Settled
                PROVE  Ordinal(s)' # 0 /\ Last(s)'.state \notin {"pending", "processing"}
    BY DEF Finished
  <2>1. s \in 1..L
    BY <1>2, <1>7, <1>10 DEF Settled
  <2>2. receipts'[s] = receipts[s] /\ s \in DOMAIN receipts
    BY <1>6, <1>9, <2>1
  <2>. QED  BY <2>2 DEF CInv, Finished, Ordinal, Last
<1>15. Ledger'
  <2>. DEFINE F == L+1..L+n
              fresh == F \X {1}
  <2>1. IsFiniteSet(F) /\ Cardinality(F) = n
    <3>1. L + 1 \in Int /\ L + n \in Int /\ (L + n) - (L + 1) + 1 = n
          /\ (L + 1 > L + n => n = 0)
      BY <1>1
    <3>. QED  BY <3>1, FS_Interval
  <2>2. IsFiniteSet(fresh) /\ Cardinality(fresh) = n
    <3>1. IsFiniteSet({1}) /\ Cardinality({1}) = 1
      BY FS_Singleton
    <3>. HIDE DEF F
    <3>2. IsFiniteSet(fresh) /\ Cardinality(fresh) = Cardinality(F) * 1
      BY <2>1, <3>1, FS_Product
    <3>. QED  BY <1>1, <2>1, <3>2
  <2>3. /\ receipts \in Seq(Receipt) /\ receipts' \in Seq(Receipt)
        /\ Bounded(receipts) /\ Bounded(receipts')
    BY <1>8 DEF CInv, Rows
  <2>4. ASSUME NEW t, NEW i
        PROVE  /\ <<t, i>> \in PendingRows(receipts') <=>
                    <<t, i>> \in PendingRows(receipts) \cup fresh
               /\ <<t, i>> \in HeldRows(receipts') <=> <<t, i>> \in HeldRows(receipts) \cup fresh
    <3>1. <<t, i>> \in fresh <=> t \in F /\ i = 1
      OBVIOUS
    <3>2. CASE t \in 1..L
      <4>1. /\ receipts'[t] = receipts[t] /\ t \notin F
            /\ t \in DOMAIN receipts /\ t \in DOMAIN receipts'
        BY <1>1, <1>6, <1>9, <1>10, <3>2
      <4>2. /\ <<t, i>> \in PendingRows(receipts') <=> <<t, i>> \in PendingRows(receipts)
            /\ <<t, i>> \in HeldRows(receipts') <=> <<t, i>> \in HeldRows(receipts)
        <5>1. /\ <<t, i>> \in PendingRows(receipts) <=>
                   /\ i \in 1..Len(receipts[t].deliveries)
                   /\ receipts[t].deliveries[i].state = "pending"
              /\ <<t, i>> \in HeldRows(receipts) <=>
                   /\ i \in 1..Len(receipts[t].deliveries)
                   /\ Retains(receipts[t], receipts[t].deliveries[i])
          BY <2>3, <4>1, RowAt
        <5>2. /\ <<t, i>> \in PendingRows(receipts') <=>
                   /\ i \in 1..Len(receipts[t].deliveries)
                   /\ receipts[t].deliveries[i].state = "pending"
              /\ <<t, i>> \in HeldRows(receipts') <=>
                   /\ i \in 1..Len(receipts[t].deliveries)
                   /\ Retains(receipts[t], receipts[t].deliveries[i])
          BY <2>3, <4>1, RowAt
        <5>. QED  BY <5>1, <5>2
      <4>. QED  BY <3>1, <4>1, <4>2
    <3>3. CASE t \in F
      <4>1. receipts'[t] = NewReceipt /\ t \notin DOMAIN receipts /\ t \in DOMAIN receipts'
        BY <1>1, <1>7, <1>9, <1>10, <3>3
      <4>2. Retains(NewReceipt, NewReceipt.deliveries[1])
        BY <1>2 DEF Retains
      <4>3. <<t, i>> \notin PendingRows(receipts) /\ <<t, i>> \notin HeldRows(receipts)
        BY <1>1, <2>3, <4>1, RowsRead
      <4>4. i \in 1..1 <=> i = 1
        OBVIOUS
      <4>5. /\ <<t, i>> \in PendingRows(receipts') <=> i = 1
            /\ <<t, i>> \in HeldRows(receipts') <=> i = 1
        <5>1. <<t, i>> \in PendingRows(receipts') <=>
                i \in 1..1 /\ NewReceipt.deliveries[i].state = "pending"
          <6>1. <<t, i>> \in PendingRows(receipts') <=>
                  /\ i \in 1..Len(receipts'[t].deliveries)
                  /\ receipts'[t].deliveries[i].state = "pending"
            BY <2>3, <4>1, RowAt
          <6>. QED  BY <1>2, <4>1, <6>1
        <5>2. <<t, i>> \in HeldRows(receipts') <=>
                i \in 1..1 /\ Retains(NewReceipt, NewReceipt.deliveries[i])
          <6>1. <<t, i>> \in HeldRows(receipts') <=>
                  /\ i \in 1..Len(receipts'[t].deliveries)
                  /\ Retains(receipts'[t], receipts'[t].deliveries[i])
            BY <2>3, <4>1, RowAt
          <6>. QED  BY <1>2, <4>1, <6>1
        <5>. QED  BY <1>2, <4>2, <4>4, <5>1, <5>2
      <4>. QED  BY <3>1, <3>3, <4>3, <4>5
    <3>4. CASE t \notin DOMAIN receipts'
      <4>1. t \notin DOMAIN receipts /\ t \notin F
        BY <1>9, <1>10, <3>4
      <4>. QED  BY <1>1, <1>6, <2>3, <3>1, <3>4, <4>1, RowsRead
    <3>. QED  BY <1>10, <1>9, <3>2, <3>3, <3>4
  <2>5. \A d \in fresh : d = <<d[1], d[2]>>
    OBVIOUS
  <2>6. \A t \in F : t \notin DOMAIN receipts
    BY <1>1, <1>9
  <2>7. \A i : \A t \in F : /\ <<t, i>> \notin PendingRows(receipts)
                           /\ <<t, i>> \notin HeldRows(receipts)
    BY <1>1, <2>3, <2>6, RowsRead
  <2>8. fresh \cap PendingRows(receipts) = {} /\ fresh \cap HeldRows(receipts) = {}
    BY <2>7
  <2>. HIDE DEF fresh
  <2>9. /\ PendingRows(receipts') = PendingRows(receipts) \cup fresh
        /\ HeldRows(receipts') = HeldRows(receipts) \cup fresh
    <3>1. /\ \A d \in PendingRows(receipts') \cup PendingRows(receipts) : d = <<d[1], d[2]>>
          /\ \A d \in HeldRows(receipts') \cup HeldRows(receipts) : d = <<d[1], d[2]>>
      BY <1>1, <1>6, <2>3, RowsRead
    <3>2. PendingRows(receipts') = PendingRows(receipts) \cup fresh
      BY <2>4, <2>5, <3>1, PairSets
    <3>3. HeldRows(receipts') = HeldRows(receipts) \cup fresh
      BY <2>4, <2>5, <3>1, PairSets
    <3>. QED  BY <3>2, <3>3
  <2>10. /\ Cardinality(PendingRows(receipts')) = Cardinality(PendingRows(receipts)) + n
         /\ Cardinality(HeldRows(receipts')) = Cardinality(HeldRows(receipts)) + n
    <3>1. /\ IsFiniteSet(PendingRows(receipts)) /\ Cardinality(PendingRows(receipts)) \in Nat
          /\ IsFiniteSet(HeldRows(receipts)) /\ Cardinality(HeldRows(receipts)) \in Nat
      BY <1>1, <2>3, RowsRead
    <3>. QED  BY <2>2, <2>8, <2>9, <3>1, Disjoint
  <2>11. Cardinality(Stored') = Cardinality(Stored) + n
    <3>1. Stored' = Stored \cup F
      <4>1. NewReceipt.state # "deleted"
        BY <1>2
      <4>. QED  BY <1>6, <1>7, <1>9, <1>10, <4>1 DEF Stored
    <3>2. Stored \cap F = {}
      BY <2>6 DEF Stored
    <3>3. IsFiniteSet(Stored)
      <4>1. IsFiniteSet(DOMAIN receipts)
        BY <1>1, <2>3, RowsRead
      <4>. QED  BY <4>1, FS_Subset DEF Stored
    <3>. HIDE DEF F
    <3>. QED  BY <2>1, <3>1, <3>2, <3>3, Disjoint
  <2>12. PendingLast'
    <3>. SUFFICES ASSUME NEW t \in DOMAIN receipts', NEW i \in DOMAIN receipts'[t].deliveries,
                         receipts'[t].deliveries[i].state = "pending"
                  PROVE  i = Ordinal(t)' /\ receipts'[t].state = "pending"
      BY DEF PendingLast
    <3>1. CASE t \in F
      <4>1. receipts'[t] = NewReceipt
        BY <1>7, <3>1
      <4>2. DOMAIN NewReceipt.deliveries = {1}
        BY DEF NewReceipt
      <4>. QED  BY <1>2, <4>1, <4>2 DEF Ordinal
    <3>2. CASE t \in 1..L
      <4>1. receipts'[t] = receipts[t] /\ t \in DOMAIN receipts
        BY <1>6, <1>9, <3>2
      <4>. QED  BY <4>1 DEF CInv, Ledger, PendingLast, Ordinal
    <3>. QED  BY <1>10, <3>1, <3>2
  <2>13. /\ quota' = [pending |-> quota.pending + n, history |-> quota.history + n,
                      dedupe |-> quota.dedupe + n, paused |-> FALSE]
         /\ quota.pending + n <= PendingMax /\ quota.history + n <= HistoryMax
         /\ quota.dedupe + n <= DedupeMax /\ audits' = audits
    BY DEF Receive, Room
  <2>14. /\ quota.pending \in Int /\ quota.history \in Int /\ quota.dedupe \in Int
    BY DEF CInv, Ledger
  <2>15. Cardinality(Stored) \in Nat
    <3>1. IsFiniteSet(DOMAIN receipts)
      BY <1>1, <2>3, RowsRead
    <3>2. IsFiniteSet(Stored)
      BY <3>1, FS_Subset DEF Stored
    <3>. QED  BY <3>2, FS_CardinalityType
  <2>16. LedgerMatches'
    BY <1>1, <2>10, <2>11, <2>13, <2>14, <2>15 DEF CInv, Ledger, LedgerMatches
  <2>. QED  BY <1>1, <2>12, <2>13, <2>14, <2>16 DEF CInv, Ledger
<1>16. Inherits
  <2>1. ASSUME NEW t \in 1..L
        PROVE  /\ t \in DOMAIN receipts /\ t \in DOMAIN receipts' /\ receipts'[t] = receipts[t]
               /\ Ordinal(t)' = Ordinal(t) /\ Ordinal(t) \in Nat
    BY <1>6, <1>9, <1>10, LastRead DEF CInv, Ordinal
  <2>2. ASSUME NEW t \in L+1..L+n, NEW i \in 1..Ordinal(t)'
        PROVE  receipts'[t].deliveries[i].execution = Absent
    <3>1. receipts'[t] = NewReceipt
      BY <1>7
    <3>2. i = 1
      <4>1. Ordinal(t)' = Len(receipts'[t].deliveries)
        BY DEF Ordinal
      <4>2. Len(receipts'[t].deliveries) = 1
        BY <1>2, <3>1
      <4>3. i \in 1..1
        BY <4>1, <4>2
      <4>. QED  BY <4>3
    <3>3. NewReceipt.deliveries[1].execution = Absent
      BY DEF NewReceipt, NewDelivery
    <3>. QED  BY <3>1, <3>2, <3>3
  <2>. QED  BY <1>9, <1>10, <2>1, <2>2 DEF Inherits
<1>. QED  BY <1>8, <1>13, <1>14, <1>15, <1>16 DEF CInv

(* MemberRun is a run of pending receipts from the head on.                *)
LEMMA RunFromHead ==
  ASSUME CInv, NEW s \in Owed, IsHead(s), receipts[s].state = "pending",
         NEW taken \in SUBSET MemberRun(s), s \in taken,
         \A t \in MemberRun(s) \ taken : \A u \in taken : u < t
  PROVE  /\ taken \subseteq Owed
         /\ \A t \in taken : receipts[t].state = "pending"
         /\ mode = "single" => taken = {s}
         /\ \A u \in taken : \A t \in Owed : t < u => t \in taken
<1>0. Owed \in SUBSET Nat
  BY Reads DEF CInv, Rows, Owed
<1>. DEFINE behind == {t \in Unfinished(receipts) : t >= s}
            run == {t \in behind : \A u \in behind : u <= t => Joins(s, u)}
            few == {t \in run : Cardinality({u \in run : u < t}) < BatchMembers}
<1>1. behind = Owed
  BY <1>0 DEF IsHead, Owed
<1>2. \A u \in run : \A t \in Owed : t < u => t \in run
  <2>. SUFFICES ASSUME NEW u \in run, NEW t \in Owed, t < u,
                       NEW w \in behind, w <= t
                PROVE  Joins(s, w)
    BY <1>1
  <2>1. u \in Nat /\ t \in Nat /\ w \in Nat
    BY <1>0, <1>1
  <2>2. w <= u
    BY <2>1
  <2>. QED  BY <2>2
<1>. HIDE DEF run
<1>3. run \subseteq Owed
  BY <1>1 DEF run
<1>4. CASE mode = "single" \/ Ordinal(s) > 1
  <2>1. MemberRun(s) = {s}
    BY <1>4 DEF MemberRun
  <2>2. taken = {s}
    BY <2>1
  <2>. QED  BY <1>0, <2>2 DEF IsHead, Owed
<1>5. CASE ~ (mode = "single" \/ Ordinal(s) > 1)
  <2>1. MemberRun(s) = few
    BY <1>5 DEF MemberRun, run
  <2>2. ASSUME NEW u \in few, NEW t \in Owed, t < u PROVE t \in few
    <3>1. u \in run /\ t \in run
      BY <1>2, <2>2
    <3>. DEFINE below(v) == {w \in run : w < v}
    <3>2. below(t) \subseteq below(u)
      <4>. SUFFICES ASSUME NEW w \in run, w < t PROVE w < u
        OBVIOUS
      <4>1. w \in Nat /\ t \in Nat /\ u \in Nat
        BY <1>0, <1>3, <3>1
      <4>. QED  BY <2>2, <4>1
    <3>3. IsFiniteSet(below(u)) /\ u \in Nat
      <4>1. u \in Nat
        BY <1>0, <1>3, <3>1
      <4>2. below(u) \subseteq 0..u
        <5>. SUFFICES ASSUME NEW w \in run, w < u PROVE w \in 0..u
          OBVIOUS
        <5>1. w \in Nat
          BY <1>0, <1>3
        <5>. QED  BY <4>1, <5>1
      <4>3. IsFiniteSet(0..u)
        BY <4>1, FS_Interval
      <4>. QED  BY <4>1, <4>2, <4>3, FS_Subset
    <3>4. Cardinality(below(t)) <= Cardinality(below(u))
      BY <3>2, <3>3, FS_Subset
    <3>5. IsFiniteSet(below(t))
      BY <3>2, <3>3, FS_Subset
    <3>6. Cardinality(below(t)) \in Nat /\ Cardinality(below(u)) \in Nat
      BY <3>3, <3>5, FS_CardinalityType
    <3>7. Cardinality(below(u)) < BatchMembers /\ BatchMembers \in Nat
      BY DeliveryAssumption
    <3>8. Cardinality(below(t)) < BatchMembers
      BY <3>4, <3>6, <3>7
    <3>. QED  BY <3>1, <3>8
  <2>3. few \subseteq Owed
    BY <1>3
  <2>5. \A t \in few : receipts[t].state = "pending"
    <3>1. ASSUME NEW t \in run PROVE Joins(s, t)
      <4>1. t \in behind /\ \A u \in behind : u <= t => Joins(s, u)
        <5>. HIDE DEF behind, few
        <5>. QED  BY DEF run
      <4>2. t \in Nat
        <5>. HIDE DEF run, behind
        <5>. QED  BY <1>0, <1>1, <4>1
      <4>3. t <= t
        BY <4>2
      <4>. HIDE DEF run, behind
      <4>. QED  BY <4>1, <4>3, Zenon
    <3>2. few \subseteq run
      OBVIOUS
    <3>. HIDE DEF run
    <3>. QED  BY <3>1, <3>2 DEF Joins
  <2>. HIDE DEF few
  <2>4. ASSUME NEW u \in taken, NEW t \in Owed, t < u PROVE t \in taken
    <3>1. t \in few
      BY <2>1, <2>2, <2>4
    <3>2. t \in Nat /\ u \in Nat
      BY <1>0, <2>1, <2>3
    <3>. QED  BY <2>1, <2>4, <3>1, <3>2
  <2>. QED  BY <1>5, <2>1, <2>3, <2>4, <2>5
<1>. QED  BY <1>4, <1>5

(* A receipt in a new state whose latest delivery is rewritten.            *)
LEMMA Rewritten ==
  ASSUME Rows, NEW s \in DOMAIN receipts, Ordinal(s) # 0,
         NEW r \in Receipt, r.deliveries = receipts[s].deliveries, NEW d \in Delivery
  PROVE  /\ SetLast(r, d) \in Receipt
         /\ SetLast(r, d).state = r.state /\ SetLast(r, d).payload = r.payload
         /\ Len(SetLast(r, d).deliveries) = Ordinal(s)
         /\ SetLast(r, d).deliveries[Ordinal(s)] = d
         /\ \A i \in 1..Ordinal(s) :
              i # Ordinal(s) => SetLast(r, d).deliveries[i] = receipts[s].deliveries[i]
  BY LastReplaced DEF Ordinal

(* dispatch_delivery and materialize_batch.                                *)
LEMMA DispatchStep ==
  ASSUME CInv, NEW s \in Owed, NEW taken \in SUBSET MemberRun(s), Dispatch(s, taken)
  PROVE  CInv' /\ Binds(s, taken)
<1>. DEFINE x == <<s, Ordinal(s)>>
            moved(t) == SetLast([receipts[t] EXCEPT !.state = "processing"],
                                [Last(t) EXCEPT !.state = "processing", !.execution = x])
<1>0. Rows /\ receipts \in Seq(Receipt) /\ Owed \subseteq DOMAIN receipts
  BY Reads DEF CInv, Rows, Owed
<1>1. /\ receipts[s].state = "pending" /\ IsHead(s) /\ s \in taken /\ blocker' = s
      /\ UNCHANGED <<mode, repairRevision, revisions>>
      /\ \A t \in MemberRun(s) \ taken : \A u \in taken : u < t
      /\ receipts' = [t \in DOMAIN receipts |-> IF t \in taken THEN moved(t) ELSE receipts[t]]
      /\ shared' = [shared EXCEPT ![x] = Live]
  BY DEF Dispatch
<1>2. /\ taken \subseteq Owed
      /\ mode = "single" => taken = {s}
      /\ \A u \in taken : \A t \in Owed : t < u => t \in taken
  BY <1>1, RunFromHead
<1>3. x \in Keys
  <2>1. /\ s \in DOMAIN receipts /\ Len(receipts) \in Nat /\ DOMAIN receipts = 1..Len(receipts)
        /\ Ordinal(s) \in Nat /\ Ordinal(s) # 0
    BY <1>0, LastRead, Reads DEF CInv, Shard, Current
  <2>2. Len(receipts) <= MaxSequence /\ Ordinal(s) <= MaxOrdinal
    BY <1>0, <2>1 DEF Rows, Bounded, Ordinal
  <2>3. s \in 1..MaxSequence /\ Ordinal(s) \in 1..MaxOrdinal
    BY <2>1, <2>2, DeliveryAssumption
  <2>. QED  BY <2>3 DEF Keys
<1>4. ASSUME NEW t \in taken
      PROVE  /\ moved(t) \in Receipt /\ moved(t).state = "processing"
             /\ moved(t).payload = receipts[t].payload
             /\ Len(moved(t).deliveries) = Ordinal(t)
             /\ moved(t).deliveries[Ordinal(t)].state = "processing"
             /\ moved(t).deliveries[Ordinal(t)].execution = x
             /\ moved(t).deliveries[Ordinal(t)].kept = Last(t).kept
             /\ \A i \in 1..Ordinal(t) :
                  i # Ordinal(t) => moved(t).deliveries[i] = receipts[t].deliveries[i]
  <2>1. t \in DOMAIN receipts /\ Ordinal(t) # 0
    BY <1>0, <1>2 DEF CInv, Shard, Current
  <2>2. receipts[t] \in Receipt /\ Last(t) \in Delivery
    BY <1>0, <2>1, LastRead, Reads
  <2>. DEFINE r == [receipts[t] EXCEPT !.state = "processing"]
              d == [Last(t) EXCEPT !.state = "processing", !.execution = x]
  <2>. HIDE DEF x
  <2>3. /\ r \in Receipt /\ r.state = "processing" /\ r.payload = receipts[t].payload
        /\ r.deliveries = receipts[t].deliveries
    BY <2>2 DEF Receipt, States
  <2>4. d \in Delivery /\ d.state = "processing" /\ d.execution = x /\ d.kept = Last(t).kept
    BY <1>3, <2>2 DEF Delivery, States
  <2>5. moved(t) = SetLast(r, d)
    OBVIOUS
  <2>. HIDE DEF r, d, moved
  <2>. QED  BY <1>0, <2>1, <2>3, <2>4, <2>5, Rewritten
<1>. HIDE DEF x, moved
<1>5. receipts' \in Seq(Receipt) /\ DOMAIN receipts' = DOMAIN receipts
      /\ s \in Nat
  <2>1. \A t \in DOMAIN receipts : receipts[t] \in Receipt
    BY <1>0, Reads
  <2>2. /\ DOMAIN receipts = 1..Len(receipts) /\ Len(receipts) \in Nat
        /\ receipts' \in [1..Len(receipts) -> Receipt]
    BY <1>0, <1>1, <1>4, <2>1, Reads
  <2>3. s \in Nat
    BY <1>0, Reads
  <2>. QED  BY <2>2, <2>3, FunctionIsSeq
<1>6. Rows'
  <2>1. shared' \in [Keys -> Int]
    <3>1. shared \in [Keys -> Int] /\ Live \in Int /\ shared' = [shared EXCEPT ![x] = Live]
      BY <1>0, <1>1 DEF Rows, Live
    <3>. QED  BY <3>1
  <2>2. Bounded(receipts')
    <3>1. \A t \in DOMAIN receipts : Len(receipts'[t].deliveries) = Len(receipts[t].deliveries)
      BY <1>1, <1>4 DEF Ordinal
    <3>2. \A t \in DOMAIN receipts : Len(receipts[t].deliveries) \in Nat
      BY <1>0, LastRead DEF Ordinal
    <3>. QED  BY <1>0, <1>5, <3>1, <3>2, StaysBounded DEF Rows
  <2>. QED  BY <1>0, <1>1, <1>5, <2>1, <2>2, Zenon DEF Rows
<1>7. /\ \A t \in taken : receipts'[t] = moved(t)
      /\ \A t \in DOMAIN receipts \ taken : receipts'[t] = receipts[t]
  BY <1>0, <1>1, <1>2
<1>8. Owed' = Owed
  BY <1>0, <1>2, <1>4, <1>5, <1>7 DEF Owed, Unfinished, IsUnfinished, Settled
<1>9. \A t \in taken : /\ receipts'[t].state = "processing"
                       /\ receipts'[t].payload = receipts[t].payload
                       /\ Ordinal(t)' = Ordinal(t)
                       /\ Last(t)'.state = "processing"
                       /\ Last(t)'.execution = x
  BY <1>4, <1>7 DEF Ordinal, Last
<1>10. mode = "single" => taken = {s} /\ x[1] = s
  BY <1>2 DEF x
<1>11. Shard'
  <2>1. \A t \in Owed \ taken : receipts'[t] = receipts[t]
    BY <1>0, <1>7
  <2>2. mode' = mode
    BY <1>1
  <2>. QED  BY <1>0, <1>1, <1>2, <1>6, <1>8, <1>9, <1>10, <2>1, <2>2, ShardDispatches, Zenon DEF CInv
<1>12. Finished'
  <2>. SUFFICES ASSUME NEW t \in DOMAIN receipts, receipts'[t].state \in Settled
                PROVE  Ordinal(t)' # 0 /\ Last(t)'.state \notin {"pending", "processing"}
    BY <1>5 DEF Finished
  <2>1. t \notin taken
    BY <1>9 DEF Settled
  <2>2. receipts'[t] = receipts[t]
    BY <1>7, <2>1
  <2>. QED  BY <2>2 DEF CInv, Finished, Ordinal, Last
<1>13. Ledger'
  <2>. DEFINE gone == {<<t, Ordinal(t)>> : t \in taken}
  <2>0. PendingLast /\ Ledger /\ taken \in SUBSET DOMAIN receipts
    BY <1>0, <1>2 DEF CInv, Ledger
  <2>1. \A t \in taken : Last(t).state = "pending" /\ Ordinal(t) # 0
    BY <1>1, <1>2, RunFromHead DEF CInv, Shard, Current
  <2>2. /\ PendingRows(receipts') = PendingRows(receipts) \ gone
        /\ HeldRows(receipts') = HeldRows(receipts) /\ Stored' = Stored /\ PendingLast'
    <3>1. ASSUME NEW t \in taken
          PROVE  /\ \A i \in 1..Ordinal(t) :
                      i # Ordinal(t) => receipts'[t].deliveries[i] = receipts[t].deliveries[i]
                 /\ Last(t)'.kept = Last(t).kept /\ receipts[t].state # "deleted"
      BY <1>2, <1>4, <1>7, RunFromHead, <1>1 DEF Last, Ordinal
    <3>. QED  BY <1>0, <1>5, <1>6, <1>7, <1>9, <2>0, <2>1, <3>1, LatestLeave
  <2>3. gone \subseteq PendingRows(receipts)
    <3>. SUFFICES ASSUME NEW t \in taken PROVE <<t, Ordinal(t)>> \in PendingRows(receipts)
      OBVIOUS
    <3>1. t \in DOMAIN receipts /\ Ordinal(t) \in 1..Len(receipts[t].deliveries)
      BY <2>0, <2>1, LastRead, <1>0 DEF Ordinal
    <3>. QED  BY <1>0, <2>1, <3>1, RowsRead DEF Rows, Last, Ordinal
  <2>4. IsFiniteSet(PendingRows(receipts)) /\ IsFiniteSet(taken)
    <3>1. IsFiniteSet(DOMAIN receipts)
      BY <1>0, RowsRead DEF Rows
    <3>. QED  BY <1>0, <2>0, <3>1, RowsRead, FS_Subset DEF Rows
  <2>5. IsFiniteSet(gone) /\ Cardinality(gone) = Cardinality(taken)
    <3>. DEFINE f == [t \in taken |-> Ordinal(t)]
    <3>1. f \in [taken -> Nat]
      BY <1>0, <2>0, LastRead
    <3>2. gone = {<<t, f[t]>> : t \in taken}
      OBVIOUS
    <3>. HIDE DEF f
    <3>. QED  BY <2>4, <3>1, <3>2, OneRowEach
  <2>. HIDE DEF gone
  <2>6. Cardinality(PendingRows(receipts)) =
          Cardinality(PendingRows(receipts')) + Cardinality(taken)
        /\ Cardinality(taken) \in Nat /\ Cardinality(PendingRows(receipts')) \in Nat
    <3>1. /\ PendingRows(receipts) = PendingRows(receipts') \cup gone
          /\ PendingRows(receipts') \cap gone = {}
      BY <2>2, <2>3
    <3>2. IsFiniteSet(PendingRows(receipts'))
      BY <2>2, <2>4, FS_Subset
    <3>. QED  BY <2>5, <3>1, <3>2, Disjoint
  <2>7. quota' = [quota EXCEPT !.pending = quota.pending - Cardinality(taken)] /\ audits' = audits
    BY DEF Dispatch
  <2>8. LedgerMatches'
    BY <2>0, <2>2, <2>6, <2>7 DEF Ledger, LedgerMatches
  <2>9. quota.pending - Cardinality(taken) \in Int
        /\ quota.pending - Cardinality(taken) <= PendingMax
    BY <2>0, <2>6, DeliveryAssumption DEF Ledger
  <2>10. /\ quota' \in [pending : Int, history : Int, dedupe : Int, paused : BOOLEAN]
         /\ quota'.pending <= PendingMax
         /\ quota'.history = quota.history /\ quota'.dedupe = quota.dedupe
    BY <2>0, <2>7, <2>9 DEF Ledger
  <2>. QED  BY <2>0, <2>2, <2>7, <2>8, <2>10 DEF Ledger
<1>14. Binds(s, taken)
  <2>1. taken \subseteq DOMAIN receipts /\ DOMAIN receipts' = DOMAIN receipts
    BY <1>0, <1>2, <1>5
  <2>2. ASSUME NEW t \in taken
        PROVE  /\ receipts'[t].deliveries[Ordinal(t)].state = "processing"
               /\ receipts'[t].deliveries[Ordinal(t)].execution = x
               /\ \A i \in 1..Ordinal(t) :
                    i # Ordinal(t) => receipts'[t].deliveries[i] = receipts[t].deliveries[i]
    BY <1>4, <1>7
  <2>. QED  BY <1>1, <1>3, <1>7, <1>9, <2>1, <2>2 DEF x, Binds
<1>. QED  BY <1>6, <1>11, <1>12, <1>13, <1>14 DEF CInv

(* observe_terminal and settle_batch.                                      *)
LEMMA ObserveStep ==
  ASSUME CInv, NEW x \in DOMAIN shared, ObserveTerminal(x)
  PROVE  CInv' /\ Inherits
<1>. DEFINE members == {s \in Members(x) : Last(s).execution = x
                                           /\ Last(s).state = "processing"}
            succeeded(s) == Cardinality({t \in members : t < s}) < shared[x]
            outcome(s) == IF succeeded(s) THEN "succeeded" ELSE "failed"
            moved(t) == SetLast([receipts[t] EXCEPT !.state = outcome(t), !.age = 0],
                                [Last(t) EXCEPT !.state = outcome(t)])
<1>0. Rows /\ receipts \in Seq(Receipt) /\ Owed \subseteq DOMAIN receipts
  BY Reads DEF CInv, Rows, Owed
<1>1. /\ members # {}
      /\ blocker' = IF mode = "business_batch" THEN RecomputeBlocker(receipts')
                    ELSE IF shared[x] > 0 THEN 0 ELSE x[1]
      /\ UNCHANGED <<mode, repairRevision, revisions>>
      /\ receipts' = [t \in DOMAIN receipts |-> IF t \in members THEN moved(t) ELSE receipts[t]]
      /\ shared' = [shared EXCEPT ![x] = 0]
  BY DEF ObserveTerminal
<1>2. members = {s \in Owed : /\ receipts[s].state = "processing"
                              /\ Last(s).execution = x}
  <2>1. ASSUME NEW s \in members
        PROVE  s \in Owed /\ receipts[s].state = "processing" /\ Last(s).execution = x
    <3>1. /\ s \in DOMAIN receipts /\ receipts[s].state # "deleted"
          /\ Last(s).execution = x /\ Last(s).state = "processing"
      BY DEF Members, Stored
    <3>2. receipts[s].state \notin Settled
      BY <3>1 DEF CInv, Finished
    <3>3. s \in Owed
      BY <3>1, <3>2 DEF Owed, Unfinished, IsUnfinished
    <3>. QED  BY <3>1, <3>3 DEF CInv, Shard, Current
  <2>2. ASSUME NEW s \in Owed, receipts[s].state = "processing", Last(s).execution = x
        PROVE  s \in members
    <3>1. /\ s \in DOMAIN receipts /\ Ordinal(s) # 0 /\ Last(s).state = "processing"
      BY <1>0, <2>2 DEF CInv, Shard, Current
    <3>2. Ordinal(s) \in DOMAIN receipts[s].deliveries
      <4>1. receipts[s].deliveries \in Seq(Delivery) /\ Ordinal(s) \in Nat
        BY <1>0, <3>1, LastRead
      <4>2. DOMAIN receipts[s].deliveries = 1..Ordinal(s)
        BY <4>1, LenProperties DEF Ordinal
      <4>. QED  BY <3>1, <4>1, <4>2
    <3>3. s \in Members(x)
      <4>1. s \in Stored
        BY <2>2, <3>1 DEF Stored
      <4>2. receipts[s].deliveries[Ordinal(s)].execution = x
        BY <2>2 DEF Last, Ordinal
      <4>. QED  BY <3>2, <4>1, <4>2 DEF Members
    <3>. QED  BY <2>2, <3>1, <3>3
  <2>. HIDE DEF members
  <2>. QED  BY <2>1, <2>2
<1>3. \A t : outcome(t) \in {"failed", "succeeded"}
  OBVIOUS
<1>4. mode = "single" =>
        \A s \in members : /\ s = x[1]
                           /\ outcome(s) = "succeeded" <=> shared[x] > 0
  <2>. SUFFICES ASSUME mode = "single", NEW s \in members
                PROVE  /\ s = x[1]
                       /\ outcome(s) = "succeeded" <=> shared[x] > 0
    OBVIOUS
  <2>1. \A t \in members : t = x[1] /\ t \in Nat
    <3>. HIDE DEF members
    <3>. QED  BY <1>0, <1>2, Reads DEF CInv, Shard, Alone
  <2>. HIDE DEF members
  <2>2. {t \in members : t < s} = {}
    BY <2>1
  <2>3. Cardinality({t \in members : t < s}) = 0
    BY <2>2, FS_EmptySet
  <2>4. succeeded(s) <=> shared[x] > 0
    <3>1. shared[x] \in Int
      BY <1>0 DEF Rows
    <3>. QED  BY <2>3, <3>1
  <2>. QED  BY <2>1, <2>4
<1>. HIDE DEF members, outcome
<1>5. ASSUME NEW t \in members
      PROVE  /\ moved(t) \in Receipt /\ moved(t).state = outcome(t)
             /\ moved(t).payload = receipts[t].payload
             /\ Len(moved(t).deliveries) = Ordinal(t)
             /\ moved(t).deliveries[Ordinal(t)].state = outcome(t)
             /\ moved(t).deliveries[Ordinal(t)].kept = Last(t).kept
             /\ moved(t).deliveries[Ordinal(t)].execution = Last(t).execution
             /\ \A i \in 1..Ordinal(t) :
                  i # Ordinal(t) => moved(t).deliveries[i] = receipts[t].deliveries[i]
  <2>1. t \in DOMAIN receipts /\ Ordinal(t) # 0
    BY <1>0, <1>2 DEF CInv, Shard, Current
  <2>2. receipts[t] \in Receipt /\ Last(t) \in Delivery
    BY <1>0, <2>1, LastRead, Reads
  <2>. DEFINE o == outcome(t)
              r == [receipts[t] EXCEPT !.state = o, !.age = 0]
              d == [Last(t) EXCEPT !.state = o]
  <2>3. o \in States
    BY <1>3 DEF States
  <2>6. moved(t) = SetLast(r, d)
    OBVIOUS
  <2>7. o = outcome(t)
    OBVIOUS
  <2>. HIDE DEF o
  <2>4. /\ r \in Receipt /\ r.state = o /\ r.payload = receipts[t].payload
        /\ r.deliveries = receipts[t].deliveries
    BY <2>2, <2>3, NoAge DEF Receipt
  <2>5. d \in Delivery /\ d.state = o /\ d.kept = Last(t).kept
        /\ d.execution = Last(t).execution
    BY <2>2, <2>3 DEF Delivery
  <2>. HIDE DEF r, d, moved
  <2>. QED  BY <1>0, <2>1, <2>4, <2>5, <2>6, <2>7, Rewritten
<1>. HIDE DEF moved
<1>6. receipts' \in Seq(Receipt) /\ DOMAIN receipts' = DOMAIN receipts
  <2>1. \A t \in DOMAIN receipts : receipts[t] \in Receipt
    BY <1>0, Reads
  <2>2. /\ DOMAIN receipts = 1..Len(receipts) /\ Len(receipts) \in Nat
        /\ receipts' \in [1..Len(receipts) -> Receipt]
    BY <1>0, <1>1, <1>5, <2>1, Reads
  <2>. QED  BY <2>2, FunctionIsSeq
<1>7. blocker' \in Nat
  <2>1. x \in Keys
    BY <1>0 DEF Rows
  <2>2. x[1] \in Nat
    BY <2>1, DeliveryAssumption DEF Keys
  <2>3. RecomputeBlocker(receipts') \in Nat
    BY <1>6, Recomputed
  <2>. QED  BY <1>1, <2>2, <2>3
<1>8. Rows'
  <2>1. shared' \in [Keys -> Int]
    BY <1>0, <1>1 DEF Rows
  <2>2. Bounded(receipts')
    <3>1. \A t \in DOMAIN receipts : Len(receipts'[t].deliveries) = Len(receipts[t].deliveries)
      BY <1>1, <1>5 DEF Ordinal
    <3>2. \A t \in DOMAIN receipts : Len(receipts[t].deliveries) \in Nat
      BY <1>0, LastRead DEF Ordinal
    <3>. QED  BY <1>0, <1>6, <3>1, <3>2, StaysBounded DEF Rows
  <2>. QED  BY <1>0, <1>1, <1>6, <1>7, <2>1, <2>2, Zenon DEF Rows
<1>9. /\ \A t \in members : receipts'[t] = moved(t)
      /\ \A t \in DOMAIN receipts \ members : receipts'[t] = receipts[t]
  BY <1>0, <1>1, <1>2
<1>10. \A t \in members : /\ receipts'[t].state = outcome(t)
                          /\ receipts'[t].state \in {"failed", "succeeded"}
                          /\ receipts'[t].payload = receipts[t].payload
                          /\ Ordinal(t)' = Ordinal(t)
                          /\ Last(t)'.state = receipts'[t].state
  BY <1>3, <1>5, <1>9 DEF Ordinal, Last
<1>11. Owed' = {s \in Owed : s \in members => receipts'[s].state = "failed"}
  <2>1. members \subseteq Owed
    BY <1>2
  <2>. QED  BY <1>6, <1>9, <1>10, <2>1 DEF Owed, Unfinished, IsUnfinished, Settled
<1>12. Shard'
  <2>1. \A t \in Owed \ members : receipts'[t] = receipts[t]
    BY <1>0, <1>9
  <2>2. mode' = mode /\ (mode = "business_batch" => blocker' = RecomputeBlocker(receipts'))
    BY <1>1
  <2>3. mode = "single" =>
          \A s \in members : blocker' = IF receipts'[s].state = "succeeded" THEN 0 ELSE s
    BY <1>1, <1>4, <1>10
  <2>4. Shard /\ members # {}
    BY <1>1 DEF CInv
  <2>5. \A t \in members : /\ receipts'[t].state \in {"failed", "succeeded"}
                          /\ receipts'[t].payload = receipts[t].payload
                          /\ Ordinal(t)' = Ordinal(t)
                          /\ Last(t)'.state = receipts'[t].state
    BY <1>10
  <2>6. \A s : s \in members <=> /\ s \in Owed /\ receipts[s].state = "processing"
                                 /\ Last(s).execution = x
    BY <1>2
  <2>7. \A s : s \in Owed' <=> /\ s \in Owed
                               /\ s \in members => receipts'[s].state = "failed"
    BY <1>11
  <2>. QED  BY <1>0, <1>8, <2>1, <2>2, <2>3, <2>4, <2>5, <2>6, <2>7, ShardObserves, Zenon
<1>13. Finished'
  <2>. SUFFICES ASSUME NEW t \in DOMAIN receipts, receipts'[t].state \in Settled
                PROVE  Ordinal(t)' # 0 /\ Last(t)'.state \notin {"pending", "processing"}
    BY <1>6 DEF Finished
  <2>1. CASE t \in members
    <3>1. Ordinal(t) # 0
      BY <1>2, <2>1 DEF CInv, Shard, Current
    <3>. QED  BY <1>10, <2>1, <3>1
  <2>2. CASE t \notin members
    <3>1. receipts'[t] = receipts[t]
      BY <1>9, <2>2
    <3>. QED  BY <3>1 DEF CInv, Finished, Ordinal, Last
  <2>. QED  BY <2>1, <2>2
<1>14. Ledger'
  <2>. DEFINE done == {<<t, Ordinal(t)>> : t \in members}
  <2>0. PendingLast /\ Ledger /\ members \in SUBSET DOMAIN receipts
    BY <1>0, <1>2 DEF CInv, Ledger
  <2>1. \A t \in members : Last(t).state = "processing" /\ Ordinal(t) # 0
    BY <1>2 DEF CInv, Shard, Current
  <2>2. /\ PendingRows(receipts') = PendingRows(receipts) \ done
        /\ HeldRows(receipts') = HeldRows(receipts) /\ Stored' = Stored /\ PendingLast'
    <3>1. ASSUME NEW t \in members
          PROVE  /\ \A i \in 1..Ordinal(t) :
                      i # Ordinal(t) => receipts'[t].deliveries[i] = receipts[t].deliveries[i]
                 /\ Last(t)'.kept = Last(t).kept /\ receipts[t].state # "deleted"
      BY <1>2, <1>5, <1>9 DEF Last, Ordinal
    <3>. QED  BY <1>0, <1>6, <1>8, <1>9, <1>10, <2>0, <2>1, <3>1, LatestLeave, Zenon
  <2>3. PendingRows(receipts) \cap done = {}
    <3>. SUFFICES ASSUME NEW t \in members PROVE <<t, Ordinal(t)>> \notin PendingRows(receipts)
      OBVIOUS
    <3>. QED  BY <1>0, <2>0, <2>1, RowsRead DEF Rows, Last, Ordinal
  <2>4. PendingRows(receipts') = PendingRows(receipts)
    BY <2>2, <2>3
  <2>5. UNCHANGED <<quota, audits>>
    BY DEF ObserveTerminal
  <2>. QED  BY <2>0, <2>2, <2>4, <2>5, LedgerQuiet
<1>15. Inherits
  <2>1. ASSUME NEW t \in members
        PROVE  /\ Ordinal(t)' = Ordinal(t) /\ receipts[t].state # "deleted"
               /\ \A i \in 1..Ordinal(t) :
                    /\ receipts[t].deliveries[i].state # "pending" =>
                         receipts'[t].deliveries[i].state # "pending"
                    /\ receipts'[t].deliveries[i].execution = receipts[t].deliveries[i].execution
    BY <1>2, <1>3, <1>5, <1>9, <1>10 DEF Last, Ordinal
  <2>2. \A t \in DOMAIN receipts \ members : Ordinal(t)' = Ordinal(t)
    BY <1>9 DEF Ordinal
  <2>3. \A t \in DOMAIN receipts : Ordinal(t) \in Nat
    BY <1>0, LastRead
  <2>. QED  BY <1>6, <1>9, <2>1, <2>2, <2>3 DEF Inherits
<1>. QED  BY <1>8, <1>12, <1>13, <1>14, <1>15 DEF CInv

(* replay_event.                                                           *)
LEMMA ReplayStep ==
  ASSUME CInv, NEW s \in DOMAIN receipts, NEW revision \in {0, repairRevision},
         Replay(s, revision)
  PROVE  CInv' /\ Inherits
<1>. DEFINE d == NewDelivery(revision)
            r == [receipts[s] EXCEPT !.deliveries = Append(receipts[s].deliveries, d),
                                     !.state = "pending", !.age = 0]
<1>0. /\ Rows /\ receipts \in Seq(Receipt) /\ Owed \subseteq DOMAIN receipts
      /\ s \in Nat \ {0} /\ receipts[s] \in Receipt
  BY Reads DEF CInv, Rows, Owed
<1>1. /\ s \in Stored /\ receipts[s].payload /\ Last(s).state \notin {"pending", "processing"}
      /\ blocker = s \/ Owed = {}
      /\ UNCHANGED <<mode, blocker, shared, repairRevision, revisions>>
  BY DEF Replay, ReplayPayload, Owed
<1>2. d \in Delivery /\ d.state = "pending"
  <2>1. revision \in 0..MaxRevisions
    BY <1>0, DeliveryAssumption DEF Rows
  <2>. QED  BY <2>1 DEF NewDelivery, Delivery, Absent, States
<1>3. receipts' = [receipts EXCEPT ![s] = r]
  BY DEF Replay
<1>4. /\ receipts[s].deliveries \in Seq(Delivery) /\ Ordinal(s) \in Nat
  BY <1>0, LastRead
<1>5. /\ Append(receipts[s].deliveries, d) \in Seq(Delivery)
      /\ Len(Append(receipts[s].deliveries, d)) = Ordinal(s) + 1
      /\ Append(receipts[s].deliveries, d)[Ordinal(s) + 1] = d
  <2>. HIDE DEF d
  <2>. QED  BY <1>2, <1>4 DEF Ordinal
<1>6. /\ r \in Receipt /\ r.state = "pending" /\ r.payload = receipts[s].payload
      /\ r.deliveries = Append(receipts[s].deliveries, d)
  <2>. DEFINE ds == Append(receipts[s].deliveries, d)
  <2>. HIDE DEF ds
  <2>1. ds \in Seq(Delivery)
    BY <1>5 DEF ds
  <2>2. r = [receipts[s] EXCEPT !.deliveries = ds, !.state = "pending", !.age = 0]
    BY DEF ds
  <2>3. /\ [receipts[s] EXCEPT !.deliveries = ds, !.state = "pending", !.age = 0] \in Receipt
        /\ [receipts[s] EXCEPT !.deliveries = ds, !.state = "pending", !.age = 0].state = "pending"
        /\ [receipts[s] EXCEPT !.deliveries = ds, !.state = "pending", !.age = 0].payload
             = receipts[s].payload
        /\ [receipts[s] EXCEPT !.deliveries = ds, !.state = "pending", !.age = 0].deliveries = ds
    BY <1>0, <2>1, NoAge DEF Receipt, States
  <2>. HIDE DEF r
  <2>. QED  BY <2>2, <2>3 DEF ds
<1>. HIDE DEF d, r
<1>7. /\ receipts' \in Seq(Receipt) /\ DOMAIN receipts' = DOMAIN receipts
      /\ receipts'[s] = r
      /\ \A t \in DOMAIN receipts \ {s} : receipts'[t] = receipts[t]
  <2>1. receipts' \in Seq(Receipt)
    <3>1. /\ Len(receipts) \in Nat /\ DOMAIN receipts = 1..Len(receipts)
          /\ receipts \in [1..Len(receipts) -> Receipt]
      BY <1>0, Reads
    <3>2. receipts' \in [1..Len(receipts) -> Receipt]
      BY <1>3, <1>6, <3>1
    <3>. QED  BY <3>1, <3>2, FunctionIsSeq
  <2>. QED  BY <1>3, <2>1
<1>8. Rows'
  <2>1. Bounded(receipts')
    <3>1. Ordinal(s) + 1 <= MaxOrdinal
      BY <1>4, DeliveryAssumption DEF Replay
    <3>2. Len(receipts'[s].deliveries) <= MaxOrdinal
      BY <1>5, <1>6, <1>7, <3>1
    <3>3. \A t \in DOMAIN receipts' : Len(receipts'[t].deliveries) <= MaxOrdinal
      BY <1>0, <1>7, <3>2 DEF Rows, Bounded
    <3>4. Len(receipts') = Len(receipts)
      BY <1>0, <1>7, LenProperties
    <3>. QED  BY <1>0, <3>3, <3>4 DEF Rows, Bounded
  <2>. QED  BY <1>0, <1>1, <1>7, <2>1, Zenon DEF Rows
<1>9. Owed' = Owed \cup {s}
  BY <1>6, <1>7 DEF Owed, Unfinished, IsUnfinished, Settled
<1>10. Ordinal(s)' = Ordinal(s) + 1 /\ Last(s)' = d
  BY <1>5, <1>6, <1>7 DEF Ordinal, Last
<1>11. Shard'
  <2>1. s \in Owed => receipts[s].state = "failed"
    <3>. SUFFICES ASSUME s \in Owed PROVE receipts[s].state = "failed"
      OBVIOUS
    <3>1. receipts[s].state \in {"pending", "processing", "failed"}
      BY <1>0, Reads DEF Owed
    <3>2. Last(s).state = receipts[s].state
      BY DEF CInv, Shard, Current
    <3>. QED  BY <1>1, <3>1, <3>2
  <2>2. \A t \in Owed \ {s} : receipts'[t] = receipts[t]
    BY <1>0, <1>7
  <2>3. /\ receipts'[s].state = "pending" /\ receipts'[s].payload
        /\ Ordinal(s)' # 0 /\ Last(s)'.state = "pending"
    <3>1. receipts'[s].state = "pending" /\ receipts'[s].payload = receipts[s].payload
      BY <1>6, <1>7
    <3>2. Ordinal(s)' # 0 /\ Last(s)'.state = "pending"
      BY <1>2, <1>4, <1>10
    <3>. QED  BY <1>1, <3>1, <3>2, Zenon
  <2>4. mode' = mode /\ blocker' = blocker /\ Shard
    BY <1>1 DEF CInv
  <2>5. blocker = s \/ Owed = {}
    BY <1>1
  <2>. QED  BY <1>0, <1>8, <1>9, <2>1, <2>2, <2>3, <2>4, <2>5, ShardReplays
<1>12. Finished'
  <2>. SUFFICES ASSUME NEW t \in DOMAIN receipts, receipts'[t].state \in Settled
                PROVE  Ordinal(t)' # 0 /\ Last(t)'.state \notin {"pending", "processing"}
    BY <1>7 DEF Finished
  <2>1. t # s
    BY <1>6, <1>7 DEF Settled
  <2>2. receipts'[t] = receipts[t]
    BY <1>7, <2>1
  <2>. QED  BY <2>2 DEF CInv, Finished, Ordinal, Last
<1>13. Ledger'
  <2>. DEFINE row == <<s, Ordinal(s) + 1>>
  <2>0. /\ PendingLast /\ Ledger /\ Bounded(receipts) /\ Bounded(receipts')
        /\ Len(receipts[s].deliveries) = Ordinal(s)
    BY <1>0, <1>8 DEF CInv, Ledger, Rows, Ordinal
  <2>1. /\ Len(receipts'[s].deliveries) = Ordinal(s) + 1
        /\ receipts'[s].deliveries[Ordinal(s) + 1] = d
        /\ \A i \in 1..Ordinal(s) : receipts'[s].deliveries[i] = receipts[s].deliveries[i]
        /\ receipts'[s].payload = receipts[s].payload
    BY <1>4, <1>5, <1>6, <1>7 DEF Ordinal
  <2>2. d.kept /\ d.state = "pending"
    BY DEF d, NewDelivery
  <2>3. ASSUME NEW t, NEW i
        PROVE  /\ <<t, i>> \in PendingRows(receipts') <=>
                    <<t, i>> \in PendingRows(receipts) \cup {row}
               /\ <<t, i>> \in HeldRows(receipts') <=> <<t, i>> \in HeldRows(receipts) \cup {row}
    <3>1. /\ <<t, i>> \in PendingRows(receipts) <=>
               /\ t \in DOMAIN receipts /\ i \in 1..Len(receipts[t].deliveries)
               /\ receipts[t].deliveries[i].state = "pending"
          /\ <<t, i>> \in HeldRows(receipts) <=>
               /\ t \in DOMAIN receipts /\ i \in 1..Len(receipts[t].deliveries)
               /\ Retains(receipts[t], receipts[t].deliveries[i])
      BY <1>0, <2>0, RowsRead
    <3>2. /\ <<t, i>> \in PendingRows(receipts') <=>
               /\ t \in DOMAIN receipts /\ i \in 1..Len(receipts'[t].deliveries)
               /\ receipts'[t].deliveries[i].state = "pending"
          /\ <<t, i>> \in HeldRows(receipts') <=>
               /\ t \in DOMAIN receipts /\ i \in 1..Len(receipts'[t].deliveries)
               /\ Retains(receipts'[t], receipts'[t].deliveries[i])
      BY <1>7, <2>0, RowsRead
    <3>3. <<t, i>> = row <=> t = s /\ i = Ordinal(s) + 1
      OBVIOUS
    <3>4. CASE t # s
      <4>1. t \in DOMAIN receipts => receipts'[t] = receipts[t]
        BY <1>7, <3>4
      <4>. QED  BY <3>1, <3>2, <3>3, <3>4, <4>1
    <3>5. CASE t = s /\ i = Ordinal(s) + 1
      <4>1. i \in 1..Len(receipts'[s].deliveries)
        BY <1>4, <2>1, <3>5
      <4>2. Retains(receipts'[s], d)
        BY <2>2 DEF Retains
      <4>. QED  BY <1>7, <2>1, <2>2, <3>2, <3>3, <3>5, <4>1, <4>2
    <3>6. CASE t = s /\ i # Ordinal(s) + 1
      <4>1. i \in 1..Len(receipts'[s].deliveries) <=> i \in 1..Len(receipts[s].deliveries)
        BY <1>4, <2>0, <2>1, <3>6
      <4>2. i \in 1..Ordinal(s) =>
              Retains(receipts'[s], receipts'[s].deliveries[i])
                <=> Retains(receipts[s], receipts[s].deliveries[i])
        BY <2>1 DEF Retains
      <4>. QED  BY <2>0, <2>1, <3>1, <3>2, <3>3, <3>6, <4>1, <4>2
    <3>. QED  BY <3>4, <3>5, <3>6
  <2>4. row \notin PendingRows(receipts) /\ row \notin HeldRows(receipts)
    <3>1. Ordinal(s) + 1 \notin 1..Len(receipts[s].deliveries)
      BY <1>4, <2>0
    <3>. QED  BY <1>0, <2>0, <3>1, RowsRead
  <2>5. row = <<row[1], row[2]>>
    OBVIOUS
  <2>. HIDE DEF row
  <2>6. /\ PendingRows(receipts') = PendingRows(receipts) \cup {row}
        /\ HeldRows(receipts') = HeldRows(receipts) \cup {row}
    <3>1. /\ \A e \in PendingRows(receipts') \cup PendingRows(receipts) : e = <<e[1], e[2]>>
          /\ \A e \in HeldRows(receipts') \cup HeldRows(receipts) : e = <<e[1], e[2]>>
      BY <1>0, <1>7, <2>0, RowsRead
    <3>2. PendingRows(receipts') = PendingRows(receipts) \cup {row}
      BY <2>3, <2>5, <3>1, PairSets
    <3>3. HeldRows(receipts') = HeldRows(receipts) \cup {row}
      BY <2>3, <2>5, <3>1, PairSets
    <3>. QED  BY <3>2, <3>3
  <2>7. /\ Cardinality(PendingRows(receipts')) = Cardinality(PendingRows(receipts)) + 1
        /\ Cardinality(HeldRows(receipts')) = Cardinality(HeldRows(receipts)) + 1
    <3>1. IsFiniteSet(PendingRows(receipts)) /\ IsFiniteSet(HeldRows(receipts))
      BY <1>0, <2>0, RowsRead
    <3>. QED  BY <2>4, <2>6, <3>1, FS_AddElement
  <2>8. Stored' = Stored
    BY <1>1, <1>6, <1>7 DEF Stored
  <2>9. PendingLast'
    <3>. SUFFICES ASSUME NEW t \in DOMAIN receipts', NEW i \in DOMAIN receipts'[t].deliveries,
                         receipts'[t].deliveries[i].state = "pending"
                  PROVE  i = Ordinal(t)' /\ receipts'[t].state = "pending"
      BY DEF PendingLast
    <3>1. CASE t # s
      <4>1. receipts'[t] = receipts[t] /\ t \in DOMAIN receipts
        BY <1>7, <3>1
      <4>. QED  BY <2>0, <4>1 DEF PendingLast, Ordinal
    <3>2. CASE t = s
      <4>1. receipts'[s].state = "pending"
        BY <1>6, <1>7
      <4>2. receipts'[s].deliveries \in Seq(Delivery)
        BY <1>6, <1>7 DEF Receipt
      <4>3. i \in 1..Ordinal(s) + 1
        BY <2>1, <3>2, <4>2, LenProperties
      <4>4. i \in 1..Ordinal(s) => FALSE
        <5>. SUFFICES ASSUME i \in 1..Ordinal(s) PROVE FALSE
          OBVIOUS
        <5>1. receipts[s].deliveries[i].state = "pending" /\ i \in DOMAIN receipts[s].deliveries
          BY <1>4, <2>0, <2>1, <3>2, LenProperties
        <5>2. Last(s).state = "pending"
          BY <2>0, <5>1 DEF PendingLast, Last, Ordinal
        <5>. QED  BY <1>1, <5>2
      <4>5. i = Ordinal(s) + 1
        BY <1>4, <4>3, <4>4
      <4>. QED  BY <1>10, <3>2, <4>1, <4>5
    <3>. QED  BY <3>1, <3>2
  <2>10. /\ quota' = [quota EXCEPT !.pending = quota.pending + 1, !.history = quota.history + 1]
         /\ quota.pending + 1 <= PendingMax /\ quota.history + 1 <= HistoryMax
         /\ audits' = audits
    BY DEF Replay
  <2>11. /\ quota' \in [pending : Int, history : Int, dedupe : Int, paused : BOOLEAN]
         /\ quota'.pending = quota.pending + 1 /\ quota'.history = quota.history + 1
         /\ quota'.dedupe = quota.dedupe
    <3>1. /\ quota \in [pending : Int, history : Int, dedupe : Int, paused : BOOLEAN]
          /\ quota.pending + 1 \in Int /\ quota.history + 1 \in Int
      BY <2>0 DEF Ledger
    <3>. QED  BY <2>10, <3>1
  <2>12. LedgerMatches'
    BY <2>0, <2>7, <2>8, <2>10, <2>11 DEF Ledger, LedgerMatches
  <2>. QED  BY <2>0, <2>9, <2>10, <2>11, <2>12 DEF Ledger
<1>14. Inherits
  <2>1. \A t \in DOMAIN receipts : Ordinal(t) \in Nat
    BY <1>0, LastRead
  <2>2. \A t \in DOMAIN receipts \ {s} : Ordinal(t)' = Ordinal(t)
    BY <1>7 DEF Ordinal
  <2>3. \A i \in 1..Ordinal(s) : receipts'[s].deliveries[i] = receipts[s].deliveries[i]
    BY <1>4, <1>6, <1>7 DEF Ordinal
  <2>4. receipts'[s].deliveries[Ordinal(s) + 1].execution = Absent
    BY <1>5, <1>6, <1>7 DEF d, NewDelivery
  <2>5. \A i \in 1..Ordinal(s) + 1 : i \in 1..Ordinal(s) \/ i = Ordinal(s) + 1
    BY <1>4
  <2>6. receipts[s].state # "deleted" /\ Ordinal(s)' = Ordinal(s) + 1
    BY <1>1, <1>10 DEF Stored
  <2>7. ASSUME NEW t \in DOMAIN receipts
        PROVE  /\ t \in DOMAIN receipts' /\ Ordinal(t) <= Ordinal(t)'
               /\ \A i \in 1..Ordinal(t) :
                    receipts[t].deliveries[i].state # "pending" =>
                      receipts'[t].deliveries[i].state # "pending"
               /\ receipts[t].state = "deleted" => receipts'[t].state = "deleted"
    <3>1. CASE t = s
      BY <1>4, <1>7, <2>3, <2>6, <3>1
    <3>2. CASE t # s
      BY <1>7, <2>1, <2>2, <3>2
    <3>. QED  BY <3>1, <3>2
  <2>8. ASSUME NEW t \in DOMAIN receipts', NEW i \in 1..Ordinal(t)'
        PROVE  \/ receipts'[t].deliveries[i].execution = Absent
               \/ /\ t \in DOMAIN receipts /\ i \in 1..Ordinal(t)
                  /\ receipts'[t].deliveries[i].execution = receipts[t].deliveries[i].execution
    <3>1. CASE t = s
      BY <1>7, <2>3, <2>4, <2>5, <2>6, <3>1
    <3>2. CASE t # s
      BY <1>7, <2>2, <3>2
    <3>. QED  BY <3>1, <3>2
  <2>. QED  BY <2>7, <2>8 DEF Inherits
<1>. QED  BY <1>8, <1>11, <1>12, <1>13, <1>14 DEF CInv

(* skip_event.                                                             *)
LEMMA SkipStep ==
  ASSUME CInv, NEW s \in DOMAIN receipts, Skip(s)
  PROVE  CInv' /\ Inherits
<1>. DEFINE w == [receipts[s] EXCEPT !.state = "skipped", !.age = 0]
            d == [Last(s) EXCEPT !.state = "skipped"]
            r == SetLast(w, d)
<1>0. /\ Rows /\ receipts \in Seq(Receipt) /\ Owed \subseteq DOMAIN receipts
      /\ receipts[s] \in Receipt
  BY Reads DEF CInv, Rows, Owed
<1>1. /\ s \in Owed /\ blocker' = RecomputeBlocker(receipts')
      /\ UNCHANGED <<mode, shared, repairRevision, revisions>>
  BY DEF Skip, Owed
<1>2. receipts' = [receipts EXCEPT ![s] = r]
  BY DEF Skip
<1>3. Ordinal(s) # 0 /\ Last(s) \in Delivery
  BY <1>0, <1>1, LastRead DEF CInv, Shard, Current
<1>4. /\ w \in Receipt /\ w.state = "skipped" /\ w.deliveries = receipts[s].deliveries
      /\ w.payload = receipts[s].payload
  BY <1>0, NoAge DEF Receipt, States
<1>5. d \in Delivery /\ d.state = "skipped" /\ d.kept = Last(s).kept
      /\ d.execution = Last(s).execution
  BY <1>3 DEF Delivery, States
<1>6. /\ r \in Receipt /\ r.state = "skipped"
      /\ Len(r.deliveries) = Ordinal(s) /\ r.deliveries[Ordinal(s)] = d
      /\ \A i \in 1..Ordinal(s) :
           i # Ordinal(s) => r.deliveries[i] = receipts[s].deliveries[i]
      /\ r.payload = w.payload
  <2>. HIDE DEF w, d
  <2>. QED  BY <1>0, <1>3, <1>4, <1>5, Rewritten
<1>. HIDE DEF r, w, d
<1>7. /\ receipts' \in Seq(Receipt) /\ DOMAIN receipts' = DOMAIN receipts
      /\ receipts'[s] = r
      /\ \A t \in DOMAIN receipts \ {s} : receipts'[t] = receipts[t]
  <2>1. receipts' \in Seq(Receipt)
    <3>1. /\ Len(receipts) \in Nat /\ DOMAIN receipts = 1..Len(receipts)
          /\ receipts \in [1..Len(receipts) -> Receipt]
      BY <1>0, Reads
    <3>2. receipts' \in [1..Len(receipts) -> Receipt]
      BY <1>2, <1>6, <3>1
    <3>. QED  BY <3>1, <3>2, FunctionIsSeq
  <2>. QED  BY <1>2, <2>1
<1>8. Rows'
  <2>1. blocker' \in Nat
    BY <1>1, <1>7, Recomputed
  <2>2. Bounded(receipts')
    <3>1. \A t \in DOMAIN receipts : Len(receipts'[t].deliveries) = Len(receipts[t].deliveries)
      BY <1>6, <1>7 DEF Ordinal
    <3>2. \A t \in DOMAIN receipts : Len(receipts[t].deliveries) \in Nat
      BY <1>0, LastRead DEF Ordinal
    <3>. QED  BY <1>0, <1>7, <3>1, <3>2, StaysBounded DEF Rows
  <2>. QED  BY <1>0, <1>1, <1>7, <2>1, <2>2, Zenon DEF Rows
<1>9. Owed' = Owed \ {s}
  BY <1>6, <1>7 DEF Owed, Unfinished, IsUnfinished, Settled
<1>10. Shard'
  <2>1. \A t \in Owed \ {s} : receipts'[t] = receipts[t]
    BY <1>0, <1>7
  <2>2. mode' = mode /\ blocker' = RecomputeBlocker(receipts') /\ Shard
    BY <1>1 DEF CInv
  <2>. QED  BY <1>0, <1>1, <1>8, <1>9, <2>1, <2>2, ShardSkips
<1>11. Finished'
  <2>. SUFFICES ASSUME NEW t \in DOMAIN receipts, receipts'[t].state \in Settled
                PROVE  Ordinal(t)' # 0 /\ Last(t)'.state \notin {"pending", "processing"}
    BY <1>7 DEF Finished
  <2>1. CASE t = s
    BY <1>3, <1>5, <1>6, <1>7, <2>1 DEF Ordinal, Last
  <2>2. CASE t # s
    <3>1. receipts'[t] = receipts[t]
      BY <1>7, <2>2
    <3>. QED  BY <3>1 DEF CInv, Finished, Ordinal, Last
  <2>. QED  BY <2>1, <2>2
<1>12. Ledger'
  <2>. DEFINE row == <<s, Ordinal(s)>>
  <2>0. PendingLast /\ Ledger /\ {s} \in SUBSET DOMAIN receipts
    BY DEF CInv, Ledger
  <2>1. /\ receipts[s].state \in {"pending", "processing", "failed"}
        /\ Last(s).state = receipts[s].state
    BY <1>0, <1>1, Reads DEF CInv, Shard, Current, Owed
  <2>2. /\ PendingRows(receipts') = PendingRows(receipts) \ {<<t, Ordinal(t)>> : t \in {s}}
        /\ HeldRows(receipts') = HeldRows(receipts) /\ Stored' = Stored /\ PendingLast'
    <3>1. /\ Ordinal(s)' = Ordinal(s) /\ Last(s)' = d
          /\ \A i \in 1..Ordinal(s) :
               i # Ordinal(s) => receipts'[s].deliveries[i] = receipts[s].deliveries[i]
          /\ receipts'[s].payload = receipts[s].payload /\ receipts'[s].state = "skipped"
      BY <1>4, <1>6, <1>7 DEF Last, Ordinal
    <3>. QED  BY <1>0, <1>3, <1>5, <1>7, <1>8, <2>0, <2>1, <3>1, LatestLeave, Zenon
  <2>3. PendingRows(receipts') = PendingRows(receipts) \ {row}
    BY <2>2
  <2>4. row \in PendingRows(receipts) <=> Last(s).state = "pending"
    <3>1. Ordinal(s) \in 1..Len(receipts[s].deliveries)
      BY <1>0, <1>3, LastRead DEF Ordinal
    <3>. QED  BY <1>0, <3>1, RowsRead DEF Rows, Last, Ordinal
  <2>5. /\ IsFiniteSet(PendingRows(receipts)) /\ Cardinality(PendingRows(receipts)) \in Nat
    BY <1>0, RowsRead DEF Rows
  <2>. HIDE DEF row
  <2>6. Cardinality(PendingRows(receipts')) =
          IF Last(s).state = "pending" THEN Cardinality(PendingRows(receipts)) - 1
          ELSE Cardinality(PendingRows(receipts))
    BY <2>3, <2>4, <2>5, FS_RemoveElement
  <2>7. /\ quota' = IF Last(s).state = "pending"
                   THEN [quota EXCEPT !.pending = quota.pending - 1] ELSE quota
        /\ audits' = audits
    BY DEF Skip, SkipReleases
  <2>8. /\ quota' \in [pending : Int, history : Int, dedupe : Int, paused : BOOLEAN]
        /\ quota'.pending = IF Last(s).state = "pending" THEN quota.pending - 1 ELSE quota.pending
        /\ quota'.history = quota.history /\ quota'.dedupe = quota.dedupe
    BY <2>0, <2>7 DEF Ledger
  <2>9. quota'.pending <= PendingMax
    BY <2>0, <2>8, DeliveryAssumption DEF Ledger
  <2>10. LedgerMatches'
    BY <2>0, <2>2, <2>6, <2>7, <2>8 DEF Ledger, LedgerMatches
  <2>. QED  BY <2>0, <2>2, <2>7, <2>8, <2>9, <2>10 DEF Ledger
<1>13. Inherits
  <2>1. /\ Ordinal(s)' = Ordinal(s) /\ receipts[s].state # "deleted"
        /\ \A i \in 1..Ordinal(s) :
             /\ receipts[s].deliveries[i].state # "pending" =>
                  receipts'[s].deliveries[i].state # "pending"
             /\ receipts'[s].deliveries[i].execution = receipts[s].deliveries[i].execution
    <3>1. receipts[s].state # "deleted"
      BY <1>1 DEF Owed, Unfinished, IsUnfinished
    <3>. QED  BY <1>5, <1>6, <1>7, <3>1 DEF Last, Ordinal
  <2>2. \A t \in DOMAIN receipts \ {s} : Ordinal(t)' = Ordinal(t)
    BY <1>7 DEF Ordinal
  <2>3. \A t \in DOMAIN receipts : Ordinal(t) \in Nat
    BY <1>0, LastRead
  <2>. QED  BY <1>7, <2>1, <2>2, <2>3 DEF Inherits
<1>. QED  BY <1>8, <1>10, <1>11, <1>12, <1>13 DEF CInv

(* A receipt that retention may rewrite: same or deleted, and where it is  *)
(* settled its latest delivery stays over.                                 *)
Retained(r, s) ==
  /\ r \in Receipt
  /\ Len(r.deliveries) <= Len(receipts[s].deliveries)
  /\ \A i \in 1..Len(r.deliveries) :
       /\ r.deliveries[i].state \in {receipts[s].deliveries[i].state, "deleted"}
       /\ r.deliveries[i].execution = receipts[s].deliveries[i].execution
       /\ Retains(r, r.deliveries[i]) => Retains(receipts[s], receipts[s].deliveries[i])
  /\ IF receipts[s].state \in Settled
     THEN \/ r.state = "deleted"
          \/ /\ r.state \in Settled
             /\ Len(r.deliveries) # 0 /\ Len(r.deliveries) = Len(receipts[s].deliveries)
             /\ r.deliveries[Len(r.deliveries)].state \notin {"pending", "processing"}
     ELSE r = receipts[s]

(* Steps that write settled receipts only.                                 *)
LEMMA RetentionKeeps ==
  ASSUME CInv, receipts' \in [DOMAIN receipts -> Receipt],
         \A s \in DOMAIN receipts : Retained(receipts'[s], s),
         UNCHANGED <<mode, blocker, repairRevision, revisions>>,
         shared' \in [Keys -> Int], Ledger'
  PROVE  CInv' /\ Inherits
<1>0. /\ receipts \in Seq(Receipt) /\ Len(receipts) \in Nat
      /\ DOMAIN receipts = 1..Len(receipts)
  BY Reads DEF CInv, Rows
<1>1. receipts' \in Seq(Receipt) /\ DOMAIN receipts' = DOMAIN receipts
  BY <1>0, FunctionIsSeq
<1>2. Rows'
  <2>1. Bounded(receipts')
    <3>1. \A s \in DOMAIN receipts : Len(receipts'[s].deliveries) <= Len(receipts[s].deliveries)
      BY DEF Retained
    <3>. QED  BY <1>0, <1>1, <3>1, StaysBounded DEF CInv, Rows
  <2>. QED  BY <1>1, <2>1, Zenon DEF CInv, Rows
<1>3. Owed' = Owed /\ \A s \in Owed : receipts'[s] = receipts[s]
  BY <1>1 DEF Retained, Owed, Unfinished, IsUnfinished, Settled
<1>4. Shard'
  BY <1>3, ShardQuiet DEF CInv
<1>5. Finished'
  <2>. SUFFICES ASSUME NEW t \in DOMAIN receipts, receipts'[t].state \in Settled
                PROVE  Ordinal(t)' # 0 /\ Last(t)'.state \notin {"pending", "processing"}
    BY <1>1 DEF Finished
  <2>. QED  BY DEF Retained, Settled, Ordinal, Last
<1>6. Inherits
  <2>1. ASSUME NEW s \in DOMAIN receipts
        PROVE  /\ Ordinal(s) \in Nat /\ Ordinal(s)' \in Nat /\ Ordinal(s)' <= Ordinal(s)
               /\ \/ receipts'[s].state = "deleted"
                  \/ receipts'[s] = receipts[s]
                  \/ receipts[s].state \in Settled /\ Ordinal(s)' = Ordinal(s)
               /\ \A i \in 1..Ordinal(s)' :
                    /\ receipts[s].deliveries[i].state # "pending" =>
                         receipts'[s].deliveries[i].state # "pending"
                    /\ receipts'[s].deliveries[i].execution = receipts[s].deliveries[i].execution
    <3>1. receipts'[s] \in Receipt /\ receipts[s] \in Receipt
      BY <1>0, Reads
    <3>2. Ordinal(s) \in Nat /\ Ordinal(s)' \in Nat
      BY <3>1 DEF Receipt, Ordinal
    <3>3. Retained(receipts'[s], s)
      OBVIOUS
    <3>4. Ordinal(s)' <= Ordinal(s)
      BY <3>3 DEF Retained, Ordinal
    <3>5. \/ receipts'[s].state = "deleted"
          \/ receipts'[s] = receipts[s]
          \/ receipts[s].state \in Settled /\ Ordinal(s)' = Ordinal(s)
      BY <3>3 DEF Retained, Ordinal
    <3>6. ASSUME NEW i \in 1..Ordinal(s)'
          PROVE  /\ receipts[s].deliveries[i].state # "pending" =>
                      receipts'[s].deliveries[i].state # "pending"
                 /\ receipts'[s].deliveries[i].execution = receipts[s].deliveries[i].execution
      <4>1. /\ receipts'[s].deliveries[i].state \in {receipts[s].deliveries[i].state, "deleted"}
            /\ receipts'[s].deliveries[i].execution = receipts[s].deliveries[i].execution
        BY <3>3 DEF Retained, Ordinal
      <4>. QED  BY <4>1
    <3>. QED  BY <3>2, <3>4, <3>5, <3>6
  <2>2. ASSUME NEW s \in DOMAIN receipts
        PROVE  /\ s \in DOMAIN receipts'
               /\ \/ receipts'[s].state = "deleted"
                  \/ /\ receipts[s].state # "deleted" /\ Ordinal(s) <= Ordinal(s)'
                     /\ \A i \in 1..Ordinal(s) :
                          receipts[s].deliveries[i].state # "pending" =>
                            receipts'[s].deliveries[i].state # "pending"
    <3>1. CASE receipts'[s].state = "deleted"
      BY <1>1, <3>1
    <3>2. CASE receipts'[s] = receipts[s] /\ receipts'[s].state # "deleted"
      BY <1>1, <2>1, <3>2 DEF Ordinal
    <3>3. CASE receipts[s].state \in Settled /\ Ordinal(s)' = Ordinal(s)
      BY <1>1, <2>1, <3>3 DEF Settled
    <3>. QED  BY <2>1, <3>1, <3>2, <3>3
  <2>3. ASSUME NEW s \in DOMAIN receipts', NEW i \in 1..Ordinal(s)'
        PROVE  /\ s \in DOMAIN receipts /\ i \in 1..Ordinal(s)
               /\ receipts'[s].deliveries[i].execution = receipts[s].deliveries[i].execution
    BY <1>1, <2>1
  <2>. QED  BY <2>2, <2>3 DEF Inherits
<1>. QED  BY <1>2, <1>4, <1>5, <1>6 DEF CInv

(* Retention takes nothing from the pending rows and adds nothing to the   *)
(* rows that are held.                                                     *)
LEMMA RowsRetained ==
  ASSUME CInv, receipts' \in [DOMAIN receipts -> Receipt],
         \A s \in DOMAIN receipts : Retained(receipts'[s], s)
  PROVE  /\ receipts' \in Seq(Receipt) /\ Bounded(receipts')
         /\ PendingRows(receipts') = PendingRows(receipts)
         /\ HeldRows(receipts') \subseteq HeldRows(receipts)
         /\ PendingLast'
<1>0. /\ receipts \in Seq(Receipt) /\ Len(receipts) \in Nat /\ Bounded(receipts)
      /\ DOMAIN receipts = 1..Len(receipts) /\ PendingLast
  BY Reads DEF CInv, Rows, Ledger
<1>1. receipts' \in Seq(Receipt) /\ DOMAIN receipts' = DOMAIN receipts
  BY <1>0, FunctionIsSeq
<1>2. Bounded(receipts')
  <2>1. \A s \in DOMAIN receipts : Len(receipts'[s].deliveries) <= Len(receipts[s].deliveries)
    BY DEF Retained
  <2>. QED  BY <1>0, <1>1, <2>1, StaysBounded
<1>3. ASSUME NEW s \in DOMAIN receipts
      PROVE  /\ receipts[s].deliveries \in Seq(Delivery)
             /\ receipts'[s].deliveries \in Seq(Delivery)
             /\ Len(receipts[s].deliveries) \in Nat /\ Len(receipts'[s].deliveries) \in Nat
             /\ DOMAIN receipts[s].deliveries = 1..Len(receipts[s].deliveries)
             /\ DOMAIN receipts'[s].deliveries = 1..Len(receipts'[s].deliveries)
             /\ Len(receipts'[s].deliveries) <= Len(receipts[s].deliveries)
  <2>1. receipts[s].deliveries \in Seq(Delivery) /\ receipts'[s].deliveries \in Seq(Delivery)
    BY <1>0, <1>1, Reads DEF Receipt
  <2>. QED  BY <2>1, LenProperties DEF Retained
<1>4. ASSUME NEW s \in DOMAIN receipts, receipts[s].state \in Settled,
             NEW i \in 1..Len(receipts'[s].deliveries)
      PROVE  receipts'[s].deliveries[i].state # "pending"
  <2>1. i \in DOMAIN receipts[s].deliveries
    BY <1>3
  <2>2. receipts[s].deliveries[i].state # "pending"
    BY <1>0, <1>4, <2>1 DEF PendingLast, Settled
  <2>. QED  BY <2>2 DEF Retained
<1>5. PendingRows(receipts') = PendingRows(receipts)
  <2>1. ASSUME NEW s, NEW i
        PROVE  <<s, i>> \in PendingRows(receipts') <=> <<s, i>> \in PendingRows(receipts)
    <3>1. <<s, i>> \in PendingRows(receipts) <=>
            /\ s \in DOMAIN receipts /\ i \in 1..Len(receipts[s].deliveries)
            /\ receipts[s].deliveries[i].state = "pending"
      BY <1>0, RowsRead
    <3>2. <<s, i>> \in PendingRows(receipts') <=>
            /\ s \in DOMAIN receipts /\ i \in 1..Len(receipts'[s].deliveries)
            /\ receipts'[s].deliveries[i].state = "pending"
      BY <1>1, <1>2, RowsRead
    <3>3. CASE s \in DOMAIN receipts /\ receipts[s].state \in Settled
      <4>1. i \in 1..Len(receipts[s].deliveries) => receipts[s].deliveries[i].state # "pending"
        BY <1>0, <1>3, <3>3 DEF PendingLast, Settled
      <4>. QED  BY <1>4, <3>1, <3>2, <3>3, <4>1
    <3>4. CASE s \in DOMAIN receipts /\ receipts[s].state \notin Settled
      BY <3>1, <3>2, <3>4 DEF Retained
    <3>. QED  BY <3>1, <3>2, <3>3, <3>4
  <2>2. \A d \in PendingRows(receipts') \cup PendingRows(receipts) : d = <<d[1], d[2]>>
    BY <1>0, <1>1, <1>2, RowsRead
  <2>. QED  BY <2>1, <2>2, PairSets
<1>6. ASSUME NEW d \in HeldRows(receipts') PROVE d \in HeldRows(receipts)
  <2>. DEFINE s == d[1]
              i == d[2]
  <2>1. d = <<s, i>>
    BY <1>1, <1>2, RowsRead
  <2>. HIDE DEF s, i
  <2>2. /\ s \in DOMAIN receipts /\ i \in 1..Len(receipts'[s].deliveries)
        /\ Retains(receipts'[s], receipts'[s].deliveries[i])
    BY <1>1, <1>2, <2>1, RowsRead
  <2>3. i \in 1..Len(receipts[s].deliveries)
    BY <1>3, <2>2
  <2>4. Retains(receipts[s], receipts[s].deliveries[i])
    BY <2>2 DEF Retained
  <2>. QED  BY <1>0, <2>1, <2>2, <2>3, <2>4, RowsRead
<1>7. PendingLast'
  <2>. SUFFICES ASSUME NEW s \in DOMAIN receipts', NEW i \in DOMAIN receipts'[s].deliveries,
                       receipts'[s].deliveries[i].state = "pending"
                PROVE  i = Ordinal(s)' /\ receipts'[s].state = "pending"
    BY DEF PendingLast
  <2>1. receipts[s].state \notin Settled
    BY <1>1, <1>3, <1>4
  <2>2. receipts'[s] = receipts[s]
    BY <1>1, <2>1 DEF Retained
  <2>. QED  BY <1>0, <1>1, <2>2 DEF PendingLast, Ordinal
<1>. QED  BY <1>1, <1>2, <1>5, <1>6, <1>7

(* Time passes for settled receipts.                                       *)
LEMMA ElapseStep ==
  ASSUME CInv, Elapse
  PROVE  CInv' /\ Inherits
<1>0. Rows /\ receipts \in Seq(Receipt) /\ \A s \in DOMAIN receipts : receipts[s] \in Receipt
  BY Reads DEF CInv, Rows
<1>. DEFINE aged(s) == [receipts[s] EXCEPT !.age = Min({receipts[s].age + 1, 2})]
<1>1. /\ receipts' = [s \in DOMAIN receipts |-> IF Settles(s) THEN aged(s) ELSE receipts[s]]
      /\ UNCHANGED <<mode, blocker, repairRevision, revisions, shared>>
  BY DEF Elapse
<1>2. ASSUME NEW s \in DOMAIN receipts
      PROVE  /\ aged(s) \in Receipt /\ aged(s).state = receipts[s].state
             /\ aged(s).deliveries = receipts[s].deliveries
             /\ aged(s).payload = receipts[s].payload
  <2>. DEFINE a == Min({receipts[s].age + 1, 2})
  <2>1. receipts[s].age \in 0..2
    BY <1>0 DEF Receipt, Ages
  <2>2. {receipts[s].age + 1, 2} \in SUBSET Nat /\ {receipts[s].age + 1, 2} # {}
    BY <2>1
  <2>3. a \in Ages
    <3>1. a \in {receipts[s].age + 1, 2} /\ a <= 2
      BY <2>2, MinProperty
    <3>. QED  BY <2>1, <3>1 DEF Ages
  <2>. HIDE DEF a
  <2>4. aged(s) = [receipts[s] EXCEPT !.age = a]
    BY DEF a
  <2>5. /\ [receipts[s] EXCEPT !.age = a] \in Receipt
        /\ [receipts[s] EXCEPT !.age = a].state = receipts[s].state
        /\ [receipts[s] EXCEPT !.age = a].deliveries = receipts[s].deliveries
        /\ [receipts[s] EXCEPT !.age = a].payload = receipts[s].payload
    BY <1>0, <2>3 DEF Receipt
  <2>. QED  BY <2>4, <2>5, Zenon
<1>. HIDE DEF aged
<1>3. ASSUME NEW s \in DOMAIN receipts PROVE Retained(receipts'[s], s)
  <2>1. CASE Settles(s)
    <3>1. receipts'[s] = aged(s) /\ receipts[s].state \in Settled
      BY <1>1, <2>1 DEF Settles
    <3>2. /\ aged(s) \in Receipt /\ aged(s).state \in Settled
          /\ aged(s).deliveries = receipts[s].deliveries
          /\ aged(s).payload = receipts[s].payload
      BY <1>2, <3>1
    <3>3. Len(receipts[s].deliveries) \in Nat
      BY <1>0, LastRead
    <3>4. Ordinal(s) # 0 /\ Last(s).state \notin {"pending", "processing"}
      BY <3>1 DEF CInv, Finished
    <3>5. \A i : Retains(aged(s), aged(s).deliveries[i]) =>
               Retains(receipts[s], receipts[s].deliveries[i])
      BY <3>2, Zenon DEF Retains
    <3>. QED  BY <3>1, <3>2, <3>3, <3>4, <3>5 DEF Retained, Ordinal, Last
  <2>2. CASE ~ Settles(s)
    <3>1. receipts'[s] = receipts[s]
      BY <1>1, <2>2
    <3>2. receipts[s].state \notin Settled
      BY <2>2 DEF Settles, Stored, Settled
    <3>. QED  BY <1>0, <3>1, <3>2 DEF Retained
  <2>. QED  BY <2>1, <2>2
<1>4. receipts' \in [DOMAIN receipts -> Receipt]
  BY <1>1, <1>3 DEF Retained
<1>5. shared' \in [Keys -> Int]
  BY <1>0, <1>1 DEF Rows
<1>6. Ledger'
  <2>1. /\ receipts' \in Seq(Receipt) /\ Bounded(receipts') /\ Bounded(receipts)
        /\ PendingRows(receipts') = PendingRows(receipts) /\ PendingLast'
    BY <1>0, <1>3, <1>4, RowsRetained DEF Rows
  <2>2. \A s \in DOMAIN receipts : /\ receipts'[s].deliveries = receipts[s].deliveries
                                   /\ receipts'[s].payload = receipts[s].payload
                                   /\ receipts'[s].state = receipts[s].state
    BY <1>1, <1>2
  <2>3. ASSUME NEW s, NEW i
        PROVE  <<s, i>> \in HeldRows(receipts') <=> <<s, i>> \in HeldRows(receipts)
    <3>1. <<s, i>> \in HeldRows(receipts) <=>
            /\ s \in DOMAIN receipts /\ i \in 1..Len(receipts[s].deliveries)
            /\ Retains(receipts[s], receipts[s].deliveries[i])
      BY <1>0, <2>1, RowsRead
    <3>2. <<s, i>> \in HeldRows(receipts') <=>
            /\ s \in DOMAIN receipts /\ i \in 1..Len(receipts'[s].deliveries)
            /\ Retains(receipts'[s], receipts'[s].deliveries[i])
      BY <1>1, <2>1, RowsRead
    <3>3. s \in DOMAIN receipts =>
            (Retains(receipts'[s], receipts'[s].deliveries[i])
               <=> Retains(receipts[s], receipts[s].deliveries[i]))
      BY <2>2, Zenon DEF Retains
    <3>. QED  BY <2>2, <3>1, <3>2, <3>3
  <2>4. \A d \in HeldRows(receipts') \cup HeldRows(receipts) : d = <<d[1], d[2]>>
    BY <1>0, <2>1, RowsRead
  <2>5. HeldRows(receipts') = HeldRows(receipts)
    BY <2>3, <2>4, PairSets
  <2>6. Stored' = Stored
    BY <1>1, <2>2 DEF Stored
  <2>7. UNCHANGED <<quota, audits>> /\ Ledger
    BY DEF Elapse, CInv
  <2>. QED  BY <2>1, <2>5, <2>6, <2>7, LedgerQuiet
<1>. QED  BY <1>1, <1>3, <1>4, <1>5, <1>6, RetentionKeeps

(* Deliveries rewritten one by one.                                        *)
LEMMA DeliveriesRewritten ==
  ASSUME NEW r \in Receipt, NEW ds, DOMAIN ds = DOMAIN r.deliveries,
         \A i \in DOMAIN r.deliveries : ds[i] \in Delivery,
         ds = [i \in DOMAIN r.deliveries |-> ds[i]]
  PROVE  ds \in Seq(Delivery) /\ Len(ds) = Len(r.deliveries)
<1>1. r.deliveries \in Seq(Delivery)
  BY DEF Receipt
<1>2. Len(r.deliveries) \in Nat /\ DOMAIN r.deliveries = 1..Len(r.deliveries)
  BY <1>1, LenProperties
<1>3. ds \in [1..Len(r.deliveries) -> Delivery]
  BY <1>2
<1>. QED  BY <1>2, <1>3, FunctionIsSeq

(* cleanup_batches deletes deliveries of settled receipts only: a batch is *)
(* reclaimed when all its members are past the metadata window.            *)
LEMMA BatchesRetain ==
  ASSUME CInv, NEW s \in Stored
  PROVE  /\ Retained(AfterBatches(s), s) /\ AfterBatches(s).state = receipts[s].state
         /\ AfterBatches(s).payload = receipts[s].payload
<1>0. /\ Rows /\ s \in DOMAIN receipts /\ receipts[s] \in Receipt
      /\ receipts[s].state # "deleted"
  BY Reads DEF CInv, Rows, Stored
<1>. DEFINE ds == receipts[s].deliveries
            reclaimed(i) == \/ ReclaimedPrefix(s, i)
                            \/ ds[i].execution # Absent /\ Reclaimable(ds[i].execution)
            new == [i \in DOMAIN ds |->
                      IF reclaimed(i) THEN [ds[i] EXCEPT !.state = "deleted"] ELSE ds[i]]
            r == [receipts[s] EXCEPT !.deliveries = new]
<1>1. CASE mode = "single"
  <2>1. AfterBatches(s) = receipts[s]
    BY <1>1 DEF AfterBatches
  <2>2. Len(receipts[s].deliveries) \in Nat
    BY <1>0, LastRead
  <2>. QED  BY <1>0, <2>1, <2>2 DEF Retained, CInv, Finished, Ordinal, Last
<1>2. CASE mode # "single"
  <2>1. AfterBatches(s) = r
    BY <1>2 DEF AfterBatches
  <2>2. receipts[s].state \notin Settled => \A i \in DOMAIN ds : ~ reclaimed(i)
    <3>. SUFFICES ASSUME NEW i \in DOMAIN ds, reclaimed(i) PROVE receipts[s].state \in Settled
      OBVIOUS
    <3>1. CASE ReclaimedPrefix(s, i)
      BY <3>1 DEF ReclaimedPrefix, Expired
    <3>2. CASE Reclaimable(ds[i].execution)
      <4>1. s \in Members(ds[i].execution)
        BY DEF Members
      <4>. QED  BY <3>2, <4>1 DEF Reclaimable, Expired
    <3>. QED  BY <3>1, <3>2
  <2>. HIDE DEF reclaimed
  <2>3. ds \in Seq(Delivery) /\ \A i \in DOMAIN ds : ds[i] \in Delivery
    <3>1. ds \in Seq(Delivery)
      BY <1>0 DEF Receipt
    <3>. QED  BY <3>1
  <2>4. ASSUME NEW i \in DOMAIN ds
        PROVE  /\ new[i] \in Delivery /\ new[i].state \in {ds[i].state, "deleted"}
               /\ new[i].kept = ds[i].kept /\ new[i].execution = ds[i].execution
    <3>1. [ds[i] EXCEPT !.state = "deleted"] \in Delivery
          /\ [ds[i] EXCEPT !.state = "deleted"].state = "deleted"
          /\ [ds[i] EXCEPT !.state = "deleted"].kept = ds[i].kept
          /\ [ds[i] EXCEPT !.state = "deleted"].execution = ds[i].execution
      BY <2>3 DEF Delivery, States
    <3>. QED  BY <2>3, <3>1
  <2>5. new \in Seq(Delivery) /\ Len(new) = Len(ds)
    <3>1. DOMAIN new = DOMAIN ds /\ new = [i \in DOMAIN ds |-> new[i]]
      OBVIOUS
    <3>. HIDE DEF new
    <3>. QED  BY <1>0, <2>4, <3>1, DeliveriesRewritten
  <2>6. receipts[s].state \notin Settled => new = ds
    <3>1. receipts[s].state \notin Settled => new = [i \in DOMAIN ds |-> ds[i]]
      BY <2>2
    <3>2. ds = [i \in DOMAIN ds |-> ds[i]]
      BY <2>3
    <3>. QED  BY <3>1, <3>2
  <2>. HIDE DEF new
  <2>7. /\ r \in Receipt /\ r.state = receipts[s].state /\ r.deliveries = new
        /\ r.payload = receipts[s].payload
    BY <1>0, <2>5 DEF Receipt
  <2>8. receipts[s].state \notin Settled => r = receipts[s]
    BY <1>0, <2>6 DEF Receipt
  <2>. HIDE DEF r
  <2>9. receipts[s].state \in Settled =>
          Len(new) # 0 /\ new[Len(new)].state \notin {"pending", "processing"}
    <3>. SUFFICES ASSUME receipts[s].state \in Settled
                  PROVE  Len(new) # 0 /\ new[Len(new)].state \notin {"pending", "processing"}
      OBVIOUS
    <3>1. Len(ds) # 0 /\ ds[Len(ds)].state \notin {"pending", "processing"}
      BY <1>0 DEF CInv, Finished, Ordinal, Last
    <3>2. Len(ds) \in DOMAIN ds
      BY <2>3, <3>1, LenProperties
    <3>. QED  BY <2>4, <2>5, <3>1, <3>2
  <2>10. /\ Len(r.deliveries) = Len(receipts[s].deliveries)
         /\ Len(r.deliveries) <= Len(receipts[s].deliveries)
    BY <2>3, <2>5, <2>7, LenProperties
  <2>11. ASSUME NEW i \in 1..Len(r.deliveries)
         PROVE  /\ r.deliveries[i].state \in {receipts[s].deliveries[i].state, "deleted"}
                /\ r.deliveries[i].execution = receipts[s].deliveries[i].execution
                /\ Retains(r, r.deliveries[i]) => Retains(receipts[s], receipts[s].deliveries[i])
    <3>1. i \in DOMAIN ds
      BY <2>3, <2>10, LenProperties
    <3>2. /\ r.deliveries[i].state \in {ds[i].state, "deleted"}
          /\ r.deliveries[i].kept = ds[i].kept
          /\ r.deliveries[i].execution = ds[i].execution
      BY <2>4, <2>7, <3>1
    <3>. QED  BY <2>7, <3>2 DEF Retains
  <2>. QED  BY <2>1, <2>7, <2>8, <2>9, <2>10, <2>11 DEF Retained
<1>. QED  BY <1>1, <1>2

(* cleanup_history.                                                        *)
LEMMA CleanedRetains ==
  ASSUME CInv, NEW s \in Stored
  PROVE  Retained(Cleaned(s), s)
<1>. DEFINE r == AfterBatches(s)
            ds == r.deliveries
            new == [i \in DOMAIN ds |-> IF ds[i].execution = Absent
                                        THEN [ds[i] EXCEPT !.kept = FALSE] ELSE ds[i]]
            gone == [state |-> "deleted", payload |-> FALSE, age |-> 0,
                     deliveries |-> <<>>]
            released == [r EXCEPT !.payload = FALSE, !.deliveries = new]
<1>1. /\ r \in Receipt /\ r.state = receipts[s].state /\ Retained(r, s)
      /\ r.payload = receipts[s].payload
      /\ receipts[s].state # "deleted"
  BY BatchesRetain DEF Retained, Stored
<1>2. \/ Cleaned(s) = r
      \/ receipts[s].state \in Settled /\ Cleaned(s) = gone
      \/ receipts[s].state \in Settled /\ Cleaned(s) = released
  BY <1>1 DEF Cleaned
<1>. HIDE DEF r
<1>3. /\ gone \in Receipt /\ gone.state = "deleted" /\ Len(gone.deliveries) = 0
      /\ Len(gone.deliveries) <= Len(receipts[s].deliveries)
  <2>1. receipts[s].deliveries \in Seq(Delivery)
    BY LastRead DEF CInv, Stored
  <2>. QED  BY <2>1, NoAge DEF Receipt, States
<1>4. ds \in Seq(Delivery) /\ \A i \in DOMAIN ds : ds[i] \in Delivery
  <2>1. ds \in Seq(Delivery)
    BY <1>1 DEF Receipt
  <2>. QED  BY <2>1
<1>5. ASSUME NEW i \in DOMAIN ds
      PROVE  /\ new[i] \in Delivery /\ new[i].state = ds[i].state
             /\ new[i].kept => ds[i].kept
             /\ new[i].execution = ds[i].execution
  <2>1. /\ [ds[i] EXCEPT !.kept = FALSE] \in Delivery
        /\ [ds[i] EXCEPT !.kept = FALSE].state = ds[i].state
        /\ ~ [ds[i] EXCEPT !.kept = FALSE].kept
        /\ [ds[i] EXCEPT !.kept = FALSE].execution = ds[i].execution
    BY <1>4 DEF Delivery
  <2>. QED  BY <1>4, <2>1
<1>6. new \in Seq(Delivery) /\ Len(new) = Len(ds)
  <2>1. DOMAIN new = DOMAIN ds /\ new = [i \in DOMAIN ds |-> new[i]]
    OBVIOUS
  <2>. HIDE DEF new
  <2>. QED  BY <1>1, <1>5, <2>1, DeliveriesRewritten
<1>. HIDE DEF new
<1>7. /\ released \in Receipt /\ released.state = r.state /\ released.deliveries = new
      /\ ~ released.payload
  BY <1>1, <1>6 DEF Receipt
<1>8. receipts[s].state \in Settled => Retained(released, s)
  <2>. SUFFICES ASSUME receipts[s].state \in Settled PROVE Retained(released, s)
    OBVIOUS
  <2>1. Len(ds) # 0 /\ ds[Len(ds)].state \notin {"pending", "processing"}
    BY <1>1 DEF Retained
  <2>2. Len(ds) \in DOMAIN ds
    BY <1>4, <2>1, LenProperties
  <2>. HIDE DEF released
  <2>3. Len(new) <= Len(receipts[s].deliveries)
    BY <1>1, <1>6 DEF Retained
  <2>4. ASSUME NEW i \in 1..Len(new)
        PROVE  /\ new[i].state \in {receipts[s].deliveries[i].state, "deleted"}
               /\ new[i].execution = receipts[s].deliveries[i].execution
               /\ Retains(released, new[i]) => Retains(receipts[s], receipts[s].deliveries[i])
    <3>1. i \in DOMAIN ds /\ i \in 1..Len(ds)
      BY <1>4, <1>6, LenProperties
    <3>2. /\ ds[i].state \in {receipts[s].deliveries[i].state, "deleted"}
          /\ ds[i].execution = receipts[s].deliveries[i].execution
          /\ Retains(r, ds[i]) => Retains(receipts[s], receipts[s].deliveries[i])
      BY <1>1, <3>1 DEF Retained
    <3>3. Retains(released, new[i]) => Retains(r, ds[i])
      BY <1>5, <1>7, <3>1 DEF Retains
    <3>. QED  BY <1>5, <3>1, <3>2, <3>3
  <2>. QED  BY <1>1, <1>5, <1>6, <1>7, <2>1, <2>2, <2>3, <2>4 DEF Retained
<1>. HIDE DEF gone, released
<1>9. receipts[s].state \in Settled => Retained(gone, s)
  BY <1>3 DEF Retained
<1>. QED  BY <1>1, <1>2, <1>8, <1>9

(* What a retention pass takes off the quotas.                             *)
LEMMA CleanupQuota ==
  ASSUME CleanupHistory
  PROVE  \E old \in 0..audits :
           /\ audits' = audits - old
           /\ quota' = [quota EXCEPT
                !.history = quota.history
                            - Cardinality(HeldRows(receipts) \ HeldRows(receipts')),
                !.dedupe  = quota.dedupe
                            - Cardinality({s \in Stored : receipts'[s].state = "deleted"}) - old]
<1>. DEFINE cleaned == [s \in DOMAIN receipts |-> IF s \in Stored THEN Cleaned(s)
                                                ELSE receipts[s]]
<1>1. /\ receipts' = cleaned
      /\ \E old \in 0..audits :
           /\ audits' = audits - old
           /\ quota' = [quota EXCEPT
                !.history = @ - Cardinality(HeldRows(receipts) \ HeldRows(cleaned)),
                !.dedupe  = @ - Cardinality({s \in Stored : cleaned[s].state = "deleted"}) - old]
  BY Zenon DEF CleanupHistory
<1>. HIDE DEF cleaned
<1>. QED  BY <1>1, Zenon

(* cleanup_batches and cleanup_history.                                    *)
LEMMA CleanupStep ==
  ASSUME CInv, CleanupHistory
  PROVE  CInv' /\ Inherits
<1>0. Rows /\ receipts \in Seq(Receipt) /\ \A s \in DOMAIN receipts : receipts[s] \in Receipt
  BY Reads DEF CInv, Rows
<1>. DEFINE gone(x) == shared[x] >= 0
                       /\ \A s \in Members(x) :
                            s \in {t \in Stored : receipts'[t].state = "deleted"}
<1>1. /\ receipts' = [s \in DOMAIN receipts |-> IF s \in Stored THEN Cleaned(s)
                                                ELSE receipts[s]]
      /\ shared' = [x \in DOMAIN shared |-> IF gone(x) THEN Never ELSE shared[x]]
      /\ UNCHANGED <<mode, blocker, repairRevision, revisions>>
  BY DEF CleanupHistory
<1>. HIDE DEF gone
<1>2. ASSUME NEW s \in DOMAIN receipts PROVE Retained(receipts'[s], s)
  <2>1. CASE s \in Stored
    <3>1. receipts'[s] = Cleaned(s)
      BY <1>1, <2>1
    <3>. QED  BY <2>1, <3>1, CleanedRetains
  <2>2. CASE s \notin Stored
    <3>1. receipts'[s] = receipts[s] /\ receipts[s].state \notin Settled
      BY <1>1, <2>2 DEF Stored, Settled
    <3>. QED  BY <1>0, <3>1 DEF Retained
  <2>. QED  BY <2>1, <2>2
<1>3. receipts' \in [DOMAIN receipts -> Receipt]
  BY <1>1, <1>2 DEF Retained
<1>4. /\ receipts' \in Seq(Receipt) /\ Bounded(receipts')
      /\ PendingRows(receipts') = PendingRows(receipts)
      /\ HeldRows(receipts') \subseteq HeldRows(receipts) /\ PendingLast'
  BY <1>2, <1>3, RowsRetained
<1>5. shared' \in [Keys -> Int]
  <2>1. shared \in [Keys -> Int] /\ Never \in Int
    BY <1>0 DEF Rows, Never
  <2>. QED  BY <1>1, <2>1
<1>6. Ledger'
  <2>0. Ledger /\ Bounded(receipts)
    BY <1>0 DEF CInv, Rows
  <2>. DEFINE freed == HeldRows(receipts) \ HeldRows(receipts')
              deleted == {s \in Stored : receipts'[s].state = "deleted"}
  <2>2. PICK old \in 0..audits :
          /\ audits' = audits - old
          /\ quota' = [quota EXCEPT !.history = quota.history - Cardinality(freed),
                                    !.dedupe = quota.dedupe - Cardinality(deleted) - old]
    BY CleanupQuota
  <2>3. /\ Cardinality(HeldRows(receipts)) = Cardinality(HeldRows(receipts')) + Cardinality(freed)
        /\ Cardinality(HeldRows(receipts')) \in Nat /\ Cardinality(freed) \in Nat
    <3>1. IsFiniteSet(HeldRows(receipts))
      BY <1>0, <2>0, RowsRead
    <3>2. IsFiniteSet(HeldRows(receipts')) /\ IsFiniteSet(freed)
      BY <1>4, <3>1, FS_Subset
    <3>3. HeldRows(receipts) = HeldRows(receipts') \cup freed /\ HeldRows(receipts') \cap freed = {}
      BY <1>4
    <3>. HIDE DEF freed
    <3>. QED  BY <3>2, <3>3, Disjoint
  <2>4. /\ Cardinality(Stored) = Cardinality(Stored') + Cardinality(deleted)
        /\ Cardinality(Stored') \in Nat /\ Cardinality(deleted) \in Nat
    <3>1. /\ Stored = Stored' \cup deleted /\ Stored' \cap deleted = {}
      <4>1. DOMAIN receipts' = DOMAIN receipts
        BY <1>1
      <4>2. \A s \in DOMAIN receipts : s \notin Stored => receipts'[s].state = "deleted"
        BY <1>1 DEF Stored
      <4>. QED  BY <4>1, <4>2 DEF Stored
    <3>2. IsFiniteSet(Stored)
      <4>1. IsFiniteSet(DOMAIN receipts)
        BY <1>0, <2>0, RowsRead
      <4>. QED  BY <4>1, FS_Subset DEF Stored
    <3>. HIDE DEF deleted
    <3>3. IsFiniteSet(Stored') /\ IsFiniteSet(deleted)
      BY <3>1, <3>2, FS_Subset
    <3>. QED  BY <3>1, <3>3, Disjoint
  <2>. HIDE DEF freed, deleted
  <2>5. /\ audits \in Nat /\ audits <= MaxAudits /\ audits' \in 0..MaxAudits /\ old \in Nat
        /\ quota.history - Cardinality(freed) \in Int
        /\ quota.dedupe - Cardinality(deleted) - old \in Int
        /\ quota.history - Cardinality(freed) <= HistoryMax
        /\ quota.dedupe - Cardinality(deleted) - old <= DedupeMax
    BY <2>0, <2>2, <2>3, <2>4, DeliveryAssumption DEF Ledger
  <2>6. /\ quota' \in [pending : Int, history : Int, dedupe : Int, paused : BOOLEAN]
        /\ quota'.pending = quota.pending
        /\ quota'.history = quota.history - Cardinality(freed)
        /\ quota'.dedupe = quota.dedupe - Cardinality(deleted) - old
    BY <2>0, <2>2, <2>5 DEF Ledger
  <2>7. LedgerMatches'
    <3>1. /\ quota.pending = Cardinality(PendingRows(receipts))
          /\ quota.history = Cardinality(HeldRows(receipts))
          /\ quota.dedupe = Cardinality(Stored) + audits
      BY <2>0 DEF Ledger, LedgerMatches
    <3>2. quota'.pending = Cardinality(PendingRows(receipts'))
      BY <1>4, <2>6, <3>1
    <3>3. quota'.history = Cardinality(HeldRows(receipts'))
      BY <2>3, <2>6, <3>1
    <3>4. quota'.dedupe = Cardinality(Stored') + audits'
      BY <2>2, <2>4, <2>5, <2>6, <3>1
    <3>. QED  BY <3>2, <3>3, <3>4 DEF LedgerMatches
  <2>. QED  BY <2>0, <1>4, <2>5, <2>6, <2>7 DEF Ledger
<1>. QED  BY <1>1, <1>2, <1>3, <1>4, <1>5, <1>6, RetentionKeeps

-----------------------------------------------------------------------------
(* The theorems.                                                           *)

(* A subscription starts without receipts.                                 *)
LEMMA StartsEmpty ==
  ASSUME CInit
  PROVE  CInv
<1>1. receipts = <<>> /\ DOMAIN receipts = {} /\ Owed = {}
  BY DEF CInit, Owed, Unfinished
<1>2. Rows
  <2>1. shared \in [Keys -> Int]
    BY DEF CInit, Keys, Never
  <2>2. mode \in {"single", "business_batch"}
    BY DeliveryAssumption DEF CInit
  <2>3. Bounded(receipts)
    BY <1>1, DeliveryAssumption DEF Bounded
  <2>4. repairRevision \in 0..revisions /\ revisions \in 0..MaxRevisions
    BY DeliveryAssumption DEF CInit
  <2>. QED  BY <2>1, <2>2, <2>3, <2>4 DEF CInit, Rows
<1>3. Shard
  BY <1>1 DEF CInit, Shard, Current, ShardOrder, Alone, BarrierOwed, HeadBlocked, Owed
<1>4. Finished
  BY <1>1 DEF Finished
<1>5. Ledger
  <2>1. PendingRows(receipts) = {} /\ HeldRows(receipts) = {} /\ Stored = {}
    BY <1>1 DEF PendingRows, HeldRows, DeliveryRows, Stored
  <2>2. Cardinality({}) = 0
    BY FS_EmptySet
  <2>3. LedgerMatches
    <3>1. /\ Cardinality(PendingRows(receipts)) = 0 /\ Cardinality(HeldRows(receipts)) = 0
          /\ Cardinality(Stored) = 0
      BY <2>1, <2>2
    <3>2. quota.pending = 0 /\ quota.history = 0 /\ quota.dedupe = 0 /\ audits = 0
      BY DEF CInit
    <3>. QED  BY <3>1, <3>2 DEF LedgerMatches
  <2>. QED  BY <1>1, <2>3, DeliveryAssumption DEF CInit, Ledger, PendingLast
<1>. QED  BY <1>2, <1>3, <1>4, <1>5 DEF CInv

(* Every operation on the subscription keeps the invariant.                *)
LEMMA DeliveryStep ==
  ASSUME CInv, [CNext]_deliveryVars
  PROVE  CInv' /\ (AnyDispatch \/ Inherits)
<1>0. Rows
  BY DEF CInv
<1>1. ASSUME NEW n \in 1..UnitItems, Receive(n) PROVE CInv' /\ Inherits
  BY <1>1, ReceiveStep
<1>2. ASSUME AnyDispatch PROVE CInv'
  BY <1>2, DispatchStep DEF AnyDispatch, Owed
<1>3. ASSUME NEW x \in DOMAIN shared, FinishExecution(x) PROVE CInv' /\ Inherits
  <2>1. shared \in [Keys -> Int]
    BY <1>0 DEF Rows
  <2>2. PICK n \in 0..Cardinality(Members(x)) : shared' = [shared EXCEPT ![x] = n]
    BY <1>3 DEF FinishExecution
  <2>3. shared' \in [Keys -> Int]
    BY <2>1, <2>2
  <2>4. UNCHANGED <<mode, receipts, blocker, repairRevision, revisions, quota, audits>>
    BY <1>3 DEF FinishExecution
  <2>5. Ledger'
    BY <2>4, LedgerUntouched DEF CInv
  <2>. QED  BY <1>0, <2>3, <2>4, <2>5, AsideStep DEF Rows
<1>4. ASSUME AnyObserve PROVE CInv' /\ Inherits
  BY <1>4, ObserveStep DEF AnyObserve
<1>5. ASSUME NEW s \in DOMAIN receipts, NEW revision \in {0, repairRevision},
             Replay(s, revision)
      PROVE  CInv' /\ Inherits
  BY <1>5, ReplayStep
<1>6. ASSUME NEW s \in DOMAIN receipts, Skip(s) PROVE CInv' /\ Inherits
  BY <1>6, SkipStep
<1>7. ASSUME \/ DisableReception \/ EnableReception \/ EnterRepair \/ ExitRepair
      PROVE  CInv' /\ Inherits
  <2>1. /\ UNCHANGED <<mode, receipts, blocker, shared, revisions, quota, audits>>
        /\ repairRevision' \in 0..revisions
    BY <1>0, <1>7 DEF DisableReception, EnableReception, EnterRepair, ExitRepair, Rows
  <2>2. Ledger'
    BY <2>1, LedgerUntouched DEF CInv
  <2>. QED  BY <1>0, <2>1, <2>2, AsideStep DEF Rows
<1>12. ASSUME RefuseCapacity \/ AuditDisposition PROVE CInv' /\ Inherits
  <2>1. UNCHANGED <<mode, receipts, blocker, shared, revisions, repairRevision>>
    BY <1>12 DEF RefuseCapacity, AuditDisposition
  <2>2. Ledger /\ PendingLast' /\ Stored' = Stored
    BY <2>1 DEF CInv, Ledger, PendingLast, Ordinal, Stored
  <2>3. CASE RefuseCapacity
    <3>1. quota' = [quota EXCEPT !.paused = TRUE] /\ audits' = audits
      BY <2>3 DEF RefuseCapacity
    <3>2. /\ quota' \in [pending : Int, history : Int, dedupe : Int, paused : BOOLEAN]
          /\ quota'.pending = quota.pending /\ quota'.history = quota.history
          /\ quota'.dedupe = quota.dedupe
      BY <2>2, <3>1 DEF Ledger
    <3>3. Ledger'
      BY <2>1, <2>2, <3>1, <3>2 DEF Ledger, LedgerMatches
    <3>. QED  BY <1>0, <2>1, <3>3, AsideStep DEF Rows
  <2>4. CASE AuditDisposition
    <3>1. /\ quota' = [quota EXCEPT !.dedupe = quota.dedupe + 1] /\ audits' = audits + 1
          /\ audits < MaxAudits /\ quota.dedupe + 1 <= DedupeMax
      BY <2>4 DEF AuditDisposition
    <3>2. /\ quota' \in [pending : Int, history : Int, dedupe : Int, paused : BOOLEAN]
          /\ quota'.pending = quota.pending /\ quota'.history = quota.history
          /\ quota'.dedupe = quota.dedupe + 1
      <4>1. /\ quota \in [pending : Int, history : Int, dedupe : Int, paused : BOOLEAN]
            /\ quota.dedupe + 1 \in Int
        BY <2>2 DEF Ledger
      <4>. QED  BY <3>1, <4>1
    <3>3. Cardinality(Stored) \in Nat /\ audits \in Nat /\ audits' \in 0..MaxAudits
      <4>1. IsFiniteSet(DOMAIN receipts)
        BY <1>0, RowsRead DEF Rows
      <4>2. IsFiniteSet(Stored)
        BY <4>1, FS_Subset DEF Stored
      <4>3. Cardinality(Stored) \in Nat
        BY <4>2, FS_CardinalityType
      <4>4. audits \in Nat /\ MaxAudits \in Nat
        BY <2>2, DeliveryAssumption DEF Ledger
      <4>5. audits' \in 0..MaxAudits
        BY <3>1, <4>4
      <4>. QED  BY <4>3, <4>4, <4>5
    <3>4. Ledger'
      BY <2>1, <2>2, <3>1, <3>2, <3>3 DEF Ledger, LedgerMatches
    <3>. QED  BY <1>0, <2>1, <3>4, AsideStep DEF Rows
  <2>. QED  BY <1>12, <2>3, <2>4
<1>8. ASSUME SaveRepairRevision PROVE CInv' /\ Inherits
  <2>1. /\ UNCHANGED <<mode, receipts, blocker, shared>>
        /\ revisions' \in 0..MaxRevisions /\ repairRevision' \in 0..revisions'
    BY <1>0, <1>8, DeliveryAssumption DEF SaveRepairRevision, Rows
  <2>2. Ledger'
    BY <1>8, LedgerUntouched DEF SaveRepairRevision, CInv
  <2>. QED  BY <1>0, <2>1, <2>2, AsideStep DEF Rows
<1>9. ASSUME Elapse PROVE CInv' /\ Inherits
  BY <1>9, ElapseStep
<1>10. ASSUME CleanupHistory PROVE CInv' /\ Inherits
  BY <1>10, CleanupStep
<1>11. ASSUME UNCHANGED deliveryVars PROVE CInv' /\ Inherits
  <2>1. Ledger'
    BY <1>11, LedgerUntouched DEF deliveryVars, CInv
  <2>. QED  BY <1>0, <1>11, <2>1, AsideStep DEF deliveryVars, Rows
<1>. QED  BY <1>1, <1>2, <1>3, <1>4, <1>5, <1>6, <1>7, <1>8, <1>9, <1>10, <1>11, <1>12
          DEF CNext, AnyFinish

(* CInv is an invariant.                                                   *)
THEOREM BarrierGuardsShard == CSpec => []CInv
<1>1. CInit => CInv
  BY StartsEmpty
<1>2. CInv /\ [CNext]_deliveryVars => CInv'
  BY DeliveryStep
<1>. QED  BY <1>1, <1>2, PTL DEF CSpec

-----------------------------------------------------------------------------
(* Types: how many receipts an Execution can report.                       *)

(* A run has at most BatchMembers members.                                 *)
LEMMA RunSize ==
  ASSUME CInv, NEW s \in Owed
  PROVE  IsFiniteSet(MemberRun(s)) /\ Cardinality(MemberRun(s)) <= BatchMembers
<1>. DEFINE behind == {t \in Unfinished(receipts) : t >= s}
            run == {t \in behind : \A u \in behind : u <= t => Joins(s, u)}
            before(t) == {u \in run : u < t}
            few == {t \in run : Cardinality(before(t)) < BatchMembers}
<1>1. MemberRun(s) = IF mode = "single" \/ Ordinal(s) > 1 THEN {s} ELSE few
  BY DEF MemberRun
<1>2. run \subseteq Owed /\ few \subseteq run
  BY DEF Owed
<1>3. IsFiniteSet(Owed) /\ Owed \in SUBSET Nat /\ \A u \in Owed : u <= Len(receipts)
      /\ Len(receipts) \in Nat
  BY Reads, RowsRead, FS_Subset DEF CInv, Rows, Owed
<1>4. \A t : t \in few => t \in run /\ Cardinality(before(t)) < BatchMembers
  OBVIOUS
<1>5. \A t \in Nat : \A u \in run : u < t => u \in before(t)
  OBVIOUS
<1>6. \A t : IsFiniteSet(before(t))
  <2>. SUFFICES ASSUME NEW t PROVE IsFiniteSet(before(t))
    OBVIOUS
  <2>1. before(t) \subseteq Owed
    BY <1>2
  <2>. HIDE DEF before
  <2>. QED  BY <1>3, <2>1, FS_Subset
<1>. HIDE DEF run, before, few
<1>7. IsFiniteSet(few)
  BY <1>2, <1>3, FS_Subset
<1>8. Cardinality(few) <= BatchMembers
  <2>1. CASE few = {}
    BY <2>1, FS_EmptySet, DeliveryAssumption
  <2>2. CASE few # {}
    <3>1. PICK m \in few : \A u \in few : u <= m
      BY <1>2, <1>3, <2>2, MaxProperty
    <3>2. few \ {m} \subseteq before(m)
      BY <1>2, <1>3, <1>5, <3>1
    <3>3. Cardinality(few \ {m}) <= Cardinality(before(m))
      BY <1>6, <3>2, FS_Subset
    <3>4. Cardinality(few \ {m}) = Cardinality(few) - 1
      BY <1>7, FS_RemoveElement
    <3>5. Cardinality(few) \in Nat /\ Cardinality(before(m)) \in Nat
      BY <1>6, <1>7, FS_CardinalityType
    <3>. QED  BY <1>4, <3>3, <3>4, <3>5, DeliveryAssumption
  <2>. QED  BY <2>1, <2>2
<1>9. IsFiniteSet({s}) /\ Cardinality({s}) <= BatchMembers
  <2>1. BatchMembers \in Nat /\ 1 <= BatchMembers
    BY DeliveryAssumption
  <2>2. IsFiniteSet({s}) /\ Cardinality({s}) = 1
    BY FS_Singleton
  <2>. QED  BY <2>1, <2>2
<1>. QED  BY <1>1, <1>7, <1>8, <1>9

(* A subset of a small set is small.                                       *)
LEMMA FewerMembers ==
  ASSUME NEW S, IsFiniteSet(S), Cardinality(S) <= BatchMembers, NEW T \in SUBSET S
  PROVE  Cardinality(T) <= BatchMembers
<1>1. IsFiniteSet(T) /\ Cardinality(T) <= Cardinality(S)
  BY FS_Subset
<1>2. Cardinality(T) \in Nat /\ Cardinality(S) \in Nat
  BY <1>1, FS_CardinalityType
<1>. QED  BY <1>1, <1>2, DeliveryAssumption

(* An index into a sequence is one into a longer sequence.                 *)
LEMMA LongerIndex ==
  ASSUME NEW m \in Nat, NEW n \in Nat, m <= n, NEW k \in 1..m
  PROVE  k \in 1..n
  OBVIOUS

(* The head of an Execution stays its head in a step that dispatches       *)
(* nothing.                                                                *)
LEMMA HeadStays ==
  ASSUME CInv, CInv', Inherits, NEW x, Heads(receipts, x)
  PROVE  Heads(receipts', x)
<1>1. x \in Keys /\ x[1] \in DOMAIN receipts /\ x[1] \in DOMAIN receipts'
  BY DEF Heads, Inherits
<1>2. SUFFICES ASSUME receipts'[x[1]].state # "deleted"
               PROVE  /\ x[2] \in 1..Len(receipts'[x[1]].deliveries)
                      /\ receipts'[x[1]].deliveries[x[2]].state # "pending"
  BY <1>1 DEF Heads
<1>3. /\ receipts[x[1]].state # "deleted"
      /\ Ordinal(x[1]) <= Ordinal(x[1])'
      /\ \A j \in 1..Ordinal(x[1]) :
           receipts[x[1]].deliveries[j].state # "pending" =>
             receipts'[x[1]].deliveries[j].state # "pending"
  BY <1>1, <1>2 DEF Inherits
<1>4. /\ x[2] \in 1..Ordinal(x[1])
      /\ receipts[x[1]].deliveries[x[2]].state # "pending"
  BY <1>3 DEF Heads, Ordinal
<1>5. receipts'[x[1]].deliveries[x[2]].state # "pending"
  BY <1>3, <1>4
<1>6. Ordinal(x[1]) \in Nat /\ Ordinal(x[1])' \in Nat
  <2>1. Rows /\ Rows'
    BY DEF CInv
  <2>2. Ordinal(x[1]) \in Nat
    BY <1>1, <2>1, LastRead
  <2>3. receipts' \in Seq(Receipt)
    BY <2>1 DEF Rows
  <2>4. receipts'[x[1]] \in Receipt
    BY <1>1, <2>3, Reads
  <2>5. Ordinal(x[1])' \in Nat
    BY <2>4 DEF Receipt, Ordinal
  <2>. QED  BY <2>2, <2>5
<1>7. x[2] \in 1..Ordinal(x[1])'
  BY <1>3, <1>4, <1>6, LongerIndex
<1>. QED  BY <1>5, <1>7 DEF Ordinal

(* Executions and batches outlive the steps that dispatch nothing.         *)
LEMMA BatchesInherited ==
  ASSUME CInv, CInv', Headed, Sized, Inherits
  PROVE  Headed' /\ Sized'
<1>1. ASSUME NEW s \in DOMAIN receipts', NEW i \in 1..Ordinal(s)',
             receipts'[s].deliveries[i].execution # Absent
      PROVE  /\ s \in DOMAIN receipts /\ i \in 1..Ordinal(s)
             /\ receipts'[s].deliveries[i].execution = receipts[s].deliveries[i].execution
  BY <1>1 DEF Inherits
<1>2. ASSUME NEW s \in DOMAIN receipts', NEW i \in 1..Ordinal(s)',
             receipts'[s].deliveries[i].execution # Absent
      PROVE  Heads(receipts', receipts'[s].deliveries[i].execution)
  <2>1. Heads(receipts, receipts'[s].deliveries[i].execution)
    BY <1>1, <1>2 DEF Headed
  <2>. QED  BY <2>1, HeadStays
<1>3. Headed'
  BY <1>2 DEF Headed
<1>4. ASSUME NEW x \in Keys PROVE Batch(receipts', x) \subseteq Batch(receipts, x)
  <2>1. x # Absent
    BY DeliveryAssumption DEF Keys, Absent
  <2>. QED  BY <1>1, <2>1 DEF Batch, Ordinal
<1>5. ASSUME NEW x \in Keys PROVE IsFiniteSet(Batch(receipts, x))
  BY RowsRead, FS_Subset DEF Batch, CInv, Rows
<1>6. ASSUME NEW x \in Keys PROVE Cardinality(Batch(receipts', x)) <= BatchMembers
  BY <1>4, <1>5, FewerMembers DEF Sized
<1>7. Sized'
  BY <1>6 DEF Sized
<1>. QED  BY <1>3, <1>7

(* What a dispatch leaves of a delivery.                                   *)
LEMMA DeliveryBound ==
  ASSUME NEW s, NEW taken, Binds(s, taken), NEW t \in DOMAIN receipts,
         NEW i \in 1..Ordinal(t)
  PROVE  \/ receipts'[t].deliveries[i] = receipts[t].deliveries[i]
         \/ /\ t \in taken /\ i = Ordinal(t)
            /\ receipts'[t].deliveries[i].execution = <<s, Ordinal(s)>>
            /\ receipts'[t].deliveries[i].state = "processing"
<1>1. CASE t \in taken
  BY <1>1 DEF Binds
<1>2. CASE t \notin taken
  BY <1>2 DEF Binds
<1>. QED  BY <1>1, <1>2

(* A dispatch adds no delivery.                                            *)
LEMMA OrdinalBound ==
  ASSUME NEW s, NEW taken, Binds(s, taken), NEW t \in DOMAIN receipts
  PROVE  t \in DOMAIN receipts' /\ Ordinal(t)' = Ordinal(t)
<1>1. CASE t \in taken
  BY <1>1 DEF Binds
<1>2. CASE t \notin taken
  BY <1>2 DEF Binds, Ordinal
<1>. QED  BY <1>1, <1>2 DEF Binds

(* The head of an Execution stays its head when another is dispatched.     *)
LEMMA HeadUnbound ==
  ASSUME NEW s, NEW taken \in SUBSET Owed, Binds(s, taken), NEW x, Heads(receipts, x)
  PROVE  Heads(receipts', x)
<1>1. /\ x \in Keys /\ x[1] \in DOMAIN receipts /\ x[1] \in DOMAIN receipts'
      /\ Len(receipts'[x[1]].deliveries) = Len(receipts[x[1]].deliveries)
  BY OrdinalBound DEF Heads, Ordinal
<1>2. CASE receipts[x[1]].state = "deleted"
  <2>1. x[1] \notin taken
    BY <1>2 DEF Owed, Unfinished, IsUnfinished
  <2>2. receipts'[x[1]] = receipts[x[1]]
    BY <1>1, <2>1 DEF Binds
  <2>. QED  BY <1>1, <1>2, <2>2 DEF Heads
<1>3. CASE receipts[x[1]].state # "deleted"
  <2>1. /\ x[2] \in 1..Ordinal(x[1])
        /\ receipts[x[1]].deliveries[x[2]].state # "pending"
    BY <1>3 DEF Heads, Ordinal
  <2>2. receipts'[x[1]].deliveries[x[2]].state # "pending"
    <3>1. \/ receipts'[x[1]].deliveries[x[2]] = receipts[x[1]].deliveries[x[2]]
          \/ receipts'[x[1]].deliveries[x[2]].state = "processing"
      BY <1>1, <2>1, DeliveryBound
    <3>. QED  BY <2>1, <3>1
  <2>. QED  BY <1>1, <2>1, <2>2 DEF Heads, Ordinal
<1>. QED  BY <1>2, <1>3

(* The new Execution has a head.                                           *)
LEMMA HeadBound ==
  ASSUME CInv, NEW s \in DOMAIN receipts, NEW taken, Binds(s, taken)
  PROVE  Heads(receipts', <<s, Ordinal(s)>>)
<1>1. <<s, Ordinal(s)>> \in Keys /\ s \in DOMAIN receipts' /\ Ordinal(s)' = Ordinal(s)
  BY OrdinalBound DEF Binds
<1>2. receipts'[s].deliveries[Ordinal(s)].state # "pending"
  BY DEF Binds
<1>3. Ordinal(s) \in 1..Ordinal(s)
  <2>1. Ordinal(s) \in 1..MaxOrdinal
    BY <1>1 DEF Keys
  <2>. QED  BY <2>1
<1>. QED  BY <1>1, <1>2, <1>3 DEF Heads, Ordinal

(* A dispatched Execution is new: no delivery has it yet.                  *)
LEMMA NewExecution ==
  ASSUME Headed, NEW s \in Owed, Last(s).state = "pending",
         <<s, Ordinal(s)>> \in Keys,
         NEW t \in DOMAIN receipts, NEW i \in 1..Ordinal(t)
  PROVE  receipts[t].deliveries[i].execution # <<s, Ordinal(s)>>
<1>1. /\ receipts[s].state # "deleted"
      /\ receipts[s].deliveries[Ordinal(s)].state = "pending"
  BY DEF Owed, Unfinished, IsUnfinished, Last, Ordinal
<1>2. ~ Heads(receipts, <<s, Ordinal(s)>>)
  BY <1>1 DEF Heads
<1>3. <<s, Ordinal(s)>> # Absent
  BY DeliveryAssumption DEF Keys, Absent
<1>. QED  BY <1>2, <1>3 DEF Headed

(* A dispatched Execution is new, and serves what it took.                 *)
LEMMA BatchBound ==
  ASSUME CInv, CInv', Headed, Sized, NEW s \in Owed, NEW taken \in SUBSET MemberRun(s),
         Last(s).state = "pending", Binds(s, taken)
  PROVE  Headed' /\ Sized'
<1>. DEFINE x == <<s, Ordinal(s)>>
<1>1. /\ x \in Keys /\ taken \subseteq DOMAIN receipts
      /\ DOMAIN receipts' = DOMAIN receipts /\ s \in DOMAIN receipts
  BY DEF Binds, Owed, Unfinished
<1>2. taken \in SUBSET Owed
  BY DEF MemberRun, Owed
<1>3. ASSUME NEW t \in DOMAIN receipts', NEW i \in 1..Ordinal(t)'
      PROVE  /\ t \in DOMAIN receipts /\ i \in 1..Ordinal(t)
             /\ \/ receipts'[t].deliveries[i].execution = receipts[t].deliveries[i].execution
                \/ t \in taken /\ receipts'[t].deliveries[i].execution = x
  <2>1. t \in DOMAIN receipts /\ i \in 1..Ordinal(t)
    BY <1>1, OrdinalBound
  <2>. QED  BY <2>1, DeliveryBound
<1>4. Heads(receipts', x)
  BY <1>1, HeadBound
<1>5. ASSUME NEW t \in DOMAIN receipts, NEW i \in 1..Ordinal(t)
      PROVE  receipts[t].deliveries[i].execution # x
  BY <1>1, NewExecution
<1>. HIDE DEF x
<1>6. ASSUME NEW t \in DOMAIN receipts', NEW i \in 1..Ordinal(t)',
             receipts'[t].deliveries[i].execution # Absent
      PROVE  Heads(receipts', receipts'[t].deliveries[i].execution)
  <2>1. CASE receipts'[t].deliveries[i].execution = x
    BY <1>4, <2>1
  <2>2. CASE receipts'[t].deliveries[i].execution # x
    <3>1. Heads(receipts, receipts'[t].deliveries[i].execution)
      BY <1>3, <1>6, <2>2 DEF Headed
    <3>. QED  BY <1>2, <3>1, HeadUnbound
  <2>. QED  BY <2>1, <2>2
<1>7. Headed'
  BY <1>6 DEF Headed
<1>8. ASSUME NEW y \in Keys, y # x
      PROVE  Batch(receipts', y) \subseteq Batch(receipts, y)
  BY <1>1, <1>3, <1>8 DEF Batch, Ordinal
<1>9. Batch(receipts', x) \subseteq taken
  BY <1>1, <1>3, <1>5 DEF Batch, Ordinal
<1>10. ASSUME NEW y \in Keys PROVE Cardinality(Batch(receipts', y)) <= BatchMembers
  <2>1. IsFiniteSet(Batch(receipts, y)) /\ Cardinality(Batch(receipts, y)) <= BatchMembers
    BY RowsRead, FS_Subset DEF Batch, CInv, Rows, Sized
  <2>2. IsFiniteSet(MemberRun(s)) /\ Cardinality(MemberRun(s)) <= BatchMembers
    BY RunSize
  <2>3. CASE y = x
    <3>1. Batch(receipts', y) \in SUBSET MemberRun(s)
      BY <1>9, <2>3
    <3>. QED  BY <2>2, <3>1, FewerMembers
  <2>4. CASE y # x
    BY <1>8, <2>1, <2>4, FewerMembers
  <2>. QED  BY <2>3, <2>4
<1>11. Sized'
  BY <1>10 DEF Sized
<1>. QED  BY <1>7, <1>11

(* An Execution never reports more members than a batch may have.          *)
LEMMA FewMembers ==
  ASSUME CInv, Sized, NEW x \in Keys
  PROVE  0..Cardinality(Members(x)) \subseteq Never..BatchMembers
<1>1. Members(x) \subseteq Batch(receipts, x)
  <2>1. \A s \in DOMAIN receipts :
          DOMAIN receipts[s].deliveries = 1..Len(receipts[s].deliveries)
    BY LastRead, LenProperties DEF CInv
  <2>. QED  BY <2>1 DEF Members, Stored, Batch
<1>2. IsFiniteSet(Batch(receipts, x))
  BY RowsRead, FS_Subset DEF Batch, CInv, Rows
<1>3. Cardinality(Members(x)) <= Cardinality(Batch(receipts, x)) /\ IsFiniteSet(Members(x))
  BY <1>1, <1>2, FS_Subset
<1>4. Cardinality(Members(x)) \in Nat /\ Cardinality(Batch(receipts, x)) \in Nat
  BY <1>2, <1>3, FS_CardinalityType
<1>5. Cardinality(Batch(receipts, x)) <= BatchMembers /\ BatchMembers \in Nat
  BY DeliveryAssumption DEF Sized
<1>6. Cardinality(Members(x)) <= BatchMembers
  BY <1>3, <1>4, <1>5
<1>. QED  BY <1>4, <1>5, <1>6 DEF Never

(* The projection is a status.                                             *)
LEMMA ProjectionType ==
  ASSUME NEW rs, NEW wanted
  PROVE  Projection(rs, wanted) \in Statuses
  BY DEF Projection, Statuses

(* Steps keep the types of the rest.                                       *)
LEMMA ShapeStep ==
  ASSUME CInv, Sized, Shape, [CNext]_deliveryVars
  PROVE  Shape'
<1>0. /\ mode \in DeliveryModes /\ reception \in {"enabled", "disabled"}
      /\ deliveryState \in Statuses /\ shared \in [Keys -> Never..BatchMembers]
      /\ BatchMembers \in Nat /\ "repair" \in Statuses /\ "idle" \in Statuses
  BY DeliveryAssumption DEF Shape, Statuses
<1>1. Refresh => deliveryState' \in Statuses
  BY <1>0, ProjectionType DEF Refresh
<1>2. \A x : \A n \in Never..BatchMembers :
        [shared EXCEPT ![x] = n] \in [Keys -> Never..BatchMembers]
  BY <1>0
<1>3. {Never, Live, 0} \subseteq Never..BatchMembers
  BY <1>0 DEF Never, Live
<1>4. ASSUME NEW n \in 1..UnitItems, Receive(n) PROVE Shape'
  BY <1>0, <1>1, <1>4 DEF Receive, Shape
<1>5. ASSUME RefuseCapacity \/ AuditDisposition \/ SaveRepairRevision \/ Elapse
      PROVE  Shape'
  BY <1>0, <1>5 DEF RefuseCapacity, AuditDisposition, SaveRepairRevision, Elapse, Shape
<1>6. ASSUME NEW s, NEW taken, Dispatch(s, taken) PROVE Shape'
  <2>1. shared' = [shared EXCEPT ![<<s, Ordinal(s)>>] = Live]
    BY <1>6 DEF Dispatch
  <2>2. mode' = mode /\ reception' = reception /\ Refresh
    BY <1>6 DEF Dispatch
  <2>. QED  BY <1>0, <1>1, <1>2, <1>3, <2>1, <2>2 DEF Shape
<1>7. ASSUME NEW x \in DOMAIN shared, FinishExecution(x) PROVE Shape'
  <2>1. PICK n \in 0..Cardinality(Members(x)) : shared' = [shared EXCEPT ![x] = n]
    BY <1>7 DEF FinishExecution
  <2>2. n \in Never..BatchMembers
    BY <1>0, FewMembers
  <2>3. UNCHANGED <<mode, reception, deliveryState>>
    BY <1>7 DEF FinishExecution
  <2>. QED  BY <1>0, <1>2, <2>1, <2>2, <2>3 DEF Shape
<1>8. ASSUME NEW x, ObserveTerminal(x) PROVE Shape'
  <2>1. shared' = [shared EXCEPT ![x] = 0] /\ mode' = mode /\ reception' = reception /\ Refresh
    BY <1>8 DEF ObserveTerminal
  <2>. QED  BY <1>0, <1>1, <1>2, <1>3, <2>1 DEF Shape
<1>9. ASSUME NEW s, NEW revision, Replay(s, revision) PROVE Shape'
  BY <1>0, <1>1, <1>9 DEF Replay, Shape
<1>10. ASSUME NEW s, Skip(s) PROVE Shape'
  BY <1>0, <1>1, <1>10 DEF Skip, Shape
<1>11. ASSUME \/ DisableReception \/ EnableReception \/ EnterRepair \/ ExitRepair
       PROVE  Shape'
  BY <1>0, <1>11, ProjectionType
     DEF DisableReception, EnableReception, EnterRepair, ExitRepair, Shape
<1>12. ASSUME CleanupHistory PROVE Shape'
  <2>. DEFINE gone(x) == shared[x] >= 0 /\ \A s \in Members(x) :
                           s \in {t \in Stored : receipts'[t].state = "deleted"}
  <2>1. /\ shared' = [x \in DOMAIN shared |-> IF gone(x) THEN Never ELSE shared[x]]
        /\ mode' = mode /\ reception' = reception /\ Refresh
    BY <1>12 DEF CleanupHistory
  <2>. HIDE DEF gone
  <2>2. shared' \in [Keys -> Never..BatchMembers]
    BY <1>0, <1>3, <2>1
  <2>. QED  BY <1>0, <1>1, <2>1, <2>2 DEF Shape
<1>13. ASSUME UNCHANGED deliveryVars PROVE Shape'
  BY <1>0, <1>13 DEF deliveryVars, Shape
<1>. QED  BY <1>4, <1>5, <1>6, <1>7, <1>8, <1>9, <1>10, <1>11, <1>12, <1>13
          DEF CNext, AnyDispatch, AnyFinish, AnyObserve

(* Steps keep the batches.                                                 *)
LEMMA BatchStep ==
  ASSUME CInv, Headed, Sized, [CNext]_deliveryVars
  PROVE  Headed' /\ Sized'
<1>0. CInv' /\ (AnyDispatch \/ Inherits)
  BY DeliveryStep
<1>1. ASSUME AnyDispatch PROVE Headed' /\ Sized'
  <2>1. PICK s \in Owed : \E taken \in SUBSET MemberRun(s) : Dispatch(s, taken)
    BY <1>1 DEF AnyDispatch, Owed
  <2>2. PICK taken \in SUBSET MemberRun(s) : Dispatch(s, taken)
    BY <2>1
  <2>3. Last(s).state = "pending" /\ Binds(s, taken)
    BY <2>2, DispatchStep DEF Dispatch
  <2>. QED  BY <1>0, <2>3, BatchBound
<1>. QED  BY <1>0, <1>1, BatchesInherited

(* The types and the batches of an empty subscription.                     *)
LEMMA StartsShaped ==
  ASSUME CInit
  PROVE  Headed /\ Sized /\ Shape
<1>1. receipts = <<>> /\ DOMAIN receipts = {}
  BY DEF CInit
<1>2. Headed
  BY <1>1 DEF Headed
<1>3. Sized
  <2>1. \A x : Batch(receipts, x) = {}
    BY <1>1 DEF Batch
  <2>. QED  BY <2>1, FS_EmptySet, DeliveryAssumption DEF Sized
<1>4. Shape
  <2>1. shared = [x \in Keys |-> Never] /\ Never \in Never..BatchMembers
    BY DeliveryAssumption DEF CInit, Keys, Never
  <2>. QED  BY <2>1 DEF CInit, Shape, Statuses
<1>. QED  BY <1>2, <1>3, <1>4

(* What the invariant says of the types.                                   *)
LEMMA Typed ==
  ASSUME CInv, Shape
  PROVE  CTypeOK
<1>0. /\ Rows /\ receipts \in Seq(Receipt) /\ Bounded(receipts)
      /\ \A s \in DOMAIN receipts : receipts[s] \in Receipt
      /\ DOMAIN receipts = 1..Len(receipts) /\ Len(receipts) \in Nat
  BY Reads DEF CInv, Rows
<1>1. ASSUME NEW s \in DOMAIN receipts
      PROVE  /\ receipts[s].state \in {"pending", "processing", "failed",
                                       "succeeded", "skipped", "deleted"}
             /\ receipts[s].payload \in BOOLEAN /\ receipts[s].age \in 0..2
             /\ Len(receipts[s].deliveries) <= MaxOrdinal
             /\ \A i \in DOMAIN receipts[s].deliveries :
                  receipts[s].deliveries[i] \in
                    [state : {"pending", "processing", "failed", "succeeded",
                              "skipped", "deleted"},
                     execution : ((1..MaxSequence) \X (1..MaxOrdinal)) \cup {Absent},
                     kept : BOOLEAN, revision : 0..MaxRevisions]
  <2>1. /\ receipts[s].state \in States /\ receipts[s].payload \in BOOLEAN
        /\ receipts[s].age \in Ages /\ receipts[s].deliveries \in Seq(Delivery)
    <3>1. receipts[s] \in Receipt
      BY <1>0
    <3>. QED  BY <3>1 DEF Receipt
  <2>2. \A i \in DOMAIN receipts[s].deliveries : receipts[s].deliveries[i] \in Delivery
    BY <2>1, LenProperties
  <2>3. Len(receipts[s].deliveries) <= MaxOrdinal
    BY <1>0 DEF Bounded
  <2>4. \A i \in DOMAIN receipts[s].deliveries :
                  receipts[s].deliveries[i] \in
                    [state : {"pending", "processing", "failed", "succeeded",
                              "skipped", "deleted"},
                     execution : ((1..MaxSequence) \X (1..MaxOrdinal)) \cup {Absent},
                     kept : BOOLEAN, revision : 0..MaxRevisions]
    BY <2>2, Zenon DEF Delivery, States, Keys
  <2>. QED  BY <2>1, <2>3, <2>4 DEF States, Ages
<1>2. blocker \in 0..MaxSequence
  <2>1. blocker # 0 => blocker \in 1..Len(receipts)
    BY <1>0 DEF CInv, Shard, BarrierOwed, Owed, Unfinished
  <2>2. Len(receipts) <= MaxSequence /\ MaxSequence \in Nat
    BY <1>0, DeliveryAssumption DEF Bounded
  <2>. QED  BY <1>0, <2>1, <2>2
<1>3. quota \in [pending : 0..PendingMax, history : 0..HistoryMax,
                 dedupe : 0..DedupeMax, paused : BOOLEAN]
  <2>1. /\ quota \in [pending : Int, history : Int, dedupe : Int, paused : BOOLEAN]
        /\ quota.pending <= PendingMax /\ quota.history <= HistoryMax
        /\ quota.dedupe <= DedupeMax /\ audits \in 0..MaxAudits
        /\ quota.pending = Cardinality(PendingRows(receipts))
        /\ quota.history = Cardinality(HeldRows(receipts))
        /\ quota.dedupe = Cardinality(Stored) + audits
    BY DEF CInv, Ledger, LedgerMatches
  <2>2. Cardinality(PendingRows(receipts)) \in Nat /\ Cardinality(HeldRows(receipts)) \in Nat
    BY <1>0, RowsRead
  <2>3. Cardinality(Stored) \in Nat
    <3>1. IsFiniteSet(Stored)
      BY <1>0, RowsRead, FS_Subset DEF Stored
    <3>. QED  BY <3>1, FS_CardinalityType
  <2>4. /\ quota.pending \in 0..PendingMax /\ quota.history \in 0..HistoryMax
        /\ quota.dedupe \in 0..DedupeMax
    BY <2>1, <2>2, <2>3, DeliveryAssumption
  <2>. QED  BY <2>1, <2>4
<1>4. /\ mode \in DeliveryModes /\ reception \in {"enabled", "disabled"}
      /\ deliveryState \in {"idle", "pending", "processing", "draining",
                            "blocked", "repair"}
      /\ shared \in [(1..MaxSequence) \X (1..MaxOrdinal) -> Never..BatchMembers]
  BY DEF Shape, Statuses, Keys
<1>5. /\ repairRevision \in 0..revisions /\ revisions \in 0..MaxRevisions
      /\ Len(receipts) <= MaxSequence /\ audits \in 0..MaxAudits
  BY <1>0 DEF Rows, Bounded, CInv, Ledger
<1>. QED  BY <1>1, <1>2, <1>3, <1>4, <1>5 DEF CTypeOK

(* The types: no quota runs below zero or over its limit, and no Execution *)
(* reports more members than a batch may have.                             *)
THEOREM DeliveryTypes == CSpec => []CTypeOK
<1>. DEFINE TInv == CInv /\ Headed /\ Sized /\ Shape
<1>1. CInit => TInv
  BY StartsEmpty, StartsShaped
<1>2. TInv /\ [CNext]_deliveryVars => TInv'
  BY DeliveryStep, BatchStep, ShapeStep
<1>3. TInv => CTypeOK
  BY Typed
<1>. QED  BY <1>1, <1>2, <1>3, PTL DEF CSpec

(* The quota rows equal what audit_quota recounts: whatever mix of T1      *)
(* units, batches, replays, skips and partial retention has run, no place  *)
(* leaks and none is given back twice.                                     *)
THEOREM QuotaIsTheLedger == CSpec => []LedgerMatches
<1>1. CInv => LedgerMatches
  BY DEF CInv, Ledger
<1>. QED  BY <1>1, BarrierGuardsShard, PTL

(* The shard is served in order: while a receipt is being processed every  *)
(* earlier one is settled or shares its Execution.                         *)
THEOREM ServedInOrder == CSpec => []ShardOrder
<1>1. CInv => ShardOrder
  BY DEF CInv, Shard
<1>. QED  BY <1>1, BarrierGuardsShard, PTL

(* What is owed can be delivered: it keeps its payload, and a failed head  *)
(* is the barrier, the receipt that replay_event accepts.                  *)
THEOREM OwedIsKept == CSpec => []OwedRecoverable
<1>1. CInv => OwedRecoverable
  <2>. SUFFICES ASSUME CInv PROVE OwedRecoverable
    OBVIOUS
  <2>1. Owed \in SUBSET Nat
    BY Reads DEF CInv, Rows, Owed
  <2>2. \A s \in Owed : receipts[s].payload
    BY DEF CInv, Shard, Current
  <2>3. ASSUME Owed # {}, receipts[Min(Owed)].state = "failed" PROVE blocker = Min(Owed)
    <3>1. Min(Owed) \in Owed /\ IsHead(Min(Owed))
      BY <2>1, <2>3, MinProperty DEF IsHead, Owed
    <3>. QED  BY <2>3, <3>1 DEF CInv, Shard, HeadBlocked
  <2>. QED  BY <2>2, <2>3 DEF OwedRecoverable, Owed
<1>. QED  BY <1>1, BarrierGuardsShard, PTL

(* Reception and custody explored together as MCSubscriptions does: both   *)
(* keep their types.                                                       *)
THEOREM SubscriptionTypes == Spec => []TypeOK
<1>1. Init => LInit /\ CInit
  BY DEF Init
<1>2. [Next]_<<part, listenerVars, deliveryVars>> =>
        [LNext]_listenerVars /\ [CNext]_deliveryVars
  BY DEF Next
<1>3. LTypeOK /\ CTypeOK => TypeOK
  BY DEF TypeOK
<1>4. LSpec => []LTypeOK
  BY ListenerTypes
<1>5. CSpec => []CTypeOK
  BY DeliveryTypes
<1>. QED  BY <1>1, <1>2, <1>3, <1>4, <1>5, PTL DEF Spec, LSpec, CSpec
=============================================================================
