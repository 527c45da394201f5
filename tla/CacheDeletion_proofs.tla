------------------------ MODULE CacheDeletion_proofs ------------------------
(***************************************************************************)
(* Proofs about CacheDeletion, for any number of operations, Attempts,     *)
(* trees, failures and stops; and about MCBackground, which explores it    *)
(* beside Schedule and WorkerConsumer.                                     *)
(***************************************************************************)
EXTENDS MCBackground, Schedule_proofs, WorkerConsumer_proofs

(* The step an operation has come to; a failed record remembers its own.   *)
StepOf(o) == IF record[o].phase = "failed" THEN record[o].resume
             ELSE record[o].phase

(* A record belongs to a guard, which its receipt ends.                    *)
RecordsGuarded ==
  /\ \A o \in Ops :
       /\ record[o].phase = "none" => record[o] = NoRecord
       /\ record[o].phase = "failed" => record[o].resume \in Pending
       /\ StepOf(o) \in Pending =>
            \/ grant[o] = "acquired"
            \/ grant[o] = "completed" /\ StepOf(o) = "receipt_pending"
       /\ StepOf(o) = "completed" => grant[o] = "completed"
  /\ \A o, p \in Ops : grant[o] = "acquired" /\ grant[p] = "acquired" => o = p

(* Whoever advances an operation holds its guard, and an Attempt does so   *)
(* only while it replaces the tree by one that was never used before.      *)
BusyGuarded ==
  /\ busy.op # NoOp =>
       /\ record[busy.op].phase \in Pending \cup {"none"}
       /\ record[busy.op].phase = "none" =>
            /\ grant[busy.op] = "acquired" /\ entry # 0
            /\ busy.by # Agent =>
                 /\ attempt[busy.by].tree \notin {0, entry}
                 /\ \A p \in Ops : record[p].root # attempt[busy.by].tree
  /\ busy.by # Agent => attempt[busy.by].state = "replacing"

(* Processes read a tree only within a use.                                *)
UsesRecorded ==
  /\ Guarded => \A a \in Attempts : attempt[a].state # "preparing"
  /\ \A a \in Attempts :
       /\ InThread(a) => a \in uses
       /\ sandbox[a] # 0 => a \in uses /\ attempt[a].state \in {"running", "unclean"}

(* What a record says about its trash and its new tree.                    *)
TrashRecorded ==
  \A o \in Ops :
    /\ trash[o] # -1 =>
         /\ grant[o] = "acquired"
         /\ StepOf(o) \in {"recorded", "trashed", "empty_trash",
                           "replacement_prepared", "replacement_old_trashed"}
    /\ StepOf(o) \in {"recorded", "replacement_prepared",
                      "replacement_old_trashed"} => trash[o] \in {-1, TreeSize}
    /\ staging[o] # 0 =>
         /\ record[o].new = staging[o]
         /\ StepOf(o) \in {"replacement_prepared", "replacement_old_trashed"}
         /\ \A p \in Ops : record[p].root # staging[o]
    /\ StepOf(o) = "recorded" => record[o].new = 0
    /\ StepOf(o) \in {"replacement_prepared", "replacement_old_trashed"} =>
         record[o].new # 0

Past(o) == StepOf(o) \in {"trashed", "empty_trash", "receipt_pending"}

(* What an operation has removed does not come back, and what it has put   *)
(* in its place stays while it holds the guard.                            *)
RemovedStays ==
  \A o \in Ops :
    /\ record[o].phase # "none" =>
         /\ record[o].root \in 1..built /\ record[o].new # record[o].root
         /\ trash[o] # -1 \/ Past(o)
              \/ StepOf(o) \in {"completed", "replacement_old_trashed"} =>
              entry # record[o].root
    /\ grant[o] = "acquired" /\ Past(o) /\ record[o].new # 0 =>
         entry = record[o].new /\ sidecar = record[o].new
    /\ (trash[o] # -1 \/ (grant[o] = "acquired" /\ Past(o))) /\ record[o].new = 0 =>
         entry = 0 /\ (trash[o] # -1 => pinned # "yes")

(* The trees in the cache have been built.                                 *)
TreesBuilt == /\ entry <= built /\ sidecar <= built
              /\ \A o \in Ops : staging[o] <= built
              /\ \A a \in Attempts : attempt[a].tree <= built
              /\ pinned = "yes" => sidecar # 0

(* The inductive invariant.                                                *)
KInv == /\ KTypeOK /\ RecordsGuarded /\ BusyGuarded /\ UsesRecorded
        /\ TrashRecorded /\ RemovedStays /\ TreesBuilt
        /\ UsedTreeStays /\ PinnedKept

-----------------------------------------------------------------------------
(* What the steps write into a record and into the entry of an Attempt.    *)
LEMMA RecordWrites ==
  ASSUME NEW r \in DeletionRecord
  PROVE  /\ \A phase \in Pending \cup {"completed"} : [r EXCEPT !.phase = phase] \in DeletionRecord
         /\ r.phase \in Pending => Failed(r) \in DeletionRecord
         /\ \A root, new \in Trees, phase \in Pending :
              [NoRecord EXCEPT !.root = root, !.new = new, !.phase = phase] \in DeletionRecord
<1>1. \A phase \in Pending \cup {"completed"} : [r EXCEPT !.phase = phase] \in DeletionRecord
  BY DEF DeletionRecord
<1>2. ASSUME r.phase \in Pending PROVE Failed(r) \in DeletionRecord
  <2>1. r.failures \in 0..FailureLimit /\ FailureLimit \in Nat
    BY CacheAssumption DEF DeletionRecord
  <2>2. CASE r.failures + 1 < FailureLimit
    <3>1. r.failures + 1 \in 0..FailureLimit
      BY <2>1, <2>2
    <3>. QED  BY <2>2, <3>1 DEF DeletionRecord, Failed
  <2>3. CASE ~(r.failures + 1 < FailureLimit)
    <3>1. FailureLimit \in 0..FailureLimit
      BY <2>1
    <3>. QED  BY <1>2, <2>3, <3>1 DEF DeletionRecord, Failed
  <2>. QED  BY <2>2, <2>3
<1>3. \A root, new \in Trees, phase \in Pending :
        [NoRecord EXCEPT !.root = root, !.new = new, !.phase = phase] \in DeletionRecord
  <2>1. 0 \in 0..FailureLimit /\ 0 \in 0..MaxRetries
    BY CacheAssumption
  <2>. QED  BY <2>1 DEF DeletionRecord, NoRecord
<1>. QED  BY <1>1, <1>2, <1>3, Zenon

(* No tree is one of the numbers of trees.                                 *)
LEMMA NoTree == 0 \in Trees
<1>1. MaxTrees \in Nat
  BY CacheAssumption
<1>. QED  BY <1>1 DEF Trees

(* And so is the next one to be built.                                     *)
LEMMA NextTree ==
  ASSUME NEW n \in Trees, n < MaxTrees
  PROVE  n + 1 \in Trees
<1>1. MaxTrees \in Nat
  BY CacheAssumption
<1>. QED  BY <1>1 DEF Trees

(* Writes to an Attempt.                                                   *)
LEMMA AttemptWrites ==
  ASSUME NEW r \in CacheAttempt, NEW t \in Trees, NEW s \in {"replacing", "unclean", "ended"}
  PROVE  /\ [r EXCEPT !.state = s, !.tree = t] \in CacheAttempt
         /\ [r EXCEPT !.lost = TRUE] \in CacheAttempt
<1>1. [r EXCEPT !.state = s, !.tree = t] \in CacheAttempt
  BY DEF CacheAttempt
<1>2. [r EXCEPT !.lost = TRUE] \in CacheAttempt
  BY DEF CacheAttempt
<1>. QED  BY <1>1, <1>2

(* Writing one Attempt.                                                    *)
LEMMA AttemptStored ==
  ASSUME attempt \in [Attempts -> CacheAttempt], NEW a \in Attempts,
         NEW t \in Trees, NEW s \in {"replacing", "unclean", "ended"},
         attempt' = [attempt EXCEPT ![a].state = s, ![a].tree = t]
  PROVE  attempt' \in [Attempts -> CacheAttempt]
<1>. DEFINE new == [attempt[a] EXCEPT !.state = s, !.tree = t]
<1>1. new \in CacheAttempt
  BY AttemptWrites, Zenon
<1>2. \A b \in Attempts : attempt'[b] = IF b = a THEN new ELSE attempt[b]
  OBVIOUS
<1>3. attempt' = [b \in Attempts |-> attempt'[b]]
  OBVIOUS
<1>. HIDE DEF new
<1>. QED  BY <1>1, <1>2, <1>3

(* BeginGc keeps the inductive invariant.                                  *)
LEMMA BeginGcStep ==
  ASSUME KInv, NEW o \in Ops, BeginGc(o)
  PROVE  KInv'
<1>1. KTypeOK'
  BY DEF KInv, KTypeOK, BeginGc
<1>2. RecordsGuarded'
  BY DEF KInv, RecordsGuarded, StepOf, Guarded, BeginGc
<1>3. BusyGuarded'
  BY DEF KInv, KTypeOK, RecordsGuarded, BusyGuarded, StepOf, DeletionRecord,
     BeginGc
<1>4. UsesRecorded'
  BY DEF KInv, UsesRecorded, InThread, Referenced, BeginGc
<1>5. TrashRecorded'
  BY DEF KInv, TrashRecorded, StepOf, BeginGc
<1>6. RemovedStays'
  BY DEF KInv, RecordsGuarded, RemovedStays, StepOf, Past, Pending, BeginGc
<1>7. TreesBuilt'
  BY DEF KInv, TreesBuilt, BeginGc
<1>8. UsedTreeStays'
  BY DEF KInv, UsedTreeStays, BeginGc
<1>9. PinnedKept'
  BY DEF PinnedKept, BeginGc
<1>. QED  BY <1>1, <1>2, <1>3, <1>4, <1>5, <1>6, <1>7, <1>8, <1>9 DEF KInv

(* BeginReplacement keeps the inductive invariant.                         *)
LEMMA BeginReplacementStep ==
  ASSUME KInv, NEW o \in Ops, NEW a \in Attempts, BeginReplacement(o, a)
  PROVE  KInv'
<1>1. KTypeOK'
  <2>1. built + 1 \in Trees
    <3>1. built \in Trees /\ built < MaxTrees
      BY DEF KInv, KTypeOK, BeginReplacement
    <3>. QED  BY <3>1, NextTree
  <2>2. attempt' \in [Attempts -> CacheAttempt]
    <3>1. /\ attempt \in [Attempts -> CacheAttempt]
          /\ attempt' = [attempt EXCEPT ![a].state = "replacing", ![a].tree = built + 1]
      BY DEF KInv, KTypeOK, BeginReplacement
    <3>. QED  BY <2>1, <3>1, AttemptStored
  <2>. QED  BY <2>1, <2>2 DEF KInv, KTypeOK, BeginReplacement
<1>2. RecordsGuarded'
  BY DEF KInv, RecordsGuarded, StepOf, Guarded, BeginReplacement
<1>3. BusyGuarded'
  BY DEF KInv, KTypeOK, RecordsGuarded, BusyGuarded, RemovedStays,
     TreesBuilt, StepOf, Trees, Agent, NoRecord, DeletionRecord,
     BeginReplacement
<1>4. UsesRecorded'
  <2>1. \A b \in Attempts : attempt'[b].state =
                             IF b = a THEN "replacing" ELSE attempt[b].state
    BY DEF KInv, KTypeOK, BeginReplacement
  <2>2. \A b \in Attempts \ {a} : attempt[b].state \in {"none", "ended"}
    BY DEF BeginReplacement, Referenced
  <2>3. attempt[a].state = "preparing" /\ UNCHANGED <<uses, sandbox>>
    BY DEF BeginReplacement
  <2>. QED  BY <2>1, <2>2, <2>3 DEF KInv, UsesRecorded, InThread
<1>5. TrashRecorded'
  BY DEF KInv, TrashRecorded, StepOf, BeginReplacement
<1>6. RemovedStays'
  BY DEF KInv, KTypeOK, RecordsGuarded, RemovedStays, StepOf, Past, Trees,
     Pending, BeginReplacement
<1>7. TreesBuilt'
  BY DEF KInv, KTypeOK, TreesBuilt, Trees, CacheAttempt, BeginReplacement
<1>8. UsedTreeStays'
  BY DEF KInv, UsedTreeStays, BeginReplacement
<1>9. PinnedKept'
  BY DEF PinnedKept, BeginReplacement
<1>. QED  BY <1>1, <1>2, <1>3, <1>4, <1>5, <1>6, <1>7, <1>8, <1>9 DEF KInv

(* WriteRecord keeps the inductive invariant.                              *)
LEMMA WriteRecordStep ==
  ASSUME KInv, NEW o \in Ops, WriteRecord(o)
  PROVE  KInv'
<1>1. KTypeOK'
  <2>1. record' \in [Ops -> DeletionRecord]
    <3>. DEFINE new == IF busy.by = Agent THEN 0 ELSE attempt[busy.by].tree
                phase == IF new = 0 THEN "recorded" ELSE "replacement_prepared"
    <3>1. new \in Trees /\ phase \in Pending /\ entry \in Trees
      BY CacheAssumption DEF KInv, KTypeOK, Trees, CacheAttempt, Pending
    <3>2. record' = [record EXCEPT ![o] = [NoRecord EXCEPT
                       !.root = entry, !.new = new, !.phase = phase]]
      BY DEF WriteRecord
    <3>3. record[o] \in DeletionRecord
      BY DEF KInv, KTypeOK
    <3>. HIDE DEF new, phase
    <3>4. [NoRecord EXCEPT !.root = entry, !.new = new, !.phase = phase] \in DeletionRecord
      BY <3>1, <3>3, RecordWrites
    <3>. QED  BY <3>2, <3>4 DEF KInv, KTypeOK
  <2>2. staging' \in [Ops -> Trees]
    BY CacheAssumption DEF KInv, KTypeOK, WriteRecord, Trees, CacheAttempt
  <2>. QED  BY <2>1, <2>2 DEF KInv, KTypeOK, WriteRecord
<1>2. RecordsGuarded'
  BY CacheAssumption DEF KInv, RecordsGuarded, BusyGuarded, StepOf,
     NoRecord, WriteRecord
<1>3. BusyGuarded'
  BY DEF KInv, BusyGuarded, Pending, WriteRecord
<1>4. UsesRecorded'
  BY DEF KInv, UsesRecorded, Guarded, InThread, WriteRecord
<1>5. TrashRecorded'
  BY CacheAssumption DEF KInv, KTypeOK, RecordsGuarded, BusyGuarded,
     TrashRecorded, StepOf, Pending, NoRecord, WriteRecord
<1>6. RemovedStays'
  BY CacheAssumption DEF KInv, KTypeOK, BusyGuarded, RemovedStays,
     TreesBuilt, StepOf, Past, Trees, NoRecord, WriteRecord
<1>7. TreesBuilt'
  BY DEF KInv, KTypeOK, TreesBuilt, Trees, WriteRecord
<1>8. UsedTreeStays'
  BY DEF KInv, UsedTreeStays, WriteRecord
<1>9. PinnedKept'
  BY DEF KInv, TreesBuilt, PinnedKept, NoRecord, WriteRecord
<1>. QED  BY <1>1, <1>2, <1>3, <1>4, <1>5, <1>6, <1>7, <1>8, <1>9 DEF KInv

(* AcquireLost keeps the inductive invariant.                              *)
LEMMA AcquireLostStep ==
  ASSUME KInv, NEW o \in Ops, AcquireLost(o)
  PROVE  KInv'
<1>1. KTypeOK'
  BY DEF KInv, KTypeOK, Idle, AcquireLost
<1>2. RecordsGuarded'
  BY DEF KInv, RecordsGuarded, StepOf, AcquireLost
<1>3. BusyGuarded'
  BY DEF BusyGuarded, Idle, AcquireLost
<1>4. UsesRecorded'
  BY DEF KInv, UsesRecorded, Guarded, InThread, AcquireLost
<1>5. TrashRecorded'
  BY DEF KInv, TrashRecorded, StepOf, AcquireLost
<1>6. RemovedStays'
  BY DEF KInv, RemovedStays, StepOf, Past, AcquireLost
<1>7. TreesBuilt'
  BY DEF KInv, TreesBuilt, AcquireLost
<1>8. UsedTreeStays'
  BY DEF KInv, UsedTreeStays, AcquireLost
<1>9. PinnedKept'
  BY DEF KInv, PinnedKept, AcquireLost
<1>. QED  BY <1>1, <1>2, <1>3, <1>4, <1>5, <1>6, <1>7, <1>8, <1>9 DEF KInv

(* TrashOld keeps the inductive invariant.                                 *)
LEMMA TrashOldStep ==
  ASSUME KInv, NEW o \in Ops, TrashOld(o)
  PROVE  KInv'
<1>1. KTypeOK'
  BY CacheAssumption DEF KInv, KTypeOK, Trees, TrashOld
<1>2. RecordsGuarded'
  BY DEF KInv, RecordsGuarded, StepOf, TrashOld
<1>3. BusyGuarded'
  BY DEF KInv, KTypeOK, RecordsGuarded, BusyGuarded, RemovedStays, StepOf,
     Past, NoRecord, DeletionRecord, TrashOld
<1>4. UsesRecorded'
  BY DEF KInv, UsesRecorded, Guarded, InThread, TrashOld
<1>5. TrashRecorded'
  BY DEF KInv, RecordsGuarded, TrashRecorded, StepOf, Pending, TrashOld, At
<1>6. RemovedStays'
  BY DEF KInv, KTypeOK, RecordsGuarded, TrashRecorded, RemovedStays, StepOf,
     Past, NoRecord, DeletionRecord, TrashOld
<1>7. TreesBuilt'
  BY DEF KInv, KTypeOK, TreesBuilt, Trees, TrashOld
<1>8. UsedTreeStays'
  BY DEF KInv, BusyGuarded, UsesRecorded, UsedTreeStays, TrashOld,
     Authorized, LocalSafe
<1>9. PinnedKept'
  BY DEF KInv, KTypeOK, PinnedKept, TrashOld
<1>. QED  BY <1>1, <1>2, <1>3, <1>4, <1>5, <1>6, <1>7, <1>8, <1>9 DEF KInv

(* OldIsTrashed keeps the inductive invariant.                             *)
LEMMA OldIsTrashedStep ==
  ASSUME KInv, NEW o \in Ops, OldIsTrashed(o)
  PROVE  KInv'
<1>1. KTypeOK'
  <2>1. record' \in [Ops -> DeletionRecord]
    <3>1. PICK phase \in Pending : record' = [record EXCEPT ![o].phase = phase]
      BY DEF OldIsTrashed, ToPhase, Pending
    <3>. QED  BY <3>1, RecordWrites DEF KInv, KTypeOK
  <2>. QED  BY <2>1 DEF KInv, KTypeOK, OldIsTrashed
<1>2. RecordsGuarded'
  <2>. DEFINE phase == IF record[o].phase = "recorded" THEN "trashed" ELSE "replacement_old_trashed"
  <2>1. /\ record[o].phase \in {"recorded", "replacement_prepared"}
        /\ record' = [record EXCEPT ![o].phase = phase]
    BY DEF OldIsTrashed, At, ToPhase
  <2>. QED  BY <2>1 DEF KInv, RecordsGuarded, StepOf, Pending, OldIsTrashed
<1>3. BusyGuarded'
  BY DEF KInv, KTypeOK, RecordsGuarded, BusyGuarded, TrashRecorded, Pending,
     DeletionRecord, OldIsTrashed, ToPhase
<1>4. UsesRecorded'
  BY DEF KInv, UsesRecorded, Guarded, InThread, OldIsTrashed
<1>5. TrashRecorded'
  <2>. DEFINE phase == IF record[o].phase = "recorded" THEN "trashed" ELSE "replacement_old_trashed"
  <2>1. /\ record[o].phase \in {"recorded", "replacement_prepared"}
        /\ record' = [record EXCEPT ![o].phase = phase]
    BY DEF OldIsTrashed, At, ToPhase
  <2>. QED  BY <2>1 DEF KInv, TrashRecorded, StepOf, OldIsTrashed
<1>6. RemovedStays'
  BY DEF KInv, KTypeOK, RecordsGuarded, TrashRecorded, RemovedStays, StepOf,
     Past, DeletionRecord, OldIsTrashed, At, ToPhase
<1>7. TreesBuilt'
  BY DEF KInv, TreesBuilt, OldIsTrashed
<1>8. UsedTreeStays'
  BY DEF KInv, UsedTreeStays, OldIsTrashed
<1>9. PinnedKept'
  BY DEF KInv, KTypeOK, PinnedKept, DeletionRecord, OldIsTrashed, ToPhase
<1>. QED  BY <1>1, <1>2, <1>3, <1>4, <1>5, <1>6, <1>7, <1>8, <1>9 DEF KInv

(* Publish keeps the inductive invariant.                                  *)
LEMMA PublishStep ==
  ASSUME KInv, NEW o \in Ops, Publish(o)
  PROVE  KInv'
<1>1. KTypeOK'
  BY DEF KInv, KTypeOK, Publish
<1>2. RecordsGuarded'
  BY DEF KInv, RecordsGuarded, StepOf, Publish
<1>3. BusyGuarded'
  BY DEF KInv, BusyGuarded, Publish
<1>4. UsesRecorded'
  BY DEF KInv, UsesRecorded, Guarded, InThread, Publish
<1>5. TrashRecorded'
  BY DEF KInv, TrashRecorded, StepOf, Publish
<1>6. RemovedStays'
  BY DEF KInv, RecordsGuarded, TrashRecorded, RemovedStays, StepOf, Past,
     Pending, Publish
<1>7. TreesBuilt'
  BY DEF KInv, TreesBuilt, Publish
<1>8. UsedTreeStays'
  BY DEF KInv, UsedTreeStays, Publish
<1>9. PinnedKept'
  BY DEF KInv, TreesBuilt, PinnedKept, Publish
<1>. QED  BY <1>1, <1>2, <1>3, <1>4, <1>5, <1>6, <1>7, <1>8, <1>9 DEF KInv

(* ReplaceVerified keeps the inductive invariant.                          *)
LEMMA ReplaceVerifiedStep ==
  ASSUME KInv, NEW o \in Ops, ReplaceVerified(o)
  PROVE  KInv'
<1>1. KTypeOK'
  BY DEF KInv, KTypeOK, DeletionRecord, ReplaceVerified
<1>2. RecordsGuarded'
  BY DEF KInv, RecordsGuarded, StepOf, ReplaceVerified
<1>3. BusyGuarded'
  BY DEF KInv, BusyGuarded, ReplaceVerified
<1>4. UsesRecorded'
  BY DEF KInv, UsesRecorded, Guarded, InThread, ReplaceVerified
<1>5. TrashRecorded'
  BY DEF KInv, TrashRecorded, StepOf, ReplaceVerified
<1>6. RemovedStays'
  BY DEF KInv, KTypeOK, RecordsGuarded, RemovedStays, StepOf, Past,
     NoRecord, DeletionRecord, ReplaceVerified
<1>7. TreesBuilt'
  BY DEF KInv, TreesBuilt, ReplaceVerified, NewInPlace
<1>8. UsedTreeStays'
  BY DEF KInv, UsedTreeStays, ReplaceVerified
<1>9. PinnedKept'
  BY DEF PinnedKept, ReplaceVerified, NewInPlace
<1>. QED  BY <1>1, <1>2, <1>3, <1>4, <1>5, <1>6, <1>7, <1>8, <1>9 DEF KInv

(* ReplacementDone keeps the inductive invariant.                          *)
LEMMA ReplacementDoneStep ==
  ASSUME KInv, NEW o \in Ops, ReplacementDone(o)
  PROVE  KInv'
<1>1. KTypeOK'
  <2>1. record' \in [Ops -> DeletionRecord]
    <3>1. "trashed" \in Pending /\ record' = [record EXCEPT ![o].phase = "trashed"]
      BY DEF ReplacementDone, ToPhase, Pending
    <3>. QED  BY <3>1, RecordWrites DEF KInv, KTypeOK
  <2>. QED  BY <2>1 DEF KInv, KTypeOK, ReplacementDone
<1>2. RecordsGuarded'
  BY DEF KInv, RecordsGuarded, StepOf, Pending, ReplacementDone, At, ToPhase
<1>3. BusyGuarded'
  BY DEF KInv, BusyGuarded, Pending, ReplacementDone, ToPhase
<1>4. UsesRecorded'
  BY DEF KInv, UsesRecorded, Guarded, InThread, ReplacementDone
<1>5. TrashRecorded'
  BY DEF KInv, TrashRecorded, StepOf, ReplacementDone, NewInPlace, ToPhase
<1>6. RemovedStays'
  BY DEF KInv, RemovedStays, StepOf, Past, ReplacementDone, At, NewInPlace,
     ToPhase
<1>7. TreesBuilt'
  BY DEF KInv, TreesBuilt, ReplacementDone
<1>8. UsedTreeStays'
  BY DEF KInv, UsedTreeStays, ReplacementDone
<1>9. PinnedKept'
  BY DEF PinnedKept, ReplacementDone, NewInPlace
<1>. QED  BY <1>1, <1>2, <1>3, <1>4, <1>5, <1>6, <1>7, <1>8, <1>9 DEF KInv

(* DeleteContents keeps the inductive invariant.                           *)
LEMMA DeleteContentsStep ==
  ASSUME KInv, NEW o \in Ops, DeleteContents(o)
  PROVE  KInv'
<1>1. KTypeOK'
  BY CacheAssumption DEF KInv, KTypeOK, Idle, DeleteContents
<1>2. RecordsGuarded'
  BY DEF KInv, RecordsGuarded, StepOf, DeleteContents
<1>3. BusyGuarded'
  BY DEF KInv, BusyGuarded, Idle, DeleteContents
<1>4. UsesRecorded'
  BY DEF KInv, UsesRecorded, Guarded, InThread, DeleteContents
<1>5. TrashRecorded'
  BY DEF KInv, TrashRecorded, StepOf, DeleteContents, At
<1>6. RemovedStays'
  BY DEF KInv, RemovedStays, StepOf, Past, DeleteContents
<1>7. TreesBuilt'
  BY DEF KInv, TreesBuilt, DeleteContents
<1>8. UsedTreeStays'
  BY DEF KInv, UsedTreeStays, DeleteContents
<1>9. PinnedKept'
  BY DEF KInv, TrashRecorded, RemovedStays, PinnedKept, StepOf, Past,
     DeleteContents, At
<1>. QED  BY <1>1, <1>2, <1>3, <1>4, <1>5, <1>6, <1>7, <1>8, <1>9 DEF KInv

(* EmptyTrash keeps the inductive invariant.                               *)
LEMMA EmptyTrashStep ==
  ASSUME KInv, NEW o \in Ops, EmptyTrash(o)
  PROVE  KInv'
<1>1. KTypeOK'
  <2>1. record' \in [Ops -> DeletionRecord]
    <3>1. "empty_trash" \in Pending /\ record' = [record EXCEPT ![o].phase = "empty_trash"]
      BY DEF EmptyTrash, ToPhase, Pending
    <3>. QED  BY <3>1, RecordWrites DEF KInv, KTypeOK
  <2>. QED  BY <2>1 DEF KInv, KTypeOK, EmptyTrash
<1>2. RecordsGuarded'
  BY DEF KInv, RecordsGuarded, TrashRecorded, StepOf, EmptyTrash, ToPhase
<1>3. BusyGuarded'
  BY DEF KInv, BusyGuarded, Pending, EmptyTrash, ToPhase
<1>4. UsesRecorded'
  BY DEF KInv, UsesRecorded, Guarded, InThread, EmptyTrash
<1>5. TrashRecorded'
  BY DEF KInv, TrashRecorded, StepOf, EmptyTrash, At, ToPhase
<1>6. RemovedStays'
  BY DEF KInv, RemovedStays, StepOf, Past, EmptyTrash, At, ToPhase
<1>7. TreesBuilt'
  BY DEF KInv, TreesBuilt, EmptyTrash
<1>8. UsedTreeStays'
  BY DEF KInv, UsedTreeStays, EmptyTrash
<1>9. PinnedKept'
  BY DEF KInv, TrashRecorded, RemovedStays, PinnedKept, StepOf, Past,
     EmptyTrash, At
<1>. QED  BY <1>1, <1>2, <1>3, <1>4, <1>5, <1>6, <1>7, <1>8, <1>9 DEF KInv

(* RemoveTrash keeps the inductive invariant.                              *)
LEMMA RemoveTrashStep ==
  ASSUME KInv, NEW o \in Ops, RemoveTrash(o)
  PROVE  KInv'
<1>1. KTypeOK'
  BY CacheAssumption DEF KInv, KTypeOK, RemoveTrash
<1>2. RecordsGuarded'
  BY DEF KInv, RecordsGuarded, StepOf, RemoveTrash
<1>3. BusyGuarded'
  BY DEF KInv, BusyGuarded, RemoveTrash
<1>4. UsesRecorded'
  BY DEF KInv, UsesRecorded, Guarded, InThread, RemoveTrash
<1>5. TrashRecorded'
  BY DEF KInv, TrashRecorded, StepOf, RemoveTrash
<1>6. RemovedStays'
  BY DEF KInv, RemovedStays, StepOf, Past, RemoveTrash
<1>7. TreesBuilt'
  BY DEF KInv, TreesBuilt, RemoveTrash
<1>8. UsedTreeStays'
  BY DEF KInv, UsedTreeStays, RemoveTrash
<1>9. PinnedKept'
  BY DEF KInv, TrashRecorded, RemovedStays, PinnedKept, StepOf, Past,
     RemoveTrash, At
<1>. QED  BY <1>1, <1>2, <1>3, <1>4, <1>5, <1>6, <1>7, <1>8, <1>9 DEF KInv

(* TrashRemoved keeps the inductive invariant.                             *)
LEMMA TrashRemovedStep ==
  ASSUME KInv, NEW o \in Ops, TrashRemoved(o)
  PROVE  KInv'
<1>1. KTypeOK'
  <2>1. record' \in [Ops -> DeletionRecord]
    <3>1. "receipt_pending" \in Pending /\ record' = [record EXCEPT ![o].phase = "receipt_pending"]
      BY DEF TrashRemoved, ToPhase, Pending
    <3>. QED  BY <3>1, RecordWrites DEF KInv, KTypeOK
  <2>. QED  BY <2>1 DEF KInv, KTypeOK, TrashRemoved
<1>2. RecordsGuarded'
  BY DEF KInv, RecordsGuarded, StepOf, Pending, TrashRemoved, At, ToPhase
<1>3. BusyGuarded'
  BY DEF KInv, BusyGuarded, Pending, TrashRemoved, ToPhase
<1>4. UsesRecorded'
  BY DEF KInv, UsesRecorded, Guarded, InThread, TrashRemoved
<1>5. TrashRecorded'
  BY DEF KInv, TrashRecorded, StepOf, TrashRemoved, At, ToPhase
<1>6. RemovedStays'
  BY DEF KInv, RemovedStays, StepOf, Past, TrashRemoved, At, ToPhase
<1>7. TreesBuilt'
  BY DEF KInv, TreesBuilt, TrashRemoved
<1>8. UsedTreeStays'
  BY DEF KInv, UsedTreeStays, TrashRemoved
<1>9. PinnedKept'
  BY DEF KInv, PinnedKept, TrashRemoved, ToPhase
<1>. QED  BY <1>1, <1>2, <1>3, <1>4, <1>5, <1>6, <1>7, <1>8, <1>9 DEF KInv

(* Retire keeps the inductive invariant.                                   *)
LEMMA RetireStep ==
  ASSUME KInv, NEW o \in Ops, Retire(o)
  PROVE  KInv'
<1>1. KTypeOK'
  BY DEF KInv, KTypeOK, Retire
<1>2. RecordsGuarded'
  BY DEF KInv, RecordsGuarded, StepOf, Retire
<1>3. BusyGuarded'
  BY DEF KInv, BusyGuarded, Retire
<1>4. UsesRecorded'
  BY DEF KInv, UsesRecorded, Guarded, InThread, Retire
<1>5. TrashRecorded'
  BY DEF KInv, TrashRecorded, StepOf, Retire
<1>6. RemovedStays'
  BY DEF KInv, RecordsGuarded, RemovedStays, Retire
<1>7. TreesBuilt'
  BY DEF KInv, TreesBuilt, Retire
<1>8. UsedTreeStays'
  BY DEF KInv, UsedTreeStays, Retire
<1>9. PinnedKept'
  BY DEF PinnedKept, Retire
<1>. QED  BY <1>1, <1>2, <1>3, <1>4, <1>5, <1>6, <1>7, <1>8, <1>9 DEF KInv

(* FinishGrant keeps the inductive invariant.                              *)
LEMMA FinishGrantStep ==
  ASSUME KInv, NEW o \in Ops, FinishGrant(o)
  PROVE  KInv'
<1>1. KTypeOK'
  BY DEF KInv, KTypeOK, FinishGrant
<1>2. RecordsGuarded'
  BY DEF KInv, RecordsGuarded, StepOf, FinishGrant, ReceiptDue
<1>3. BusyGuarded'
  BY DEF KInv, BusyGuarded, FinishGrant, ReceiptDue
<1>4. UsesRecorded'
  BY DEF KInv, UsesRecorded, Guarded, InThread, FinishGrant
<1>5. TrashRecorded'
  BY DEF KInv, TrashRecorded, StepOf, FinishGrant, ReceiptDue
<1>6. RemovedStays'
  BY DEF KInv, RemovedStays, StepOf, Past, FinishGrant
<1>7. TreesBuilt'
  BY DEF KInv, TreesBuilt, FinishGrant
<1>8. UsedTreeStays'
  BY DEF KInv, UsedTreeStays, FinishGrant
<1>9. PinnedKept'
  BY DEF KInv, PinnedKept, FinishGrant
<1>. QED  BY <1>1, <1>2, <1>3, <1>4, <1>5, <1>6, <1>7, <1>8, <1>9 DEF KInv

(* CompleteRecord keeps the inductive invariant.                           *)
LEMMA CompleteRecordStep ==
  ASSUME KInv, NEW o \in Ops, CompleteRecord(o)
  PROVE  KInv'
<1>1. KTypeOK'
  <2>1. record' \in [Ops -> DeletionRecord]
    BY RecordWrites DEF KInv, KTypeOK, CompleteRecord, ToPhase
  <2>2. Idle \in [op : Ops \cup {NoOp}, by : Attempts \cup {Agent}]
    BY DEF Idle
  <2>. QED  BY <2>1, <2>2 DEF KInv, KTypeOK, CompleteRecord
<1>2. RecordsGuarded'
  BY DEF KInv, RecordsGuarded, StepOf, Pending, CompleteRecord, ToPhase
<1>3. BusyGuarded'
  BY DEF BusyGuarded, Idle, CompleteRecord
<1>4. UsesRecorded'
  BY DEF KInv, UsesRecorded, Guarded, InThread, CompleteRecord
<1>5. TrashRecorded'
  BY DEF KInv, RecordsGuarded, TrashRecorded, StepOf, Pending,
     CompleteRecord, ToPhase
<1>6. RemovedStays'
  BY DEF KInv, RemovedStays, StepOf, Past, CompleteRecord, At, ToPhase
<1>7. TreesBuilt'
  BY DEF KInv, TreesBuilt, CompleteRecord
<1>8. UsedTreeStays'
  BY DEF KInv, UsedTreeStays, CompleteRecord
<1>9. PinnedKept'
  BY DEF KInv, PinnedKept, CompleteRecord, ToPhase
<1>. QED  BY <1>1, <1>2, <1>3, <1>4, <1>5, <1>6, <1>7, <1>8, <1>9 DEF KInv

(* Fail keeps the inductive invariant.                                     *)
LEMMA FailStep ==
  ASSUME KInv, NEW o \in Ops, Fail(o)
  PROVE  KInv'
<1>1. KTypeOK'
  <2>1. record' \in [Ops -> DeletionRecord]
    BY RecordWrites DEF KInv, KTypeOK, Fail
  <2>2. Idle \in [op : Ops \cup {NoOp}, by : Attempts \cup {Agent}]
    BY DEF Idle
  <2>. QED  BY <2>1, <2>2 DEF KInv, KTypeOK, Fail
<1>2. RecordsGuarded'
  BY DEF KInv, RecordsGuarded, StepOf, Pending, Fail, Failed
<1>3. BusyGuarded'
  BY DEF BusyGuarded, Idle, Fail
<1>4. UsesRecorded'
  BY DEF KInv, UsesRecorded, Guarded, InThread, Fail
<1>5. TrashRecorded'
  BY DEF KInv, TrashRecorded, StepOf, Pending, Fail, Failed
<1>6. RemovedStays'
  BY DEF KInv, RemovedStays, StepOf, Past, Pending, Fail, Failed
<1>7. TreesBuilt'
  BY DEF KInv, TreesBuilt, Fail
<1>8. UsedTreeStays'
  BY DEF KInv, UsedTreeStays, Fail
<1>9. PinnedKept'
  BY DEF KInv, PinnedKept, Fail, Failed
<1>. QED  BY <1>1, <1>2, <1>3, <1>4, <1>5, <1>6, <1>7, <1>8, <1>9 DEF KInv

(* Resume keeps the inductive invariant.                                   *)
LEMMA ResumeStep ==
  ASSUME KInv, NEW o \in Ops, Resume(o)
  PROVE  KInv'
<1>1. KTypeOK'
  BY DEF KInv, KTypeOK, Resume
<1>2. RecordsGuarded'
  BY DEF KInv, RecordsGuarded, StepOf, Resume
<1>3. BusyGuarded'
  BY DEF BusyGuarded, Pending, Resume
<1>4. UsesRecorded'
  BY DEF KInv, UsesRecorded, Guarded, InThread, Resume
<1>5. TrashRecorded'
  BY DEF KInv, TrashRecorded, StepOf, Resume
<1>6. RemovedStays'
  BY DEF KInv, RemovedStays, StepOf, Past, Resume
<1>7. TreesBuilt'
  BY DEF KInv, TreesBuilt, Resume
<1>8. UsedTreeStays'
  BY DEF KInv, UsedTreeStays, Resume
<1>9. PinnedKept'
  BY DEF KInv, PinnedKept, Resume
<1>. QED  BY <1>1, <1>2, <1>3, <1>4, <1>5, <1>6, <1>7, <1>8, <1>9 DEF KInv

(* ForgetRecord keeps the inductive invariant.                             *)
LEMMA ForgetRecordStep ==
  ASSUME KInv, NEW o \in Ops, ForgetRecord(o)
  PROVE  KInv'
<1>1. KTypeOK'
  BY CacheAssumption DEF KInv, KTypeOK, TrashRecorded, StepOf, NoRecord,
     DeletionRecord, ForgetRecord
<1>2. RecordsGuarded'
  BY DEF KInv, RecordsGuarded, StepOf, Pending, NoRecord, ForgetRecord
<1>3. BusyGuarded'
  BY DEF KInv, KTypeOK, RecordsGuarded, BusyGuarded, StepOf, ForgetRecord
<1>4. UsesRecorded'
  BY DEF KInv, UsesRecorded, Guarded, InThread, ForgetRecord
<1>5. TrashRecorded'
  BY DEF KInv, TrashRecorded, StepOf, NoRecord, ForgetRecord
<1>6. RemovedStays'
  BY DEF KInv, TrashRecorded, RemovedStays, StepOf, Past, NoRecord,
     ForgetRecord
<1>7. TreesBuilt'
  BY DEF KInv, TreesBuilt, ForgetRecord
<1>8. UsedTreeStays'
  BY DEF KInv, UsedTreeStays, ForgetRecord
<1>9. PinnedKept'
  BY CacheAssumption DEF KInv, TrashRecorded, PinnedKept, StepOf,
     ForgetRecord
<1>. QED  BY <1>1, <1>2, <1>3, <1>4, <1>5, <1>6, <1>7, <1>8, <1>9 DEF KInv

(* AbortOrphan keeps the inductive invariant.                              *)
LEMMA AbortOrphanStep ==
  ASSUME KInv, NEW o \in Ops, AbortOrphan(o)
  PROVE  KInv'
<1>1. KTypeOK'
  BY DEF KInv, KTypeOK, AbortOrphan
<1>2. RecordsGuarded'
  BY DEF KInv, RecordsGuarded, StepOf, Pending, NoRecord, AbortOrphan,
     Orphan
<1>3. BusyGuarded'
  BY DEF BusyGuarded, Idle, AbortOrphan, LockFree
<1>4. UsesRecorded'
  BY DEF KInv, UsesRecorded, Guarded, InThread, AbortOrphan
<1>5. TrashRecorded'
  BY DEF KInv, TrashRecorded, StepOf, AbortOrphan
<1>6. RemovedStays'
  BY DEF KInv, RemovedStays, StepOf, Past, AbortOrphan
<1>7. TreesBuilt'
  BY DEF KInv, TreesBuilt, AbortOrphan
<1>8. UsedTreeStays'
  BY DEF KInv, UsedTreeStays, AbortOrphan
<1>9. PinnedKept'
  BY DEF PinnedKept, AbortOrphan
<1>. QED  BY <1>1, <1>2, <1>3, <1>4, <1>5, <1>6, <1>7, <1>8, <1>9 DEF KInv

(* RetryFailed keeps the inductive invariant.                              *)
LEMMA RetryFailedStep ==
  ASSUME KInv, NEW o \in Ops, RetryFailed(o)
  PROVE  KInv'
<1>1. KTypeOK'
  BY DEF KInv, KTypeOK, DeletionRecord, RetryFailed
<1>2. RecordsGuarded'
  BY DEF KInv, KTypeOK, RecordsGuarded, StepOf, Past, Agent, Pending,
     NoRecord, RetryFailed
<1>3. BusyGuarded'
  BY DEF KInv, KTypeOK, BusyGuarded, Pending, RetryFailed
<1>4. UsesRecorded'
  BY DEF KInv, UsesRecorded, Guarded, InThread, RetryFailed
<1>5. TrashRecorded'
  BY DEF KInv, KTypeOK, TrashRecorded, StepOf, Past, RetryFailed
<1>6. RemovedStays'
  BY DEF KInv, KTypeOK, RemovedStays, UsedTreeStays, PinnedKept, StepOf,
     Past, Pending, RetryFailed
<1>7. TreesBuilt'
  BY DEF KInv, TreesBuilt, RetryFailed
<1>8. UsedTreeStays'
  BY DEF KInv, UsedTreeStays, RetryFailed
<1>9. PinnedKept'
  BY DEF KInv, KTypeOK, PinnedKept, RetryFailed
<1>. QED  BY <1>1, <1>2, <1>3, <1>4, <1>5, <1>6, <1>7, <1>8, <1>9 DEF KInv

(* BeginUse keeps the inductive invariant.                                 *)
LEMMA BeginUseStep ==
  ASSUME KInv, NEW a \in Attempts, BeginUse(a)
  PROVE  KInv'
<1>1. KTypeOK'
  BY CacheAssumption DEF KInv, KTypeOK, CacheAttempt, BeginUse
<1>2. RecordsGuarded'
  BY DEF KInv, RecordsGuarded, StepOf, BeginUse
<1>3. BusyGuarded'
  BY DEF KInv, BusyGuarded, BeginUse
<1>4. UsesRecorded'
  BY DEF KInv, UsesRecorded, Guarded, InThread, BeginUse
<1>5. TrashRecorded'
  BY DEF KInv, TrashRecorded, StepOf, BeginUse
<1>6. RemovedStays'
  BY DEF KInv, RemovedStays, StepOf, Past, BeginUse
<1>7. TreesBuilt'
  BY DEF KInv, TreesBuilt, BeginUse
<1>8. UsedTreeStays'
  BY DEF KInv, UsedTreeStays, BeginUse
<1>9. PinnedKept'
  BY DEF KInv, PinnedKept, BeginUse
<1>. QED  BY <1>1, <1>2, <1>3, <1>4, <1>5, <1>6, <1>7, <1>8, <1>9 DEF KInv

(* BuildTree keeps the inductive invariant.                                *)
LEMMA BuildTreeStep ==
  ASSUME KInv, NEW a \in Attempts, BuildTree(a)
  PROVE  KInv'
<1>1. KTypeOK'
  BY CacheAssumption DEF KInv, KTypeOK, Trees, BuildTree
<1>2. RecordsGuarded'
  BY DEF KInv, RecordsGuarded, StepOf, BuildTree
<1>3. BusyGuarded'
  BY DEF KInv, BusyGuarded, BuildTree
<1>4. UsesRecorded'
  BY DEF KInv, UsesRecorded, Guarded, InThread, BuildTree
<1>5. TrashRecorded'
  BY DEF KInv, TrashRecorded, StepOf, BuildTree
<1>6. RemovedStays'
  BY DEF KInv, KTypeOK, UsesRecorded, TrashRecorded, RemovedStays, Guarded,
     BuildTree
<1>7. TreesBuilt'
  BY DEF KInv, KTypeOK, TreesBuilt, Trees, CacheAttempt, BuildTree
<1>8. UsedTreeStays'
  BY DEF KInv, UsedTreeStays, BuildTree
<1>9. PinnedKept'
  BY DEF KInv, TreesBuilt, PinnedKept, BuildTree
<1>. QED  BY <1>1, <1>2, <1>3, <1>4, <1>5, <1>6, <1>7, <1>8, <1>9 DEF KInv

(* RunOnTree keeps the inductive invariant.                                *)
LEMMA RunOnTreeStep ==
  ASSUME KInv, NEW a \in Attempts, RunOnTree(a)
  PROVE  KInv'
<1>1. KTypeOK'
  <2>1. attempt' \in [Attempts -> CacheAttempt]
    <3>1. attempt[a] \in CacheAttempt /\ attempt' = [attempt EXCEPT ![a].state = "running"]
      BY DEF KInv, KTypeOK, RunOnTree
    <3>2. [attempt[a] EXCEPT !.state = "running"] \in CacheAttempt
      BY <3>1 DEF CacheAttempt
    <3>. QED  BY <3>1, <3>2 DEF KInv, KTypeOK
  <2>2. sandbox' \in [Attempts -> Trees] /\ sidecar' \in Trees
    BY DEF KInv, KTypeOK, RunOnTree
  <2>. QED  BY <2>1, <2>2 DEF KInv, KTypeOK, RunOnTree
<1>2. RecordsGuarded'
  BY DEF KInv, RecordsGuarded, StepOf, RunOnTree
<1>3. BusyGuarded'
  BY DEF KInv, BusyGuarded, RunOnTree
<1>4. UsesRecorded'
  BY DEF KInv, KTypeOK, UsesRecorded, Guarded, InThread, RunOnTree
<1>5. TrashRecorded'
  BY DEF KInv, TrashRecorded, StepOf, RunOnTree
<1>6. RemovedStays'
  BY DEF KInv, RemovedStays, StepOf, Past, RunOnTree
<1>7. TreesBuilt'
  BY DEF KInv, TreesBuilt, RunOnTree
<1>8. UsedTreeStays'
  BY DEF KInv, UsedTreeStays, RunOnTree
<1>9. PinnedKept'
  BY DEF KInv, PinnedKept, RunOnTree
<1>. QED  BY <1>1, <1>2, <1>3, <1>4, <1>5, <1>6, <1>7, <1>8, <1>9 DEF KInv

(* LoseLease keeps the inductive invariant.                                *)
LEMMA LoseLeaseStep ==
  ASSUME KInv, NEW a \in Attempts, LoseLease(a)
  PROVE  KInv'
<1>1. KTypeOK'
  <2>1. attempt' \in [Attempts -> CacheAttempt]
    <3>1. attempt[a] \in CacheAttempt /\ attempt' = [attempt EXCEPT ![a].lost = TRUE]
      BY DEF KInv, KTypeOK, LoseLease
    <3>2. [attempt[a] EXCEPT !.lost = TRUE] \in CacheAttempt
      BY <3>1 DEF CacheAttempt
    <3>. QED  BY <3>1, <3>2 DEF KInv, KTypeOK
  <2>. QED  BY <2>1 DEF KInv, KTypeOK, LoseLease
<1>2. RecordsGuarded'
  BY DEF KInv, RecordsGuarded, StepOf, LoseLease
<1>3. BusyGuarded'
  BY DEF KInv, BusyGuarded, LoseLease
<1>4. UsesRecorded'
  BY DEF KInv, UsesRecorded, Guarded, InThread, LoseLease
<1>5. TrashRecorded'
  BY DEF KInv, TrashRecorded, StepOf, LoseLease
<1>6. RemovedStays'
  BY DEF KInv, RemovedStays, StepOf, Past, LoseLease
<1>7. TreesBuilt'
  BY DEF KInv, TreesBuilt, LoseLease
<1>8. UsedTreeStays'
  BY DEF KInv, UsedTreeStays, LoseLease
<1>9. PinnedKept'
  BY DEF KInv, PinnedKept, LoseLease
<1>. QED  BY <1>1, <1>2, <1>3, <1>4, <1>5, <1>6, <1>7, <1>8, <1>9 DEF KInv

(* EndUse keeps the inductive invariant.                                   *)
LEMMA EndUseStep ==
  ASSUME KInv, NEW a \in Attempts, EndUse(a)
  PROVE  KInv'
<1>1. KTypeOK'
  <2>1. 0 \in Trees
    BY NoTree
  <2>2. attempt' \in [Attempts -> CacheAttempt]
    <3>1. PICK s \in {"unclean", "ended"} :
            attempt' = [attempt EXCEPT ![a].state = s, ![a].tree = 0]
      BY DEF EndUse
    <3>2. attempt \in [Attempts -> CacheAttempt]
      BY DEF KInv, KTypeOK
    <3>. QED  BY <2>1, <3>1, <3>2, AttemptStored
  <2>3. sandbox' \in [Attempts -> Trees]
    BY <2>1 DEF KInv, KTypeOK, EndUse
  <2>4. uses' \subseteq Attempts
    BY DEF KInv, KTypeOK, EndUse, Release
  <2>. QED  BY <2>2, <2>3, <2>4 DEF KInv, KTypeOK, EndUse
<1>2. RecordsGuarded'
  BY DEF KInv, RecordsGuarded, StepOf, EndUse
<1>3. BusyGuarded'
  BY DEF KInv, KTypeOK, BusyGuarded, EndUse
<1>4. UsesRecorded'
  BY DEF KInv, KTypeOK, UsesRecorded, Guarded, InThread, EndUse, Release
<1>5. TrashRecorded'
  BY DEF KInv, TrashRecorded, StepOf, EndUse
<1>6. RemovedStays'
  BY DEF KInv, RemovedStays, StepOf, Past, EndUse
<1>7. TreesBuilt'
  BY DEF KInv, KTypeOK, TreesBuilt, Trees, EndUse
<1>8. UsedTreeStays'
  BY DEF KInv, UsedTreeStays, EndUse
<1>9. PinnedKept'
  BY DEF KInv, PinnedKept, EndUse
<1>. QED  BY <1>1, <1>2, <1>3, <1>4, <1>5, <1>6, <1>7, <1>8, <1>9 DEF KInv

(* SandboxRecovered keeps the inductive invariant.                         *)
LEMMA SandboxRecoveredStep ==
  ASSUME KInv, NEW a \in Attempts, SandboxRecovered(a)
  PROVE  KInv'
<1>1. KTypeOK'
  BY CacheAssumption DEF KInv, KTypeOK, Guarded, Trees, CacheAttempt,
     SandboxRecovered
<1>2. RecordsGuarded'
  BY DEF KInv, RecordsGuarded, StepOf, SandboxRecovered
<1>3. BusyGuarded'
  BY DEF KInv, BusyGuarded, SandboxRecovered
<1>4. UsesRecorded'
  BY DEF KInv, KTypeOK, UsesRecorded, Guarded, InThread, SandboxRecovered
<1>5. TrashRecorded'
  BY DEF KInv, TrashRecorded, StepOf, SandboxRecovered
<1>6. RemovedStays'
  BY DEF KInv, RemovedStays, StepOf, Past, SandboxRecovered
<1>7. TreesBuilt'
  BY DEF KInv, TreesBuilt, SandboxRecovered
<1>8. UsedTreeStays'
  BY DEF KInv, UsedTreeStays, SandboxRecovered
<1>9. PinnedKept'
  BY DEF KInv, PinnedKept, SandboxRecovered
<1>. QED  BY <1>1, <1>2, <1>3, <1>4, <1>5, <1>6, <1>7, <1>8, <1>9 DEF KInv

(* SetPin keeps the inductive invariant.                                   *)
LEMMA SetPinStep ==
  ASSUME KInv, NEW pin \in BOOLEAN, SetPin(pin)
  PROVE  KInv'
<1>1. KTypeOK'
  BY DEF KInv, KTypeOK, SetPin
<1>2. RecordsGuarded'
  BY DEF KInv, RecordsGuarded, StepOf, SetPin
<1>3. BusyGuarded'
  BY DEF KInv, BusyGuarded, SetPin
<1>4. UsesRecorded'
  BY DEF KInv, UsesRecorded, Guarded, InThread, SetPin
<1>5. TrashRecorded'
  BY DEF KInv, TrashRecorded, StepOf, SetPin
<1>6. RemovedStays'
  BY DEF KInv, RemovedStays, StepOf, Past, SetPin
<1>7. TreesBuilt'
  BY DEF KInv, TreesBuilt, SetPin
<1>8. UsedTreeStays'
  BY DEF KInv, UsedTreeStays, SetPin
<1>9. PinnedKept'
  BY DEF PinnedKept, SetPin
<1>. QED  BY <1>1, <1>2, <1>3, <1>4, <1>5, <1>6, <1>7, <1>8, <1>9 DEF KInv

(* Stop keeps the inductive invariant.                                     *)
LEMMA StopStep ==
  ASSUME KInv, Stop
  PROVE  KInv'
<1>1. KTypeOK'
  <2>1. 0 \in Trees
    BY NoTree
  <2>2. attempt' \in [Attempts -> CacheAttempt]
    <3>. DEFINE unclean(a) == [attempt[a] EXCEPT !.state = "unclean", !.tree = 0]
    <3>1. attempt \in [Attempts -> CacheAttempt]
      BY DEF KInv, KTypeOK
    <3>2. attempt' = [a \in Attempts |-> IF InThread(a) THEN unclean(a) ELSE attempt[a]]
      BY DEF Stop
    <3>3. \A a \in Attempts : unclean(a) \in CacheAttempt
      BY <2>1, <3>1, AttemptWrites, Zenon
    <3>. HIDE DEF unclean
    <3>. QED  BY <3>1, <3>2, <3>3
  <2>3. Idle \in [op : Ops \cup {NoOp}, by : Attempts \cup {Agent}]
    BY DEF Idle
  <2>4. stops' \in 0..MaxStops
    <3>1. stops \in 0..MaxStops /\ MaxStops \in Nat
      BY CacheAssumption DEF KInv, KTypeOK
    <3>2. stops < MaxStops /\ stops' = stops + 1
      BY DEF Stop
    <3>. QED  BY <3>1, <3>2
  <2>. QED  BY <2>2, <2>3, <2>4 DEF KInv, KTypeOK, Stop
<1>2. RecordsGuarded'
  BY DEF KInv, RecordsGuarded, StepOf, Stop
<1>3. BusyGuarded'
  BY DEF BusyGuarded, Idle, Stop
<1>4. UsesRecorded'
  <2>1. \A a \in Attempts : attempt'[a].state =
                             IF InThread(a) THEN "unclean" ELSE attempt[a].state
    BY DEF KInv, KTypeOK, CacheAttempt, Stop
  <2>2. UNCHANGED <<grant, uses, sandbox>>
    BY DEF Stop
  <2>. QED  BY <2>1, <2>2 DEF KInv, UsesRecorded, InThread
<1>5. TrashRecorded'
  BY DEF KInv, TrashRecorded, StepOf, Stop
<1>6. RemovedStays'
  BY DEF KInv, RemovedStays, StepOf, Past, Stop
<1>7. TreesBuilt'
  <2>1. \A a \in Attempts : attempt'[a].tree \in {0, attempt[a].tree}
    BY DEF KInv, KTypeOK, CacheAttempt, Stop
  <2>2. UNCHANGED <<entry, sidecar, pinned, built, staging>>
    BY DEF Stop
  <2>3. built \in Nat
    BY DEF KInv, KTypeOK, Trees
  <2>. QED  BY <2>1, <2>2, <2>3 DEF KInv, TreesBuilt
<1>8. UsedTreeStays'
  BY DEF KInv, UsedTreeStays, Stop
<1>9. PinnedKept'
  BY DEF KInv, PinnedKept, Stop
<1>. QED  BY <1>1, <1>2, <1>3, <1>4, <1>5, <1>6, <1>7, <1>8, <1>9 DEF KInv

(* Every step keeps the inductive invariant.                               *)
LEMMA KStep == KInv /\ [KNext]_cacheVars => KInv'
<1>. SUFFICES ASSUME KInv, [KNext]_cacheVars PROVE KInv'
  OBVIOUS
<1>1. ASSUME NEW o \in Ops, Advance(o) PROVE KInv'
  BY <1>1, WriteRecordStep, AcquireLostStep, TrashOldStep, OldIsTrashedStep,
     PublishStep, ReplaceVerifiedStep, ReplacementDoneStep, DeleteContentsStep,
     EmptyTrashStep, RemoveTrashStep, TrashRemovedStep, RetireStep,
     FinishGrantStep, CompleteRecordStep, FailStep DEF Advance
<1>2. ASSUME NEW o \in Ops,
             \/ BeginGc(o) \/ Resume(o) \/ ForgetRecord(o) \/ AbortOrphan(o)
             \/ RetryFailed(o) \/ \E a \in Attempts : BeginReplacement(o, a)
      PROVE  KInv'
  BY <1>2, BeginGcStep, ResumeStep, ForgetRecordStep, AbortOrphanStep,
     RetryFailedStep, BeginReplacementStep
<1>3. ASSUME NEW a \in Attempts,
             \/ BeginUse(a) \/ BuildTree(a) \/ RunOnTree(a) \/ LoseLease(a)
             \/ EndUse(a) \/ SandboxRecovered(a)
      PROVE  KInv'
  BY <1>3, BeginUseStep, BuildTreeStep, RunOnTreeStep, LoseLeaseStep,
     EndUseStep, SandboxRecoveredStep
<1>4. CASE Stop \/ \E pin \in BOOLEAN : SetPin(pin)
  BY <1>4, StopStep, SetPinStep
<1>5. CASE UNCHANGED cacheVars
  BY <1>5 DEF cacheVars, KInv, KTypeOK, RecordsGuarded, BusyGuarded,
     UsesRecorded, TrashRecorded, RemovedStays, TreesBuilt, UsedTreeStays,
     PinnedKept, StepOf, Past, Guarded, InThread
<1>. QED  BY <1>1, <1>2, <1>3, <1>4, <1>5 DEF KNext

(* The initial states satisfy the inductive invariant.                     *)
LEMMA KStart == KInit => KInv
<1>. SUFFICES ASSUME KInit PROVE KInv
  OBVIOUS
<1>1. KTypeOK
  <2>1. NoRecord \in DeletionRecord
    BY CacheAssumption DEF NoRecord, DeletionRecord, Trees
  <2>2. [state |-> "none", lost |-> FALSE, tree |-> 0] \in CacheAttempt
    BY CacheAssumption DEF CacheAttempt, Trees
  <2>. QED  BY <2>1, <2>2, CacheAssumption DEF KInit, KTypeOK, Trees, Idle
<1>2. RecordsGuarded /\ BusyGuarded /\ UsesRecorded /\ TrashRecorded
  BY DEF KInit, RecordsGuarded, BusyGuarded, UsesRecorded, TrashRecorded,
     StepOf, InThread, Idle, NoRecord, Pending
<1>3. RemovedStays /\ TreesBuilt /\ UsedTreeStays /\ PinnedKept
  BY DEF KInit, RemovedStays, TreesBuilt, UsedTreeStays, PinnedKept,
     NoRecord
<1>. QED  BY <1>1, <1>2, <1>3 DEF KInv

(* The inductive invariant holds in every reachable state.                 *)
LEMMA KInvariant == KSpec => []KInv
  BY KStart, KStep, PTL DEF KSpec

(* Records, guards, trees and uses stay within their types.                *)
THEOREM CacheTypes == KSpec => []KTypeOK
<1>1. KInv => KTypeOK  BY DEF KInv
<1>. QED  BY KInvariant, <1>1, PTL

(* No order of uses, collections, replacements, failures, stops and        *)
(* recoveries takes a tree from an Attempt, loses track of what lies in    *)
(* trash, reports a removal that did not happen, leaves a replaced entry   *)
(* without a tree, or deletes from a tree that was pinned in its place.    *)
THEOREM CacheSafe == KSpec => []CacheKept
<1>1. ASSUME KInv PROVE ReceiptTrue
  BY <1>1 DEF KInv, KTypeOK, DeletionRecord, RecordsGuarded, TrashRecorded,
     RemovedStays, ReceiptTrue, StepOf, Past
<1>2. ASSUME KInv PROVE OneTreeAlways
  BY <1>2 DEF KInv, TrashRecorded, RemovedStays, OneTreeAlways, Past
<1>3. KInv => CacheKept
  BY <1>1, <1>2 DEF KInv, CacheKept
<1>. QED  BY KInvariant, <1>3, PTL

(* Schedules, the consumer and the cache explored beside each other as     *)
(* MCBackground does: all three keep their types.                          *)
THEOREM BackgroundTypes == Spec => []TypeOK
<1>1. Init => SInit /\ KInit /\ \E stopped \in BOOLEAN : WInit(stopped)
  BY DEF Init
<1>2. [Next]_<<part, scheduleVars, consumerVars, cacheVars>> =>
        /\ [SNext]_scheduleVars
        /\ [WNext]_consumerVars
        /\ [KNext]_cacheVars
  BY DEF Next
<1>3. STypeOK /\ WTypeOK /\ KTypeOK => TypeOK
  BY DEF TypeOK
<1>4. SSpec => []STypeOK
  BY ScheduleTypes
<1>5. WSpec => []WTypeOK
  BY ConsumerTypes
<1>6. KSpec => []KTypeOK
  BY CacheTypes
<1>. QED  BY <1>1, <1>2, <1>3, <1>4, <1>5, <1>6, PTL DEF Spec, SSpec, WSpec, KSpec
=============================================================================
