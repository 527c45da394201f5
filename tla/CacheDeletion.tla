---------------------------- MODULE CacheDeletion ----------------------------
(***************************************************************************)
(* One version environment in a Worker's cache: its use by Attempts, its   *)
(* garbage collection by the agent, its replacement by a running Attempt,  *)
(* and the recovery of both after a failure or a crash of the Worker       *)
(* (worker/cache_deletion.py, worker/cache_lifecycle.py).  Control's side  *)
(* is what acquire_guard, check_guard and finish_guard promise; its        *)
(* transactions are in ReliableControl.                                    *)
(*                                                                         *)
(* A tree is a number; 0 is no tree.  Every durable effect is a step of    *)
(* its own: a rename, a removal, a sidecar, a record, a receipt at         *)
(* Control, so that the Worker can stop between any two.  Which effect     *)
(* comes next is read from the record and the directories, by a first run  *)
(* as by a recovery.                                                       *)
(***************************************************************************)
EXTENDS Integers, FiniteSets

CONSTANTS Ops,          \* ids of cache operations
          Attempts,     \* Attempts the Worker is given
          NoOp,         \* nobody advances an operation
          TreeSize,     \* nodes of a tree that rounds delete
          FailureLimit, \* failures before a record waits for an administrator
          MaxTrees,     \* bound of the model: trees ever built
          MaxStops,     \* bound of the model: stops of the Worker
          MaxRetries    \* bound of the model: retries an administrator grants

ASSUME CacheAssumption == /\ NoOp \notin Ops /\ "agent" \notin Attempts
                          /\ TreeSize \in Nat /\ FailureLimit \in Nat \ {0}
                          /\ MaxTrees \in Nat \ {0}
                          /\ MaxStops \in Nat /\ MaxRetries \in Nat

VARIABLES entry,     \* the tree at entries/<key>
          sidecar,   \* the tree the lifecycle facts identify
          pinned,    \* the administrator's pin, and if it came late
          built,     \* trees built so far
          trash,     \* per operation: nodes left in its trash, -1 for none
          staging,   \* per operation: its prepared new tree
          record,    \* per operation: its durable deletion record
          grant,     \* per operation: its phase at Control
          busy,      \* who advances which operation
          attempt,   \* Attempts: the thread and what Control knows of it
          sandbox,   \* the tree an Attempt's processes read
          uses,      \* Attempts with a durable use record
          stops

cacheVars == <<entry, sidecar, pinned, built, trash, staging, record, grant,
               busy, attempt, sandbox, uses, stops>>

Trees == 0..MaxTrees
Agent == "agent"
Idle == [op |-> NoOp, by |-> Agent]
Pending == {"recorded", "trashed", "empty_trash", "receipt_pending",
            "replacement_prepared", "replacement_old_trashed"}
NoRecord == [phase |-> "none", root |-> 0, new |-> 0, failures |-> 0,
             resume |-> "none", retries |-> 0]

DeletionRecord ==
  [phase : Pending \cup {"none", "failed", "completed"},
   root : Trees, new : Trees, failures : 0..FailureLimit,
   resume : Pending \cup {"none"}, retries : 0..MaxRetries]

CacheAttempt ==
  [state : {"none", "preparing", "replacing", "running", "unclean", "ended"},
   lost : BOOLEAN, tree : Trees]

KTypeOK ==
  /\ entry \in Trees /\ sidecar \in Trees /\ built \in Trees
  /\ pinned \in {"no", "yes", "late"}
  /\ trash \in [Ops -> -1..TreeSize]
  /\ staging \in [Ops -> Trees]
  /\ record \in [Ops -> DeletionRecord]
  /\ grant \in [Ops -> {"none", "acquired", "completed", "aborted"}]
  /\ busy \in [op : Ops \cup {NoOp}, by : Attempts \cup {Agent}]
  /\ attempt \in [Attempts -> CacheAttempt]
  /\ sandbox \in [Attempts -> Trees]
  /\ uses \subseteq Attempts
  /\ stops \in 0..MaxStops

KInit ==
  /\ entry = 1 /\ sidecar = 1 /\ built = 1 /\ pinned = "no"
  /\ trash = [o \in Ops |-> -1] /\ staging = [o \in Ops |-> 0]
  /\ record = [o \in Ops |-> NoRecord]
  /\ grant = [o \in Ops |-> "none"]
  /\ busy = Idle
  /\ attempt = [a \in Attempts |-> [state |-> "none", lost |-> FALSE, tree |-> 0]]
  /\ sandbox = [a \in Attempts |-> 0]
  /\ uses = {} /\ stops = 0

-----------------------------------------------------------------------------
(* The entry lock, local protection and Control's answers.                 *)

InThread(a) == attempt[a].state \in {"preparing", "replacing", "running"}
LockFree == busy = Idle /\ ~\E a \in Attempts : InThread(a)

(* acquire_guard: one operation of a Revision at a time, and no reference  *)
(* by an Attempt, its unfinished cleanup included.                         *)
Guarded == \E o \in Ops : grant[o] = "acquired"
Referenced(others) ==
  \E a \in others : attempt[a].state \notin {"none", "ended"}

(* _local_safe: nobody uses the tree, or only the Attempt that replaces it.*)
LocalSafe(by) == uses \subseteq (IF by = Agent THEN {} ELSE {by})

(* _guard, _active_replacement_guard.                                      *)
StillGranted(o) ==
  grant[o] \in {"acquired"} \cup
    (IF record[o].phase = "receipt_pending" THEN {"completed"} ELSE {})
OwnerCurrent == busy.by # Agent => ~attempt[busy.by].lost
Authorized(o) == LocalSafe(busy.by) /\ StillGranted(o)

-----------------------------------------------------------------------------
(* Beginning an operation: the guard first, then the local record.         *)

BeginGc(o) ==
  /\ LockFree /\ LocalSafe(Agent)
  /\ entry # 0 /\ sidecar = entry /\ pinned = "no"
  /\ grant[o] = "none" /\ ~Guarded /\ ~Referenced(Attempts)
  /\ grant' = [grant EXCEPT ![o] = "acquired"]
  /\ busy' = [op |-> o, by |-> Agent]
  /\ UNCHANGED <<entry, sidecar, pinned, built, trash, staging, record,
                 attempt, sandbox, uses, stops>>

(* begin_replacement, from a build whose environment has to change.        *)
BeginReplacement(o, a) ==
  /\ attempt[a].state = "preparing" /\ built < MaxTrees
  /\ entry # 0 /\ sidecar \in {0, entry} /\ pinned = "no" /\ LocalSafe(a)
  /\ grant[o] = "none" /\ ~Guarded
  /\ ~attempt[a].lost /\ ~Referenced(Attempts \ {a})
  /\ grant' = [grant EXCEPT ![o] = "acquired"]
  /\ busy' = [op |-> o, by |-> a]
  /\ built' = built + 1
  /\ sidecar' = entry
  /\ attempt' = [attempt EXCEPT ![a].state = "replacing", ![a].tree = built + 1]
  /\ UNCHANGED <<entry, pinned, trash, staging, record, sandbox, uses, stops>>

WriteRecord(o) ==
  /\ busy.op = o /\ record[o] = NoRecord
  /\ LET new == IF busy.by = Agent THEN 0 ELSE attempt[busy.by].tree
     IN /\ record' = [record EXCEPT ![o] =
              [NoRecord EXCEPT !.root = entry, !.new = new,
                 !.phase = IF new = 0 THEN "recorded" ELSE "replacement_prepared"]]
        /\ staging' = [staging EXCEPT ![o] = new]
  /\ UNCHANGED <<entry, sidecar, pinned, built, trash, grant, busy, attempt,
                 sandbox, uses, stops>>

(* The answer to acquire is lost, or the record cannot be written.         *)
AcquireLost(o) ==
  /\ busy.op = o /\ record[o] = NoRecord
  /\ busy' = Idle
  /\ UNCHANGED <<entry, sidecar, pinned, built, trash, staging, record, grant,
                 attempt, sandbox, uses, stops>>

-----------------------------------------------------------------------------
(* _advance_locked.                                                        *)

At(o, phase) == busy.op = o /\ record[o].phase = phase
ToPhase(o, phase) == record' = [record EXCEPT ![o].phase = phase]

(* The first rename; garbage collection looks at the pin once more.        *)
TrashOld(o) ==
  /\ \/ At(o, "recorded") /\ sidecar = entry /\ pinned = "no"
     \/ At(o, "replacement_prepared") /\ staging[o] # 0
  /\ entry = record[o].root /\ trash[o] = -1
  /\ Authorized(o) /\ OwnerCurrent
  /\ entry' = 0
  /\ trash' = [trash EXCEPT ![o] = TreeSize]
  /\ UNCHANGED <<sidecar, pinned, built, staging, record, grant, busy, attempt,
                 sandbox, uses, stops>>

OldIsTrashed(o) ==
  /\ trash[o] # -1
  /\ \/ At(o, "recorded") /\ entry = 0 /\ ToPhase(o, "trashed")
     \/ At(o, "replacement_prepared") /\ ToPhase(o, "replacement_old_trashed")
  /\ UNCHANGED <<entry, sidecar, pinned, built, trash, staging, grant, busy,
                 attempt, sandbox, uses, stops>>

Publish(o) ==
  /\ At(o, "replacement_old_trashed") /\ staging[o] # 0 /\ entry = 0
  /\ Authorized(o) /\ OwnerCurrent
  /\ entry' = staging[o]
  /\ staging' = [staging EXCEPT ![o] = 0]
  /\ UNCHANGED <<sidecar, pinned, built, trash, record, grant, busy, attempt,
                 sandbox, uses, stops>>

(* Mutant: the old tree is given up before the new one is in its place.    *)
NewInPlaceUnchecked(o) == TRUE

(* replace_verified is idempotent and refuses a pinned entry.              *)
NewInPlace(o) == staging[o] = 0 /\ entry = record[o].new /\ pinned = "no"

ReplaceVerified(o) ==
  /\ At(o, "replacement_old_trashed") /\ NewInPlace(o)
  /\ sidecar = record[o].root
  /\ sidecar' = record[o].new
  /\ UNCHANGED <<entry, pinned, built, trash, staging, record, grant, busy,
                 attempt, sandbox, uses, stops>>

ReplacementDone(o) ==
  /\ At(o, "replacement_old_trashed") /\ NewInPlace(o)
  /\ sidecar = record[o].new
  /\ ToPhase(o, "trashed")
  /\ UNCHANGED <<entry, sidecar, pinned, built, trash, staging, grant, busy,
                 attempt, sandbox, uses, stops>>

(* A round deletes what its budget allows and leaves the rest in progress. *)
DeleteContents(o) ==
  /\ At(o, "trashed") /\ Authorized(o) /\ trash[o] > 0
  /\ \E left \in 0..(trash[o] - 1) :
       /\ trash' = [trash EXCEPT ![o] = left]
       /\ busy' = IF left = 0 THEN busy ELSE Idle
  /\ UNCHANGED <<entry, sidecar, pinned, built, staging, record, grant,
                 attempt, sandbox, uses, stops>>

EmptyTrash(o) ==
  /\ At(o, "trashed") /\ Authorized(o) /\ trash[o] = 0
  /\ ToPhase(o, "empty_trash")
  /\ UNCHANGED <<entry, sidecar, pinned, built, trash, staging, grant, busy,
                 attempt, sandbox, uses, stops>>

RemoveTrash(o) ==
  /\ At(o, "empty_trash") /\ Authorized(o) /\ trash[o] = 0
  /\ trash' = [trash EXCEPT ![o] = -1]
  /\ UNCHANGED <<entry, sidecar, pinned, built, staging, record, grant, busy,
                 attempt, sandbox, uses, stops>>

TrashRemoved(o) ==
  /\ At(o, "empty_trash") /\ Authorized(o) /\ trash[o] = -1
  /\ ToPhase(o, "receipt_pending")
  /\ UNCHANGED <<entry, sidecar, pinned, built, trash, staging, grant, busy,
                 attempt, sandbox, uses, stops>>

(* _retire_deleted_instance, while the guard is still held.                *)
Retire(o) ==
  /\ At(o, "receipt_pending") /\ grant[o] = "acquired"
  /\ record[o].new = 0 /\ entry = 0 /\ trash[o] = -1
  /\ sidecar = record[o].root /\ pinned = "no"
  /\ sidecar' = 0
  /\ UNCHANGED <<entry, pinned, built, trash, staging, record, grant, busy,
                 attempt, sandbox, uses, stops>>

ReceiptDue(o) == record[o].phase = "receipt_pending"
                 /\ (record[o].new # 0 \/ (entry = 0 /\ sidecar = 0))

FinishGrant(o) ==
  /\ busy.op = o /\ ReceiptDue(o) /\ grant[o] = "acquired"
  /\ grant' = [grant EXCEPT ![o] = "completed"]
  /\ UNCHANGED <<entry, sidecar, pinned, built, trash, staging, record, busy,
                 attempt, sandbox, uses, stops>>

CompleteRecord(o) ==
  /\ At(o, "receipt_pending") /\ grant[o] = "completed"
  /\ ToPhase(o, "completed")
  /\ busy' = Idle
  /\ UNCHANGED <<entry, sidecar, pinned, built, trash, staging, grant, attempt,
                 sandbox, uses, stops>>

(* A check that fails, an I/O error or an unreachable Control; the effect  *)
(* of the last step stays.                                                 *)
Failed(r) ==
  IF r.failures + 1 < FailureLimit THEN [r EXCEPT !.failures = @ + 1]
  ELSE [r EXCEPT !.failures = FailureLimit, !.resume = r.phase,
                 !.phase = "failed"]

Fail(o) ==
  /\ busy.op = o \/ LockFree
  /\ record[o].phase \in Pending
  /\ record' = [record EXCEPT ![o] = Failed(@)]
  /\ busy' = Idle
  /\ UNCHANGED <<entry, sidecar, pinned, built, trash, staging, grant, attempt,
                 sandbox, uses, stops>>

Advance(o) ==
  \/ WriteRecord(o) \/ AcquireLost(o) \/ TrashOld(o) \/ OldIsTrashed(o)
  \/ Publish(o) \/ ReplaceVerified(o) \/ ReplacementDone(o)
  \/ DeleteContents(o) \/ EmptyTrash(o) \/ RemoveTrash(o) \/ TrashRemoved(o)
  \/ Retire(o) \/ FinishGrant(o) \/ CompleteRecord(o) \/ Fail(o)

-----------------------------------------------------------------------------
(* recover_round and the administrator.                                    *)

Resume(o) ==
  /\ LockFree /\ record[o].phase \in Pending
  /\ LocalSafe(Agent) /\ StillGranted(o)
  /\ busy' = [op |-> o, by |-> Agent]
  /\ UNCHANGED <<entry, sidecar, pinned, built, trash, staging, record, grant,
                 attempt, sandbox, uses, stops>>

ForgetRecord(o) ==
  /\ record[o].phase = "completed"
  /\ record' = [record EXCEPT ![o] = NoRecord]
  /\ UNCHANGED <<entry, sidecar, pinned, built, trash, staging, grant, busy,
                 attempt, sandbox, uses, stops>>

(* Mutant: only guards with a local record are looked at.                  *)
NeverOrphan(o) == FALSE

(* A guard without a local record.                                         *)
Orphan(o) == grant[o] = "acquired" /\ record[o] = NoRecord

(* _abort_orphan: the untouched tree is still in its place.                *)
AbortOrphan(o) ==
  /\ LockFree /\ Orphan(o) /\ LocalSafe(Agent)
  /\ entry # 0 /\ sidecar = entry /\ trash[o] = -1
  /\ grant' = [grant EXCEPT ![o] = "aborted"]
  /\ UNCHANGED <<entry, sidecar, pinned, built, trash, staging, record, busy,
                 attempt, sandbox, uses, stops>>

(* retry_failed_operation grants one more try.                             *)
RetryFailed(o) ==
  /\ LockFree /\ record[o].phase = "failed" /\ record[o].retries < MaxRetries
  /\ record' = [record EXCEPT ![o].phase = record[o].resume,
                              ![o].resume = "none", ![o].retries = @ + 1]
  /\ UNCHANGED <<entry, sidecar, pinned, built, trash, staging, grant, busy,
                 attempt, sandbox, uses, stops>>

(* apply_admin_protection looks only at the sidecar.                       *)
SetPin(pin) ==
  /\ LockFree /\ sidecar # 0 /\ pin # (pinned # "no")
  /\ pinned' = IF pin THEN IF entry = sidecar THEN "yes" ELSE "late" ELSE "no"
  /\ UNCHANGED <<entry, sidecar, built, trash, staging, record, grant, busy,
                 attempt, sandbox, uses, stops>>

-----------------------------------------------------------------------------
(* Attempts.                                                               *)

(* A Claim, refused while the Revision is guarded, and CacheUse.__enter__. *)
BeginUse(a) ==
  /\ attempt[a].state = "none" /\ LockFree /\ ~Guarded
  /\ attempt' = [attempt EXCEPT ![a].state = "preparing"]
  /\ uses' = uses \cup {a}
  /\ UNCHANGED <<entry, sidecar, pinned, built, trash, staging, record, grant,
                 busy, sandbox, stops>>

BuildTree(a) ==
  /\ attempt[a].state = "preparing" /\ entry = 0 /\ built < MaxTrees
  /\ built' = built + 1
  /\ entry' = built + 1
  /\ UNCHANGED <<sidecar, pinned, trash, staging, record, grant, busy, attempt,
                 sandbox, uses, stops>>

(* The verified tree is observed in the sidecar and the payload runs on it;*)
(* after a replacement it has to be the new one.                           *)
RunOnTree(a) ==
  /\ entry # 0 /\ busy.by # a
  /\ \/ attempt[a].state = "preparing"
     \/ attempt[a].state = "replacing" /\ entry = attempt[a].tree
  /\ attempt' = [attempt EXCEPT ![a].state = "running"]
  /\ sandbox' = [sandbox EXCEPT ![a] = entry]
  /\ sidecar' = IF sidecar = 0 THEN entry ELSE sidecar
  /\ UNCHANGED <<entry, pinned, built, trash, staging, record, grant, busy,
                 uses, stops>>

(* Control gives the Attempt up while its thread goes on.                  *)
LoseLease(a) ==
  /\ InThread(a) /\ ~attempt[a].lost
  /\ attempt' = [attempt EXCEPT ![a].lost = TRUE]
  /\ UNCHANGED <<entry, sidecar, pinned, built, trash, staging, record, grant,
                 busy, sandbox, uses, stops>>

(* CacheUse.release: the use ends only with a proven cleanup.              *)
Release(a, emptied) == IF emptied THEN uses \ {a} ELSE uses

EndUse(a) ==
  /\ InThread(a) /\ busy.by # a
  /\ \E emptied \in BOOLEAN :
       /\ uses' = Release(a, emptied)
       /\ sandbox' = IF emptied THEN [sandbox EXCEPT ![a] = 0] ELSE sandbox
       /\ attempt' = [attempt EXCEPT
            ![a].state = IF a \in uses' THEN "unclean" ELSE "ended",
            ![a].tree = 0]
  /\ UNCHANGED <<entry, sidecar, pinned, built, trash, staging, record, grant,
                 busy, stops>>

(* The Worker stops: locks go, processes and durable records stay.         *)
Stop ==
  /\ stops < MaxStops
  /\ stops' = stops + 1
  /\ busy' = Idle
  /\ attempt' = [a \in Attempts |->
       IF InThread(a) THEN [attempt[a] EXCEPT !.state = "unclean", !.tree = 0]
       ELSE attempt[a]]
  /\ UNCHANGED <<entry, sidecar, pinned, built, trash, staging, record, grant,
                 sandbox, uses>>

(* Sandbox recovery ends the processes and Control hears of the cleanup;   *)
(* the use record stays.                                                   *)
SandboxRecovered(a) ==
  /\ attempt[a].state = "unclean"
  /\ attempt' = [attempt EXCEPT ![a].state = "ended"]
  /\ sandbox' = [sandbox EXCEPT ![a] = 0]
  /\ UNCHANGED <<entry, sidecar, pinned, built, trash, staging, record, grant,
                 busy, uses, stops>>

-----------------------------------------------------------------------------
KNext ==
  \/ \E o \in Ops :
       \/ BeginGc(o) \/ Advance(o) \/ Resume(o) \/ ForgetRecord(o)
       \/ AbortOrphan(o) \/ RetryFailed(o)
       \/ \E a \in Attempts : BeginReplacement(o, a)
  \/ \E a \in Attempts :
       \/ BeginUse(a) \/ BuildTree(a) \/ RunOnTree(a) \/ LoseLease(a)
       \/ EndUse(a) \/ SandboxRecovered(a)
  \/ \E pin \in BOOLEAN : SetPin(pin)
  \/ Stop

KSpec == KInit /\ [][KNext]_cacheVars

(* A started operation goes on, the agent repeats recover_round, which     *)
(* comes to every local record and every guard, and every Attempt ends.    *)
KFairness ==
  /\ \A o \in Ops : /\ WF_cacheVars(busy.op = o /\ Advance(o))
                    /\ WF_cacheVars(Resume(o) \/ Fail(o))
                    /\ WF_cacheVars(AbortOrphan(o))
  /\ \A a \in Attempts : WF_cacheVars(EndUse(a))

-----------------------------------------------------------------------------
(* Whatever an Attempt's processes may still read stays in its place.      *)
UsedTreeStays == \A a \in Attempts : sandbox[a] # 0 => entry = sandbox[a]

(* While something of a tree lies in trash, the Revision is guarded at     *)
(* Control, and a finished operation has left nothing of what it removed.  *)
ReceiptTrue ==
  \A o \in Ops :
    /\ trash[o] # -1 => grant[o] = "acquired"
    /\ grant[o] = "completed" /\ record[o] # NoRecord => entry # record[o].root

(* A replacement destroys nothing of the old tree before the new one is in *)
(* its place and in the sidecar.                                           *)
OneTreeAlways ==
  \A o \in Ops :
    record[o].new # 0 /\ trash[o] \in 0..(TreeSize - 1) =>
      entry = record[o].new /\ sidecar = record[o].new

(* A pin set while the tree was in its place protects its contents.        *)
PinnedKept ==
  pinned = "yes" => \/ entry = sidecar
                    \/ \E o \in Ops : /\ record[o].root = sidecar
                                      /\ trash[o] = TreeSize

(* The cache survives every order of uses, collections, replacements,      *)
(* failures, stops and recoveries (worker/cache_deletion.py).              *)
CacheKept == UsedTreeStays /\ ReceiptTrue /\ OneTreeAlways /\ PinnedKept

(* A guard is not forgotten: there is one at a time, and its operation is  *)
(* finished or aborted, also after a stop at any point, unless it waits    *)
(* for an administrator, for a use that was never proven to be over, or    *)
(* behind a pin.                                                           *)
DeletionEnds ==
  Guarded ~> \/ ~Guarded \/ uses # {} \/ pinned # "no"
             \/ \E o \in Ops : record[o].phase = "failed"
=============================================================================
