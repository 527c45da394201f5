------------------------- MODULE ExecutionLifecycle -------------------------
(***************************************************************************)
(* What the reliable runtime promises of an Execution, without any of its  *)
(* machinery: no Outbox, Broker, Worker, lease, fence or Incident.         *)
(*                                                                         *)
(* An accepted Execution waits its turn, is attempted at most MaxAttempts  *)
(* times and ends once; an Adapter runs one Execution at a time; the       *)
(* Executions that have not ended never exceed the configured capacity; a  *)
(* cancellation that was asked for is the only outcome left.               *)
(***************************************************************************)
EXTENDS Integers, FiniteSets

CONSTANTS Adapters, Execs, AdapterOf, MaxAttempts, AdapterCap, GlobalCap

VARIABLES
    status,       \* what the caller sees
    attempts,     \* attempts begun so far
    cancelling    \* the caller cancelled while it was running

avars == <<status, attempts, cancelling>>

Unfinished == {"queued", "running", "retry_wait"}

UnfinishedOf(a) == {e \in Execs : AdapterOf[e] = a /\ status[e] \in Unfinished}

Init ==
    /\ status = [e \in Execs |-> "absent"]
    /\ attempts = [e \in Execs |-> 0]
    /\ cancelling = [e \in Execs |-> FALSE]

Accept(e) ==
    /\ status[e] = "absent"
    /\ Cardinality(UnfinishedOf(AdapterOf[e])) < AdapterCap
    /\ Cardinality({d \in Execs : status[d] \in Unfinished}) < GlobalCap
    /\ status' = [status EXCEPT ![e] = "queued"]
    /\ UNCHANGED <<attempts, cancelling>>

Begin(e) ==
    /\ status[e] = "queued"
    /\ attempts[e] < MaxAttempts
    /\ \A d \in Execs : AdapterOf[d] = AdapterOf[e] => status[d] # "running"
    /\ status' = [status EXCEPT ![e] = "running"]
    /\ attempts' = [attempts EXCEPT ![e] = @ + 1]
    /\ UNCHANGED cancelling

\* An attempt ends the Execution or, while attempts are left and nobody
\* cancelled, sends it back to wait.
End(e) ==
    /\ status[e] = "running"
    /\ \E s \in {"succeeded", "dead_letter", "cancelled", "retry_wait"} :
          /\ cancelling[e] => s = "cancelled"
          /\ s = "retry_wait" => attempts[e] < MaxAttempts
          /\ status' = [status EXCEPT ![e] = s]
    /\ UNCHANGED <<attempts, cancelling>>

Requeue(e) ==
    /\ status[e] = "retry_wait"
    /\ status' = [status EXCEPT ![e] = "queued"]
    /\ UNCHANGED <<attempts, cancelling>>

CancelWaiting(e) ==
    /\ status[e] \in {"queued", "retry_wait"}
    /\ status' = [status EXCEPT ![e] = "cancelled"]
    /\ UNCHANGED <<attempts, cancelling>>

CancelRunning(e) ==
    /\ status[e] = "running"
    /\ cancelling' = [cancelling EXCEPT ![e] = TRUE]
    /\ UNCHANGED <<status, attempts>>

Next ==
    \E e \in Execs :
       \/ Accept(e)
       \/ Begin(e)
       \/ End(e)
       \/ Requeue(e)
       \/ CancelWaiting(e)
       \/ CancelRunning(e)

Spec == Init /\ [][Next]_avars
=============================================================================
