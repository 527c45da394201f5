---------------------------- MODULE MCBackground ----------------------------
(* Three components that run beside the reliable core, explored one at a   *)
(* time: they share no variable, and a behaviour moves the one chosen in   *)
(* Init.  The others stay in a state in which nothing they are fair to is  *)
(* enabled; the consumer that is not chosen has been told to stop.         *)
EXTENDS Schedule, WorkerConsumer, CacheDeletion

VARIABLE part

Init == /\ part \in {"schedule", "consumer", "cache"}
        /\ SInit /\ KInit
        /\ WInit(part # "consumer")
        /\ part # "schedule" => schedule.policy = "coalesce_latest"

Next == /\ UNCHANGED part
        /\ \/ part = "schedule" /\ SNext /\ UNCHANGED <<consumerVars, cacheVars>>
           \/ part = "consumer" /\ WNext /\ UNCHANGED <<scheduleVars, cacheVars>>
           \/ part = "cache" /\ KNext /\ UNCHANGED <<scheduleVars, consumerVars>>

Spec == /\ Init /\ [][Next]_<<part, scheduleVars, consumerVars, cacheVars>>
        /\ SFairness /\ WFairness /\ KFairness

(* The type invariants of the three components.                            *)
TypeOK == STypeOK /\ WTypeOK /\ KTypeOK
=============================================================================
