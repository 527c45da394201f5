-------------------------- MODULE MCSubscriptions --------------------------
(* Reception and custody of a subscription, explored one at a time: they   *)
(* share no variable, and a behaviour moves the component chosen in Init.  *)
(* The other one stays in its initial state, in which nothing it is fair   *)
(* to is enabled.                                                          *)
EXTENDS SubscriptionListener, SubscriptionDelivery

VARIABLE part

Init == part \in {"listener", "delivery"} /\ LInit /\ CInit

Next == /\ UNCHANGED part
        /\ \/ part = "listener" /\ LNext /\ UNCHANGED deliveryVars
           \/ part = "delivery" /\ CNext /\ UNCHANGED listenerVars

Spec == /\ Init /\ [][Next]_<<part, listenerVars, deliveryVars>>
        /\ LFairness /\ CFairness

(* The type invariants of both components.                                 *)
TypeOK == LTypeOK /\ CTypeOK
=============================================================================
