------------------------- MODULE MCReliableControl -------------------------
(***************************************************************************)
(* Small instances of ReliableControl for TLC.                             *)
(***************************************************************************)
EXTENDS ReliableControl, TLC

\* Every Execution shares the one Adapter, so that they compete for its Slot.
OneAdapter == [e \in Execs |-> CHOOSE a \in Adapters : TRUE]

RelaySymmetry == Permutations(Relays)
ExecSymmetry == Permutations(Execs) \cup Permutations(Relays)
=============================================================================
