------------------------- MODULE MCReliableDispatch -------------------------
(***************************************************************************)
(* Small instances of ReliableDispatch for TLC.                            *)
(***************************************************************************)
EXTENDS ReliableDispatch, TLC

OneAdapter == [e \in Execs |-> CHOOSE a \in Adapters : TRUE]

Symmetry == Permutations(Execs) \cup Permutations(Relays) \cup Permutations(Tickets)
=============================================================================
