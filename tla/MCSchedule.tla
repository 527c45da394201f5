----------------------------- MODULE MCSchedule ------------------------------
(* Two schedulers are interchangeable. *)
EXTENDS Schedule, TLC

Symmetry == Permutations(Schedulers)

=============================================================================
