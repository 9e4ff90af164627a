---------------------------- MODULE MCPollerLoop ----------------------------
(* PollerLoop on small sets of threads and units. *)
EXTENDS PollerLoop, TLC

Symmetry == Permutations(Units) \cup Permutations(Clients)
=============================================================================
