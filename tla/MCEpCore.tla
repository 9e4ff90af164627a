------------------------------ MODULE MCEpCore ------------------------------
(* EpCore on a few timers and transports. *)
EXTENDS EpCore, TLC

Symmetry == Permutations(Nodes) \cup Permutations(Transports)
=============================================================================
