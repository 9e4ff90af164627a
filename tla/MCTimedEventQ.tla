---------------------------- MODULE MCTimedEventQ ----------------------------
(* TimedEventQ on small sets of threads and units. *)
EXTENDS TimedEventQ, TLC

Symmetry == Permutations(Units) \cup Permutations(Clients) \cup Permutations(Pollers)
=============================================================================
