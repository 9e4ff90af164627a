---------------------------- MODULE MCSocketCore ----------------------------
(* SocketCore on a few transports and descriptors. *)
EXTENDS SocketCore, TLC

Symmetry == Permutations(RawCreated) \cup Permutations(Trans \ RawCreated)
=============================================================================
