--------------------------- MODULE MCSocketSender ---------------------------
(* SocketSender on small sets of packets, transports and descriptors. *)
EXTENDS SocketSender, TLC

Symmetry == Permutations(Packets) \cup Permutations(Trans) \cup Permutations(Fds)
=============================================================================
