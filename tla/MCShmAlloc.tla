----------------------------- MODULE MCShmAlloc -----------------------------
(***************************************************************************)
(* A chunk of six times the smallest useful block.  Requests of 5 to 7     *)
(* bytes are rounded like one of 8.                                        *)
(***************************************************************************)
EXTENDS ShmAlloc
=============================================================================
