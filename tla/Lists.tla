------------------------------- MODULE Lists -------------------------------
(***************************************************************************)
(* The program's linked lists as sequences.  InsertAt and RemoveAt are     *)
(* those of SequencesExt; they are repeated here because every definition  *)
(* a module reaches is carried through each of its proof obligations, and  *)
(* that module reaches hundreds.                                           *)
(***************************************************************************)
EXTENDS Integers, Sequences

\* list_add before the i-th node.
InsertAt(s, i, e) == SubSeq(s, 1, i - 1) \o <<e>> \o SubSeq(s, i, Len(s))

\* list_del of the i-th node.
RemoveAt(s, i) == SubSeq(s, 1, i - 1) \o SubSeq(s, i + 1, Len(s))

\* No value is in two places of the list.
Distinct(s) == \A i, j \in DOMAIN s : s[i] = s[j] => i = j
=============================================================================
