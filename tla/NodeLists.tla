----------------------------- MODULE NodeLists -----------------------------
(***************************************************************************)
(* Lists of nodes kept in the order of rank, as the mixers of a conference *)
(* keep theirs.                                                            *)
(***************************************************************************)
EXTENDS Lists

\* Where a node joins a list kept in the order of rank: before the first node
\* that ranks higher, so after its equals.
Joins(s, i, n, rank) ==
    /\ i <= Len(s) => rank[n] < rank[s[i]]
    /\ \A k \in 1 .. i - 1 : rank[s[k]] <= rank[n]

Ordered(s, rank) == \A j, k \in DOMAIN s : j < k => rank[s[j]] <= rank[s[k]]

Members(s) == {s[k] : k \in DOMAIN s}
=============================================================================
