----------------------------- MODULE ListLemmas -----------------------------
(***************************************************************************)
(* What inserting into, removing from and cutting a list does to its       *)
(* positions.  The linked lists of the program (the timer list, the socket *)
(* list, the send queues) are sequences here; these facts carry the proofs *)
(* that the lists stay ordered and free of duplicates.                     *)
(*                                                                         *)
(* At the end, sums over a list.  What a recursive function computes is    *)
(* proved by taking the least argument at which it would be wrong.         *)
(***************************************************************************)
EXTENDS NodeLists, WellFoundedInduction, TLAPS

\* Position k of InsertAt(s, i, e) holds position k of s, e, or position k - 1
\* of s: the splice of a node before the i-th one.
LEMMA InsertAtFacts ==
    ASSUME NEW S, NEW s \in Seq(S), NEW i \in 1 .. Len(s) + 1, NEW e \in S
    PROVE  /\ InsertAt(s, i, e) \in Seq(S)
           /\ Len(InsertAt(s, i, e)) = Len(s) + 1
           /\ \A k \in 1 .. i - 1 : InsertAt(s, i, e)[k] = s[k]
           /\ InsertAt(s, i, e)[i] = e
           /\ \A k \in i + 1 .. Len(s) + 1 : InsertAt(s, i, e)[k] = s[k - 1]
<1> DEFINE a == SubSeq(s, 1, i - 1)
           b == SubSeq(s, i, Len(s))
<1>1. a \in Seq(S) /\ Len(a) = i - 1 /\ \A k \in 1 .. i - 1 : a[k] = s[k]
  BY SMT, SMTT(30)
<1>2. /\ b \in Seq(S) /\ Len(b) = Len(s) - i + 1
      /\ \A k \in 1 .. Len(s) - i + 1 : b[k] = s[i + k - 1]
  BY SMT, SMTT(30)
<1> HIDE DEF a, b
<1>3. /\ a \o <<e>> \in Seq(S) /\ Len(a \o <<e>>) = i
      /\ \A k \in 1 .. i - 1 : (a \o <<e>>)[k] = s[k]
      /\ (a \o <<e>>)[i] = e
  BY SMT, SMTT(30), <1>1
<1> DEFINE ae == a \o <<e>>
<1> HIDE DEF ae
<1>4. /\ ae \o b \in Seq(S) /\ Len(ae \o b) = Len(s) + 1
      /\ \A k \in 1 .. i : (ae \o b)[k] = ae[k]
      /\ \A k \in i + 1 .. Len(s) + 1 : (ae \o b)[k] = b[k - i]
  BY ONLY SMT, SMTT(30), <1>2, <1>3 DEF ae
<1>5. ASSUME NEW k \in i + 1 .. Len(s) + 1
      PROVE  b[k - i] = s[k - 1]
  <2>1. k - i \in 1 .. Len(s) - i + 1 /\ i + (k - i) - 1 = k - 1
    BY SMT, SMTT(30)
  <2> QED
    BY ZenonT(30), <1>2, <2>1
<1>6. InsertAt(s, i, e) = ae \o b
  BY DEF InsertAt, ae, a, b
<1> QED
  BY ONLY SMT, SMTT(30), <1>3, <1>4, <1>5, <1>6 DEF ae

\* The same, with the facts under one name: v is s with e put in at place i.
InsertedAt(S, s, i, e, v) ==
    /\ v \in Seq(S) /\ Len(v) = Len(s) + 1
    /\ \A k \in 1 .. i - 1 : v[k] = s[k]
    /\ v[i] = e
    /\ \A k \in i + 1 .. Len(s) + 1 : v[k] = s[k - 1]

LEMMA InsertAtInserts ==
    ASSUME NEW S, NEW s \in Seq(S), NEW i \in 1 .. Len(s) + 1, NEW e \in S
    PROVE  InsertedAt(S, s, i, e, InsertAt(s, i, e))
  BY SMT, SMTT(30), InsertAtFacts DEF InsertedAt

\* Unlinking the i-th node moves the later ones up by one.
LEMMA RemoveAtFacts ==
    ASSUME NEW S, NEW s \in Seq(S), NEW i \in 1 .. Len(s)
    PROVE  /\ RemoveAt(s, i) \in Seq(S)
           /\ Len(RemoveAt(s, i)) = Len(s) - 1
           /\ \A k \in 1 .. i - 1 : RemoveAt(s, i)[k] = s[k]
           /\ \A k \in i .. Len(s) - 1 : RemoveAt(s, i)[k] = s[k + 1]
<1> DEFINE a == SubSeq(s, 1, i - 1)
           b == SubSeq(s, i + 1, Len(s))
<1>1. a \in Seq(S) /\ Len(a) = i - 1 /\ \A k \in 1 .. i - 1 : a[k] = s[k]
  BY SMT, SMTT(30)
<1>2. /\ b \in Seq(S) /\ Len(b) = Len(s) - i
      /\ \A k \in 1 .. Len(s) - i : b[k] = s[i + k]
  BY SMT, SMTT(30)
<1> HIDE DEF a, b
<1>3. /\ a \o b \in Seq(S) /\ Len(a \o b) = Len(s) - 1
      /\ \A k \in 1 .. i - 1 : (a \o b)[k] = s[k]
      /\ \A k \in i .. Len(s) - 1 : (a \o b)[k] = b[k - (i - 1)]
  <2>1. a \o b \in Seq(S) /\ Len(a \o b) = Len(s) - 1
    <3>0. a \in Seq(S) /\ b \in Seq(S)
      BY <1>1, <1>2
    <3>1. a \o b \in Seq(S) /\ Len(a \o b) = Len(a) + Len(b)
      BY ONLY SMT, SMTT(30), <3>0
    <3>2. Len(a) = i - 1 /\ Len(b) = Len(s) - i /\ Len(s) \in Nat
      BY SMT, SMTT(30), <1>1, <1>2
    <3> QED
      BY SMT, SMTT(30), <3>1, <3>2
  <2>2. \A k \in 1 .. Len(a) + Len(b) :
           (a \o b)[k] = IF k <= Len(a) THEN a[k] ELSE b[k - Len(a)]
    BY SMT, SMTT(30), <1>1, <1>2
  <2> QED
    BY SMT, SMTT(30), <1>1, <1>2, <2>1, <2>2
<1>4. ASSUME NEW k \in i .. Len(s) - 1
      PROVE  b[k - (i - 1)] = s[k + 1]
  <2>1. k - (i - 1) \in 1 .. Len(s) - i /\ i + (k - (i - 1)) = k + 1
    BY SMT, SMTT(30)
  <2> QED
    BY <1>2, <2>1
<1>5. RemoveAt(s, i) = a \o b
  BY DEF RemoveAt, a, b
<1> QED
  BY <1>3, <1>4, <1>5, ZenonT(30)

\* A node more, and a node less.
LEMMA Lengths ==
    ASSUME NEW S, NEW s \in Seq(S)
    PROVE  /\ \A i \in 1 .. Len(s) + 1, e \in S : Len(InsertAt(s, i, e)) = Len(s) + 1
           /\ \A i \in 1 .. Len(s) : Len(RemoveAt(s, i)) = Len(s) - 1
  BY SMT, SMTT(30), InsertAtFacts, RemoveAtFacts

\* Cutting a list after its n-th node.
LEMMA CutFacts ==
    ASSUME NEW S, NEW s \in Seq(S), NEW n \in 0 .. Len(s)
    PROVE  /\ SubSeq(s, 1, n) \in Seq(S)
           /\ Len(SubSeq(s, 1, n)) = n
           /\ \A k \in 1 .. n : SubSeq(s, 1, n)[k] = s[k]
           /\ SubSeq(s, n + 1, Len(s)) \in Seq(S)
           /\ Len(SubSeq(s, n + 1, Len(s))) = Len(s) - n
           /\ \A k \in 1 .. Len(s) - n : SubSeq(s, n + 1, Len(s))[k] = s[n + k]
  BY SMT, SMTT(30)

\* Popping the first node.
LEMMA PopFacts ==
    ASSUME NEW S, NEW s \in Seq(S), s # <<>>
    PROVE  /\ Head(s) \in S /\ Head(s) = s[1] /\ Len(s) \in Nat \ {0}
           /\ Tail(s) \in Seq(S) /\ Len(Tail(s)) = Len(s) - 1
           /\ \A k \in 1 .. Len(s) - 1 : Tail(s)[k] = s[k + 1]
  BY SMT, SMTT(30)

-----------------------------------------------------------------------------
(***************************************************************************)
(* The same operations, by what they do to the set of the list's elements. *)
(***************************************************************************)
Elements(s) == {s[i] : i \in 1 .. Len(s)}

LEMMA InsertElements ==
    ASSUME NEW S, NEW s \in Seq(S), NEW i \in 1 .. Len(s) + 1, NEW e \in S
    PROVE  /\ InsertAt(s, i, e) \in Seq(S) /\ Len(InsertAt(s, i, e)) = Len(s) + 1
           /\ Elements(InsertAt(s, i, e)) = Elements(s) \cup {e}
<1> DEFINE t == InsertAt(s, i, e)
<1>1. /\ t \in Seq(S) /\ Len(t) = Len(s) + 1 /\ Len(s) \in Nat
      /\ \A k \in 1 .. i - 1 : t[k] = s[k]
      /\ t[i] = e
      /\ \A k \in i + 1 .. Len(s) + 1 : t[k] = s[k - 1]
  BY SMT, SMTT(30), InsertAtFacts
<1> HIDE DEF t
<1>2. ASSUME NEW k \in 1 .. Len(t) PROVE t[k] = e \/ \E j \in 1 .. Len(s) : t[k] = s[j]
  <2>1. CASE k < i
    BY SMT, SMTT(30), <1>1, <2>1
  <2>2. CASE k > i
    <3>1. t[k] = s[k - 1] /\ k - 1 \in 1 .. Len(s)
      BY ONLY SMT, SMTT(30), <1>1, <2>2
    <3> QED BY <3>1
  <2> QED BY SMT, SMTT(30), <1>1, <2>1, <2>2
<1>3. ASSUME NEW j \in 1 .. Len(s) PROVE \E k \in 1 .. Len(t) : s[j] = t[k]
  <2>1. CASE j < i
    BY SMT, SMTT(30), <1>1, <2>1
  <2>2. CASE j >= i
    <3>1. t[j + 1] = s[j + 1 - 1] /\ j + 1 \in 1 .. Len(t) /\ j + 1 - 1 = j
      BY SMT, SMTT(30), <1>1, <2>2
    <3> QED BY <3>1
  <2> QED BY SMT, SMTT(30), <2>1, <2>2
<1>4. i \in 1 .. Len(t)
  BY <1>1
<1>5. Elements(t) = Elements(s) \cup {e}
  <2>1. ASSUME NEW x \in Elements(t) PROVE x \in Elements(s) \cup {e}
    BY <1>2, <2>1, ZenonT(30) DEF Elements
  <2>2. ASSUME NEW x \in Elements(s) PROVE x \in Elements(t)
    BY <1>3, <2>2, ZenonT(30) DEF Elements
  <2>3. e \in Elements(t)
    BY <1>1, <1>4, ZenonT(30) DEF Elements
  <2> QED BY ONLY <2>1, <2>2, <2>3
<1> QED BY ONLY <1>1, <1>5 DEF t

LEMMA RemoveElements ==
    ASSUME NEW S, NEW s \in Seq(S), NEW i \in 1 .. Len(s),
           \A j, k \in 1 .. Len(s) : s[j] = s[k] => j = k
    PROVE  /\ RemoveAt(s, i) \in Seq(S) /\ Len(RemoveAt(s, i)) = Len(s) - 1
           /\ Elements(RemoveAt(s, i)) = Elements(s) \ {s[i]}
<1> DEFINE t == RemoveAt(s, i)
<1>1. /\ t \in Seq(S) /\ Len(t) = Len(s) - 1 /\ Len(s) \in Nat
      /\ \A k \in 1 .. i - 1 : t[k] = s[k]
      /\ \A k \in i .. Len(s) - 1 : t[k] = s[k + 1]
  <2>1. Len(s) \in Nat
    BY SMT, SMTT(30)
  <2> QED BY ZenonT(30), <2>1, RemoveAtFacts
<1> HIDE DEF t
<1>2. ASSUME NEW k \in 1 .. Len(t) PROVE \E j \in 1 .. Len(s) : j # i /\ t[k] = s[j]
  <2>1. CASE k < i
    BY SMT, SMTT(30), <1>1, <2>1
  <2>2. CASE k >= i
    <3>1. t[k] = s[k + 1] /\ k + 1 \in 1 .. Len(s) /\ k + 1 # i
      BY SMT, SMTT(30), <1>1, <2>2
    <3> QED BY <3>1
  <2> QED BY SMT, SMTT(30), <1>1, <2>1, <2>2
<1>3. ASSUME NEW j \in 1 .. Len(s), j # i PROVE \E k \in 1 .. Len(t) : s[j] = t[k]
  <2>1. CASE j < i
    BY SMT, SMTT(30), <1>1, <2>1
  <2>2. CASE j > i
    <3>1. t[j - 1] = s[j - 1 + 1] /\ j - 1 \in 1 .. Len(t) /\ j - 1 + 1 = j
      BY SMT, SMTT(30), <1>1, <2>2
    <3> QED BY <3>1
  <2> QED BY SMT, SMTT(30), <1>3, <2>1, <2>2
<1>5. Elements(t) = Elements(s) \ {s[i]}
  <2>1. ASSUME NEW x \in Elements(t) PROVE x \in Elements(s) \ {s[i]}
    <3>1. PICK k \in 1 .. Len(t) : x = t[k]
      BY ZenonT(30) DEF Elements
    <3>2. PICK j \in 1 .. Len(s) : j # i /\ x = s[j]
      BY <1>2, <3>1, ZenonT(30)
    <3> QED BY <3>2, ZenonT(30) DEF Elements
  <2>2. ASSUME NEW x \in Elements(s), x # s[i] PROVE x \in Elements(t)
    <3>1. PICK j \in 1 .. Len(s) : x = s[j]
      BY ZenonT(30) DEF Elements
    <3>2. PICK k \in 1 .. Len(t) : x = t[k]
      BY <1>3, <2>2, <3>1, ZenonT(30)
    <3> QED BY <3>2, ZenonT(30) DEF Elements
  <2> QED BY ONLY <2>1, <2>2
<1> QED BY ONLY <1>1, <1>5 DEF t

LEMMA ReplaceElements ==
    ASSUME NEW S, NEW s \in Seq(S), NEW i \in 1 .. Len(s), NEW e \in S,
           \A j, k \in 1 .. Len(s) : s[j] = s[k] => j = k
    PROVE  /\ [s EXCEPT ![i] = e] \in Seq(S) /\ Len([s EXCEPT ![i] = e]) = Len(s)
           /\ Elements([s EXCEPT ![i] = e]) = (Elements(s) \ {s[i]}) \cup {e}
<1> DEFINE t == [s EXCEPT ![i] = e]
<1>1. /\ t \in Seq(S) /\ Len(t) = Len(s) /\ t[i] = e
      /\ \A k \in 1 .. Len(s) : k # i => t[k] = s[k]
  BY SMT, SMTT(30)
<1> HIDE DEF t
<1>2. Elements(t) = (Elements(s) \ {s[i]}) \cup {e}
  <2>1. ASSUME NEW x \in Elements(t) PROVE x \in (Elements(s) \ {s[i]}) \cup {e}
    <3>1. PICK k \in 1 .. Len(t) : x = t[k]
      BY ZenonT(30) DEF Elements
    <3>2. k # i => x = s[k] /\ k \in 1 .. Len(s) /\ s[k] # s[i]
      BY <1>1, <3>1, ZenonT(30)
    <3>3. k # i => x \in Elements(s)
      BY <3>2, ZenonT(30) DEF Elements
    <3> QED BY <1>1, <3>1, <3>2, <3>3, ZenonT(30)
  <2>2. ASSUME NEW x \in Elements(s), x # s[i] PROVE x \in Elements(t)
    BY <1>1, <2>2, ZenonT(30) DEF Elements
  <2>3. e \in Elements(t)
    BY <1>1, ZenonT(30) DEF Elements
  <2> QED BY ONLY <2>1, <2>2, <2>3
<1> QED BY ZenonT(30), <1>1, <1>2 DEF t

-----------------------------------------------------------------------------
(***************************************************************************)
(* What becomes of the members and of the order of a list when a node      *)
(* joins or leaves it.                                                     *)
(***************************************************************************)
\* t is s with n at place j, and old says where each of the others was in s.
Joined(s, t, j, n, old) ==
    /\ DOMAIN t = 1 .. Len(t) /\ Len(t) = Len(s) + 1 /\ t[j] = n
    /\ \A k \in DOMAIN t : (k < j => old[k] = k) /\ (k > j => old[k] = k - 1)
    /\ \A k \in DOMAIN t : k # j => old[k] \in DOMAIN s /\ t[k] = s[old[k]]
    /\ \A k \in DOMAIN t, l \in DOMAIN t : k # j /\ l # j /\ k < l => old[k] < old[l]
    /\ \A k \in DOMAIN s : \E l \in DOMAIN t : l # j /\ old[l] = k

\* t is s without its j-th node.
Left(s, t, j, old) ==
    /\ DOMAIN t = 1 .. Len(t) /\ Len(t) = Len(s) - 1
    /\ \A k \in DOMAIN t : old[k] \in DOMAIN s /\ old[k] # j /\ t[k] = s[old[k]]
    /\ \A k \in DOMAIN t, l \in DOMAIN t : k < l => old[k] < old[l]
    /\ \A k \in DOMAIN s : k # j => \E l \in DOMAIN t : old[l] = k

\* A node that joins moves the later ones down by one.
LEMMA JoinPlaces ==
    ASSUME NEW S, NEW s \in Seq(S), NEW n \in S, NEW j \in 1 .. Len(s) + 1
    PROVE  /\ InsertAt(s, j, n) \in Seq(S)
           /\ \E old : Joined(s, InsertAt(s, j, n), j, n, old)
<1> DEFINE t == InsertAt(s, j, n)
           old == [k \in 1 .. Len(s) + 1 |-> IF k < j THEN k ELSE k - 1]
<1>1. /\ t \in Seq(S)
      /\ Len(t) = Len(s) + 1
      /\ \A k \in 1 .. j - 1 : t[k] = s[k]
      /\ t[j] = n
      /\ \A k \in j + 1 .. Len(s) + 1 : t[k] = s[k - 1]
  <2>1. t \in Seq(S) /\ Len(t) = Len(s) + 1
    BY SMT, SMTT(30), InsertAtFacts
  <2>2. \A k \in 1 .. j - 1 : t[k] = s[k]
    BY SMT, SMTT(30), InsertAtFacts
  <2>3. t[j] = n
    BY SMT, SMTT(30), InsertAtFacts
  <2>4. \A k \in j + 1 .. Len(s) + 1 : t[k] = s[k - 1]
    BY SMT, SMTT(30), InsertAtFacts
  <2> HIDE DEF t
  <2> QED BY <2>1, <2>2, <2>3, <2>4
<1> HIDE DEF t
<1>2. Len(s) \in Nat /\ DOMAIN s = 1 .. Len(s) /\ DOMAIN t = 1 .. Len(s) + 1
  BY SMT, SMTT(30), <1>1
<1>3. ASSUME NEW k \in DOMAIN t, k # j PROVE old[k] \in DOMAIN s /\ t[k] = s[old[k]]
  <2>1. CASE k < j
    BY SMT, SMTT(30), <1>1, <1>2, <2>1
  <2>2. CASE k > j
    BY SMT, SMTT(30), <1>1, <1>2, <2>2
  <2> QED BY SMT, SMTT(30), <1>2, <1>3, <2>1, <2>2
<1>4. \A k \in DOMAIN t, l \in DOMAIN t : k # j /\ l # j /\ k < l => old[k] < old[l]
  BY SMT, SMTT(30), <1>2
<1>5. ASSUME NEW k \in DOMAIN s PROVE \E l \in DOMAIN t : l # j /\ old[l] = k
  <2>1. CASE k < j
    <3>1. k \in DOMAIN t /\ k # j /\ old[k] = k
      BY SMT, SMTT(30), <1>2, <2>1
    <3> QED BY <3>1
  <2>2. CASE k >= j
    <3>1. k + 1 \in DOMAIN t /\ k + 1 # j /\ old[k + 1] = k
      BY SMT, SMTT(30), <1>2, <2>2
    <3> QED BY <3>1
  <2> QED BY SMT, SMTT(30), <1>2, <2>1, <2>2
<1>6. \A k \in DOMAIN t : (k < j => old[k] = k) /\ (k > j => old[k] = k - 1)
  BY SMT, SMTT(30), <1>2
<1> HIDE DEF old
<1>7. Joined(s, t, j, n, old)
  BY <1>1, <1>2, <1>3, <1>4, <1>5, <1>6 DEF Joined
<1> QED BY <1>1, <1>7 DEF t

\* A node that leaves moves the later ones up by one.
LEMMA LeavePlaces ==
    ASSUME NEW S, NEW s \in Seq(S), NEW j \in 1 .. Len(s)
    PROVE  /\ RemoveAt(s, j) \in Seq(S)
           /\ \E old : Left(s, RemoveAt(s, j), j, old)
<1> DEFINE t == RemoveAt(s, j)
           old == [k \in 1 .. Len(s) - 1 |-> IF k < j THEN k ELSE k + 1]
<1>1. /\ t \in Seq(S)
      /\ Len(t) = Len(s) - 1
      /\ \A k \in 1 .. j - 1 : t[k] = s[k]
      /\ \A k \in j .. Len(s) - 1 : t[k] = s[k + 1]
  BY ZenonT(30), RemoveAtFacts
<1> HIDE DEF t
<1>2. Len(s) \in Nat \ {0} /\ DOMAIN s = 1 .. Len(s) /\ DOMAIN t = 1 .. Len(s) - 1
  BY SMT, SMTT(30), <1>1
<1>3. ASSUME NEW k \in DOMAIN t PROVE old[k] \in DOMAIN s /\ old[k] # j /\ t[k] = s[old[k]]
  <2>1. CASE k < j
    BY ONLY SMT, SMTT(30), <1>1, <1>2, <2>1
  <2>2. CASE k >= j
    BY SMT, SMTT(30), <1>1, <1>2, <2>2
  <2> QED BY SMT, SMTT(30), <1>2, <2>1, <2>2
<1>4. \A k \in DOMAIN t, l \in DOMAIN t : k < l => old[k] < old[l]
  BY SMT, SMTT(30), <1>2
<1>5. ASSUME NEW k \in DOMAIN s, k # j PROVE \E l \in DOMAIN t : old[l] = k
  <2>1. CASE k < j
    <3>1. k \in DOMAIN t /\ old[k] = k
      BY SMT, SMTT(30), <1>2, <2>1
    <3> QED BY ZenonT(30), <3>1
  <2>2. CASE k > j
    <3>1. k - 1 \in DOMAIN t /\ old[k - 1] = k
      BY SMT, SMTT(30), <1>2, <2>2
    <3> QED BY ZenonT(30), <3>1
  <2> QED BY SMT, SMTT(30), <1>2, <1>5, <2>1, <2>2
<1> HIDE DEF old
<1>6. Left(s, t, j, old)
  BY <1>1, <1>2, <1>3, <1>4, <1>5 DEF Left
<1> QED BY <1>1, <1>6 DEF t

\* The members of a list and its order when a node joins or leaves.
LEMMA JoinFacts ==
    ASSUME NEW S, NEW s \in Seq(S), Distinct(s), NEW n \in S, n \notin Members(s),
           NEW j \in 1 .. Len(s) + 1
    PROVE  /\ InsertAt(s, j, n) \in Seq(S) /\ Distinct(InsertAt(s, j, n))
           /\ Len(InsertAt(s, j, n)) = Len(s) + 1
           /\ Members(InsertAt(s, j, n)) = Members(s) \cup {n}
<1> DEFINE t == InsertAt(s, j, n)
<1>1. t \in Seq(S) /\ \E old : Joined(s, t, j, n, old)
  BY JoinPlaces, ZenonT(30)
<1> HIDE DEF t
<1>2. PICK old : Joined(s, t, j, n, old)
  BY <1>1
<1>3. j \in DOMAIN t /\ DOMAIN t \subseteq Int /\ DOMAIN s \subseteq Int
  BY SMT, SMTT(30), <1>2 DEF Joined
<1>4. \A k \in DOMAIN t : k # j => t[k] # n
  <2> SUFFICES ASSUME NEW k \in DOMAIN t, k # j PROVE t[k] # n
    OBVIOUS
  <2>1. old[k] \in DOMAIN s /\ t[k] = s[old[k]]
    BY <1>2 DEF Joined
  <2> QED BY <2>1 DEF Members
<1>5. Distinct(t)
  <2> SUFFICES ASSUME NEW k \in DOMAIN t, NEW l \in DOMAIN t, t[k] = t[l], k < l
               PROVE  FALSE
    BY SMT, SMTT(30), <1>3 DEF Distinct
  <2>1. k # j /\ l # j
    BY SMT, SMTT(30), <1>2, <1>3, <1>4 DEF Joined
  <2>2. old[k] < old[l] /\ old[k] \in DOMAIN s /\ old[l] \in DOMAIN s /\ s[old[k]] = s[old[l]]
    BY ZenonT(30), <1>2, <2>1 DEF Joined
  <2>3. old[k] = old[l]
    BY <2>2, ZenonT(30) DEF Distinct
  <2> QED BY SMT, SMTT(30), <1>3, <2>2, <2>3
<1>6. Members(t) \subseteq Members(s) \cup {n}
  <2> SUFFICES ASSUME NEW k \in DOMAIN t, k # j PROVE t[k] \in Members(s)
    BY SMT, SMTT(30), <1>2 DEF Members, Joined
  <2>1. old[k] \in DOMAIN s /\ t[k] = s[old[k]]
    BY <1>2 DEF Joined
  <2> QED BY <2>1 DEF Members
<1>7. Members(s) \subseteq Members(t)
  <2> SUFFICES ASSUME NEW k \in DOMAIN s PROVE s[k] \in Members(t)
    BY DEF Members
  <2>1. PICK l \in DOMAIN t : l # j /\ old[l] = k
    BY <1>2 DEF Joined
  <2>2. t[l] = s[k]
    BY ZenonT(30), <1>2, <2>1 DEF Joined
  <2> QED BY <2>2 DEF Members
<1>8. n \in Members(t)
  BY <1>2, <1>3, ZenonT(30) DEF Members, Joined
<1> QED BY <1>1, <1>2, <1>5, <1>6, <1>7, <1>8 DEF t, Joined

LEMMA LeaveFacts ==
    ASSUME NEW S, NEW s \in Seq(S), Distinct(s), NEW j \in 1 .. Len(s)
    PROVE  /\ RemoveAt(s, j) \in Seq(S) /\ Distinct(RemoveAt(s, j))
           /\ Len(RemoveAt(s, j)) = Len(s) - 1
           /\ Members(RemoveAt(s, j)) = Members(s) \ {s[j]}
<1> DEFINE t == RemoveAt(s, j)
<1>1. t \in Seq(S) /\ \E old : Left(s, t, j, old)
  BY LeavePlaces, ZenonT(30)
<1> HIDE DEF t
<1>2. PICK old : Left(s, t, j, old)
  BY <1>1
<1>3. j \in DOMAIN s /\ DOMAIN t \subseteq Int /\ DOMAIN s \subseteq Int
  BY SMT, SMTT(30), <1>2 DEF Left
<1>4. Distinct(t)
  <2> SUFFICES ASSUME NEW k \in DOMAIN t, NEW l \in DOMAIN t, t[k] = t[l], k < l
               PROVE  FALSE
    BY SMT, SMTT(30), <1>3 DEF Distinct
  <2>1. old[k] < old[l] /\ old[k] \in DOMAIN s /\ old[l] \in DOMAIN s /\ s[old[k]] = s[old[l]]
    BY ZenonT(30), <1>2 DEF Left
  <2>2. old[k] = old[l]
    BY <2>1, ZenonT(30) DEF Distinct
  <2> QED BY SMT, SMTT(30), <1>3, <2>1, <2>2
<1>5. Members(t) \subseteq Members(s) \ {s[j]}
  <2> SUFFICES ASSUME NEW k \in DOMAIN t PROVE t[k] \in Members(s) /\ t[k] # s[j]
    BY ZenonT(30) DEF Members
  <2>1. old[k] \in DOMAIN s /\ old[k] # j /\ t[k] = s[old[k]]
    BY <1>2 DEF Left
  <2> QED BY <1>3, <2>1, ZenonT(30) DEF Members, Distinct
<1>6. Members(s) \ {s[j]} \subseteq Members(t)
  <2> SUFFICES ASSUME NEW k \in DOMAIN s, k # j PROVE s[k] \in Members(t)
    BY DEF Members
  <2>1. PICK l \in DOMAIN t : old[l] = k
    BY <1>2 DEF Left
  <2>2. t[l] = s[k]
    BY <1>2, <2>1 DEF Left
  <2> QED BY <2>2 DEF Members
<1> QED BY <1>1, <1>2, <1>4, <1>5, <1>6 DEF t, Left

LEMMA JoinOrdered ==
    ASSUME NEW S, NEW s \in Seq(S), NEW n \in S, NEW j \in 1 .. Len(s) + 1,
           NEW rank \in [S -> Int], Joins(s, j, n, rank), Ordered(s, rank)
    PROVE  Ordered(InsertAt(s, j, n), rank)
<1> DEFINE t == InsertAt(s, j, n)
<1>1. t \in Seq(S) /\ \E old : Joined(s, t, j, n, old)
  BY JoinPlaces, ZenonT(30)
<1> HIDE DEF t
<1>2. PICK old : Joined(s, t, j, n, old)
  BY <1>1
<1>3. /\ j \in DOMAIN t /\ DOMAIN t = 1 .. Len(s) + 1
      /\ DOMAIN s = 1 .. Len(s) /\ Len(s) \in Nat
  BY SMT, SMTT(30), <1>2 DEF Joined
<1>4. /\ \A k \in DOMAIN s : rank[s[k]] \in Int
      /\ rank[n] \in Int
  BY SMT, SMTT(30), <1>3
<1>5. \A k \in DOMAIN s : k < j => rank[s[k]] <= rank[n]
  BY SMT, SMTT(30), <1>3 DEF Joins
<1>6. \A k \in DOMAIN s : k >= j => rank[n] <= rank[s[k]]
  <2> SUFFICES ASSUME NEW k \in DOMAIN s, k >= j PROVE rank[n] <= rank[s[k]]
    OBVIOUS
  <2>1. rank[n] < rank[s[j]] /\ j \in DOMAIN s
    BY SMT, SMTT(30), <1>3 DEF Joins
  <2>2. k = j \/ j < k
    BY SMT, SMTT(30), <1>3
  <2>3. j < k => rank[s[j]] <= rank[s[k]]
    BY <2>1, ZenonT(30) DEF Ordered
  <2> QED BY ONLY SMT, SMTT(30), <2>1, <2>2, <2>3, <1>4
<1>7. ASSUME NEW a \in DOMAIN t, NEW b \in DOMAIN t, a < b PROVE rank[t[a]] <= rank[t[b]]
  <2>1. CASE a # j /\ b # j
    <3>1. /\ old[a] \in DOMAIN s /\ old[b] \in DOMAIN s /\ old[a] < old[b]
          /\ t[a] = s[old[a]] /\ t[b] = s[old[b]]
      BY <1>2, <1>7, <2>1, ZenonT(30) DEF Joined
    <3>2. rank[s[old[a]]] <= rank[s[old[b]]]
      BY <3>1, ZenonT(30) DEF Ordered
    <3> QED BY <3>1, <3>2
  <2>2. CASE b = j
    <3>1. old[a] = a /\ old[a] \in DOMAIN s /\ t[a] = s[old[a]] /\ t[b] = n /\ a < j
      BY SMT, SMTT(30), <1>2, <1>3, <1>7, <2>2 DEF Joined
    <3> QED BY <3>1, <1>5
  <2>3. CASE a = j
    <3>1. old[b] = b - 1 /\ old[b] \in DOMAIN s /\ t[b] = s[old[b]] /\ t[a] = n /\ b > j
      BY ONLY SMT, SMTT(30), <1>2, <1>3, <1>7, <2>3 DEF Joined
    <3>2. old[b] >= j
      BY SMT, SMTT(30), <3>1, <1>3
    <3> QED BY <3>1, <3>2, <1>6
  <2> QED BY <2>1, <2>2, <2>3
<1> QED BY <1>7, ZenonT(30) DEF Ordered, t

LEMMA LeaveOrdered ==
    ASSUME NEW S, NEW s \in Seq(S), NEW j \in 1 .. Len(s),
           NEW rank \in [S -> Int], Ordered(s, rank)
    PROVE  Ordered(RemoveAt(s, j), rank)
<1> DEFINE t == RemoveAt(s, j)
<1>1. \E old : Left(s, t, j, old)
  BY LeavePlaces, ZenonT(30)
<1> HIDE DEF t
<1>2. PICK old : Left(s, t, j, old)
  BY <1>1
<1>3. ASSUME NEW a \in DOMAIN t, NEW b \in DOMAIN t, a < b PROVE rank[t[a]] <= rank[t[b]]
  <2>1. /\ old[a] \in DOMAIN s /\ old[b] \in DOMAIN s /\ old[a] < old[b]
        /\ t[a] = s[old[a]] /\ t[b] = s[old[b]]
    BY <1>2, <1>3, ZenonT(30) DEF Left
  <2>2. rank[s[old[a]]] <= rank[s[old[b]]]
    BY <2>1, ZenonT(30) DEF Ordered
  <2> QED BY <2>1, <2>2
<1> QED BY <1>3, ZenonT(30) DEF Ordered, t

\* A list of nodes of three kinds in the order of rank: the first c are the ones
\* of First, the last e the ones of Last.
Borders(s, First, Last, c, e) ==
    /\ c \in Nat /\ e \in Nat /\ c + e <= Len(s)
    /\ \A k \in DOMAIN s : /\ s[k] \in First <=> k <= c
                           /\ s[k] \in Last <=> k > Len(s) - e

\* A node joins at the end of its kind, and one that leaves leaves no gap.
LEMMA JoinBorders ==
    ASSUME NEW S, NEW First, NEW Last, NEW rank,
           \A m \in S : /\ m \in First <=> rank[m] = 0
                        /\ m \in Last <=> rank[m] = 2
                        /\ rank[m] \in 0 .. 2,
           NEW s \in Seq(S), NEW n \in S, NEW j \in 1 .. Len(s) + 1, Joins(s, j, n, rank),
           NEW c, NEW e, Borders(s, First, Last, c, e)
    PROVE  Borders(InsertAt(s, j, n), First, Last, IF n \in First THEN c + 1 ELSE c,
                                                   IF n \in Last THEN e + 1 ELSE e)
<1> DEFINE t == InsertAt(s, j, n)
<1>1. /\ t \in Seq(S) /\ Len(t) = Len(s) + 1 /\ t[j] = n
      /\ \A k \in 1 .. j - 1 : t[k] = s[k]
      /\ \A k \in j + 1 .. Len(s) + 1 : t[k] = s[k - 1]
  <2>1. t \in Seq(S) /\ Len(t) = Len(s) + 1
    BY SMT, SMTT(30), InsertAtFacts
  <2>2. \A k \in 1 .. j - 1 : t[k] = s[k]
    BY SMT, SMTT(30), InsertAtFacts
  <2>3. t[j] = n
    BY SMT, SMTT(30), InsertAtFacts
  <2>4. \A k \in j + 1 .. Len(s) + 1 : t[k] = s[k - 1]
    BY SMT, SMTT(30), InsertAtFacts
  <2> QED BY <2>1, <2>2, <2>3, <2>4, ZenonT(30)
<1> HIDE DEF t
<1>2. DOMAIN t = 1 .. Len(s) + 1 /\ DOMAIN s = 1 .. Len(s) /\ Len(s) \in Nat
  BY SMT, SMTT(30), <1>1
<1>3. /\ c \in Nat /\ e \in Nat /\ c + e <= Len(s)
      /\ \A k \in 1 .. Len(s) : /\ s[k] \in First <=> k <= c
                                /\ s[k] \in Last <=> k > Len(s) - e
                                /\ s[k] \in S
  BY SMT, SMTT(30), <1>2 DEF Borders
<1>4. \A m \in S : /\ m \in First <=> rank[m] = 0
                   /\ m \in Last <=> rank[m] = 2
                   /\ rank[m] \in 0 .. 2
  OBVIOUS
<1>5. /\ j <= Len(s) => rank[n] < rank[s[j]]
      /\ \A k \in 1 .. j - 1 : rank[s[k]] <= rank[n]
  BY ZenonT(30) DEF Joins
<1>6. ASSUME NEW k \in 1 .. Len(s) + 1, k < j
      PROVE  (t[k] \in First <=> k <= c) /\ (t[k] \in Last <=> k > Len(s) - e)
  <2>1. k \in 1 .. j - 1 /\ k \in 1 .. Len(s)
    BY SMT, SMTT(30), <1>2, <1>6
  <2> QED BY ZenonT(30), <1>1, <1>3, <2>1
<1>7. ASSUME NEW k \in 1 .. Len(s) + 1, k > j
      PROVE  (t[k] \in First <=> k - 1 <= c) /\ (t[k] \in Last <=> k - 1 > Len(s) - e)
  <2>1. k \in j + 1 .. Len(s) + 1 /\ k - 1 \in 1 .. Len(s)
    BY SMT, SMTT(30), <1>2, <1>7
  <2> QED BY ZenonT(30), <1>1, <1>3, <2>1
<1> DEFINE cc == IF n \in First THEN c + 1 ELSE c
           ee == IF n \in Last THEN e + 1 ELSE e
<1>8. /\ cc \in Nat /\ ee \in Nat /\ cc + ee <= Len(s) + 1
      /\ n \in First <=> j <= cc
      /\ n \in Last <=> j > Len(s) + 1 - ee
      /\ \A k \in 1 .. Len(s) + 1 : /\ k < j => (k <= c <=> k <= cc)
                                    /\ k < j => (k > Len(s) - e <=> k > Len(s) + 1 - ee)
                                    /\ k > j => (k - 1 <= c <=> k <= cc)
                                    /\ k > j => (k - 1 > Len(s) - e <=> k > Len(s) + 1 - ee)
  <2>1. CASE n \in First
    <3>1. n \notin Last /\ rank[n] = 0
      BY SMT, SMTT(30), <1>4, <2>1
    <3>2. j <= Len(s) => j > c
      BY SMT, SMTT(30), <1>2, <1>3, <1>4, <1>5, <3>1
    <3>3. j > 1 => j - 1 <= c
      BY ONLY SMT, SMTT(30), <1>2, <1>3, <1>4, <1>5, <3>1
    <3> QED BY ONLY SMT, SMTT(30), <1>2, <1>3, <2>1, <3>1, <3>2, <3>3
  <2>2. CASE n \in Last
    <3>1. j = Len(s) + 1 /\ n \notin First
      BY ONLY SMT, SMTT(30), <1>2, <1>3, <1>4, <1>5, <2>2
    <3> QED BY SMT, SMTT(30), <1>2, <1>3, <2>2, <3>1
  <2>3. CASE n \notin First /\ n \notin Last
    <3>1. rank[n] = 1
      BY SMT, SMTT(30), <1>4, <2>3
    <3>2. j <= Len(s) => j > Len(s) - e
      BY SMT, SMTT(30), <1>2, <1>3, <1>4, <1>5, <3>1
    <3>3. ASSUME j > 1 PROVE j - 1 <= Len(s) - e
      <4>1. j - 1 \in 1 .. Len(s) /\ j - 1 \in 1 .. j - 1
        BY ONLY SMT, SMTT(30), <1>2, <3>3, j \in 1 .. Len(s) + 1
      <4>2. rank[s[j - 1]] <= 1 /\ s[j - 1] \in S
        BY ZenonT(30), <1>3, <1>5, <3>1, <4>1
      <4>3. s[j - 1] \notin Last
        BY ONLY SMT, SMTT(30), <1>4, <4>2
      <4>4. ~(j - 1 > Len(s) - e) /\ e \in Nat
        BY ZenonT(30), <1>3, <4>1, <4>3
      <4> QED BY ONLY SMT, SMTT(30), <1>2, <4>1, <4>4
    <3> QED BY ONLY SMT, SMTT(30), <1>2, <1>3, <2>3, <3>2, <3>3
  <2> QED BY ZenonT(30), <2>1, <2>2, <2>3
<1> HIDE DEF cc, ee
<1>9. ASSUME NEW k \in 1 .. Len(s) + 1
      PROVE  (t[k] \in First <=> k <= cc) /\ (t[k] \in Last <=> k > Len(s) + 1 - ee)
  <2>1. CASE k < j
    <3>1. (t[k] \in First <=> k <= c) /\ (t[k] \in Last <=> k > Len(s) - e)
      BY <1>6, <2>1
    <3>2. (k <= c <=> k <= cc) /\ (k > Len(s) - e <=> k > Len(s) + 1 - ee)
      BY <1>8, <2>1
    <3> QED BY ZenonT(30), <3>1, <3>2
  <2>2. CASE k = j
    BY ZenonT(30), <1>1, <1>8, <2>2
  <2>3. CASE k > j
    <3>1. (t[k] \in First <=> k - 1 <= c) /\ (t[k] \in Last <=> k - 1 > Len(s) - e)
      BY <1>7, <2>3
    <3>2. (k - 1 <= c <=> k <= cc) /\ (k - 1 > Len(s) - e <=> k > Len(s) + 1 - ee)
      BY <1>8, <2>3
    <3> QED BY ZenonT(30), <3>1, <3>2
  <2> QED BY SMT, SMTT(30), <2>1, <2>2, <2>3
<1>10. Borders(t, First, Last, cc, ee)
  <2>1. DOMAIN t = 1 .. Len(s) + 1 /\ Len(t) = Len(s) + 1
    BY ZenonT(30), <1>1, <1>2
  <2>2. cc \in Nat /\ ee \in Nat /\ cc + ee <= Len(s) + 1
    BY ZenonT(30), <1>8
  <2> QED BY ONLY SMT, SMTT(30), <1>9, <2>1, <2>2 DEF Borders
<1> QED BY ZenonT(30), <1>10 DEF t, cc, ee

LEMMA LeaveBorders ==
    ASSUME NEW S, NEW First, NEW Last, NEW s \in Seq(S), NEW j \in 1 .. Len(s),
           NEW c, NEW e, Borders(s, First, Last, c, e)
    PROVE  Borders(RemoveAt(s, j), First, Last, IF s[j] \in First THEN c - 1 ELSE c,
                                                IF s[j] \in Last THEN e - 1 ELSE e)
<1> DEFINE t == RemoveAt(s, j)
<1>1. /\ t \in Seq(S) /\ Len(t) = Len(s) - 1
      /\ \A k \in 1 .. j - 1 : t[k] = s[k]
      /\ \A k \in j .. Len(s) - 1 : t[k] = s[k + 1]
  BY ZenonT(30), RemoveAtFacts
<1> HIDE DEF t
<1>2. DOMAIN t = 1 .. Len(s) - 1 /\ DOMAIN s = 1 .. Len(s) /\ Len(s) \in Nat
  BY SMT, SMTT(30), <1>1
<1>3. /\ c \in Nat /\ e \in Nat /\ c + e <= Len(s)
      /\ \A k \in 1 .. Len(s) : /\ s[k] \in First <=> k <= c
                                /\ s[k] \in Last <=> k > Len(s) - e
  BY ZenonT(30), <1>2 DEF Borders
<1>4. ASSUME NEW k \in 1 .. Len(s) - 1, k < j
      PROVE  (t[k] \in First <=> k <= c) /\ (t[k] \in Last <=> k > Len(s) - e)
  <2>1. k \in 1 .. j - 1 /\ k \in 1 .. Len(s)
    BY SMT, SMTT(30), <1>2, <1>4
  <2> QED BY ZenonT(30), <1>1, <1>3, <2>1
<1>5. ASSUME NEW k \in 1 .. Len(s) - 1, k >= j
      PROVE  (t[k] \in First <=> k + 1 <= c) /\ (t[k] \in Last <=> k + 1 > Len(s) - e)
  <2>1. k \in j .. Len(s) - 1 /\ k + 1 \in 1 .. Len(s)
    BY SMT, SMTT(30), <1>2, <1>5
  <2> QED BY ZenonT(30), <1>1, <1>3, <2>1
<1> DEFINE cc == IF s[j] \in First THEN c - 1 ELSE c
           ee == IF s[j] \in Last THEN e - 1 ELSE e
<1>6. (s[j] \in First <=> j <= c) /\ (s[j] \in Last <=> j > Len(s) - e)
  BY ZenonT(30), <1>3
<1>7. /\ cc \in Nat /\ ee \in Nat /\ cc + ee <= Len(s) - 1
      /\ \A k \in 1 .. Len(s) - 1 : /\ k < j => (k <= c <=> k <= cc)
                                    /\ k < j => (k > Len(s) - e <=> k > Len(s) - 1 - ee)
                                    /\ k >= j => (k + 1 <= c <=> k <= cc)
                                    /\ k >= j => (k + 1 > Len(s) - e <=> k > Len(s) - 1 - ee)
  BY ONLY SMT, SMTT(30), <1>2, <1>3, <1>6
<1> HIDE DEF cc, ee
<1>8. ASSUME NEW k \in 1 .. Len(s) - 1
      PROVE  (t[k] \in First <=> k <= cc) /\ (t[k] \in Last <=> k > Len(s) - 1 - ee)
  <2>1. CASE k < j
    <3>1. (t[k] \in First <=> k <= c) /\ (t[k] \in Last <=> k > Len(s) - e)
      BY <1>4, <2>1
    <3>2. (k <= c <=> k <= cc) /\ (k > Len(s) - e <=> k > Len(s) - 1 - ee)
      BY <1>7, <2>1
    <3> QED BY ZenonT(30), <3>1, <3>2
  <2>2. CASE k >= j
    <3>1. (t[k] \in First <=> k + 1 <= c) /\ (t[k] \in Last <=> k + 1 > Len(s) - e)
      BY <1>5, <2>2
    <3>2. (k + 1 <= c <=> k <= cc) /\ (k + 1 > Len(s) - e <=> k > Len(s) - 1 - ee)
      BY <1>7, <2>2
    <3> QED BY ZenonT(30), <3>1, <3>2
  <2> QED BY SMT, SMTT(30), <2>1, <2>2
<1>9. Borders(t, First, Last, cc, ee)
  BY ZenonT(30), <1>1, <1>2, <1>7, <1>8 DEF Borders
<1> QED BY ZenonT(30), <1>9 DEF t, cc, ee

-----------------------------------------------------------------------------
\* A set of natural numbers has a least one.
LEMMA LeastNumber ==
    ASSUME NEW T, T \subseteq Nat, T # {}
    PROVE  \E m \in T : \A n \in Nat : n < m => n \notin T
<1>1. \E m \in T : \A n \in T : ~(<<n, m>> \in OpToRel(<, Nat))
  BY NatLessThanWellFounded, WFMin
<1>2. PICK m \in T : \A n \in T : ~(<<n, m>> \in OpToRel(<, Nat))
  BY <1>1
<1>3. ASSUME NEW n \in Nat, n < m, n \in T PROVE FALSE
  <2>1. <<n, m>> \in OpToRel(<, Nat)
    BY <1>3 DEF OpToRel
  <2> QED BY <2>1, <1>2, <1>3
<1> QED BY <1>3

\* s holds the partial sums of f, as a recursive function gives them, and as the
\* terms say.
IsSum(s, f, N) == s = [n \in 0 .. N |-> IF n = 0 THEN 0 ELSE s[n - 1] + f[n]]
Adds(s, f, N) == s[0] = 0 /\ \A n \in 1 .. N : s[n] = s[n - 1] + f[n]
Integral(f, N) == \A n \in 1 .. N : f[n] \in Int

\* A partial sum is the one before it and the next term.
LEMMA SumFacts ==
    ASSUME NEW N \in Nat, NEW f, NEW s, IsSum(s, f, N)
    PROVE  Adds(s, f, N)
  BY SMT, SMTT(30) DEF IsSum, Adds

LEMMA SumExists ==
    ASSUME NEW N \in Nat, NEW f
    PROVE  \E s : IsSum(s, f, N)
<1> DEFINE Bad == {n \in Nat : ~\E s : IsSum(s, f, n)}
<1> SUFFICES ASSUME Bad # {} PROVE FALSE
  <2>1. N \notin Bad
    OBVIOUS
  <2> QED BY <2>1
<1>0. Bad \subseteq Nat
  OBVIOUS
<1>1. PICK m \in Bad : \A n \in Nat : n < m => n \notin Bad
  BY ZenonT(30), <1>0, LeastNumber
<1>2. m # 0
  <2>1. IsSum([n \in 0 .. 0 |-> 0], f, 0)
    BY SMT, SMTT(30) DEF IsSum
  <2> QED BY <2>1
<1>3. PICK s : IsSum(s, f, m - 1)
  BY SMT, SMTT(30), <1>1, <1>2
<1> DEFINE t == [n \in 0 .. m |-> IF n = m THEN s[m - 1] + f[m] ELSE s[n]]
<1>4. IsSum(t, f, m)
  <2> SUFFICES ASSUME NEW n \in 0 .. m PROVE t[n] = IF n = 0 THEN 0 ELSE t[n - 1] + f[n]
    BY DEF IsSum
  <2>1. CASE n = m
    BY SMT, SMTT(30), <2>1, <1>2
  <2>2. CASE n # m
    <3>1. n \in 0 .. m - 1 /\ m \in Nat
      BY SMT, SMTT(30), <2>2
    <3>2. s[n] = IF n = 0 THEN 0 ELSE s[n - 1] + f[n]
      BY <1>3, <3>1 DEF IsSum
    <3> QED BY SMT, SMTT(30), <3>1, <3>2
  <2> QED BY <2>1, <2>2
<1> QED BY <1>4

\* What adds up like the partial sums of f, is the partial sums of f.
LEMMA SumIs ==
    ASSUME NEW N \in Nat, NEW f, NEW s, IsSum(s, f, N),
           NEW t, Adds(t, f, N)
    PROVE  \A n \in 0 .. N : s[n] = t[n]
<1> USE DEF Adds
<1> DEFINE Bad == {n \in 0 .. N : s[n] # t[n]}
<1> SUFFICES ASSUME Bad # {} PROVE FALSE
  OBVIOUS
<1>0. Bad \subseteq Nat
  BY SMT, SMTT(30)
<1>1. PICK m \in Bad : \A n \in Nat : n < m => n \notin Bad
  BY ZenonT(30), <1>0, LeastNumber
<1>2. m \in 0 .. N /\ s[m] # t[m]
  OBVIOUS
<1>3. m # 0
  BY <1>2, SumFacts
<1>4. m \in 1 .. N /\ m - 1 \in 0 .. N /\ m - 1 \in Nat /\ m - 1 < m
  BY SMT, SMTT(30), <1>2, <1>3
<1>5. s[m - 1] = t[m - 1]
  BY <1>1, <1>4
<1>6. s[m] = s[m - 1] + f[m]
  BY SMT, SMTT(30), <1>4, SumFacts
<1> QED BY <1>2, <1>4, <1>5, <1>6

\* Partial sums of integers are integers.
LEMMA SumType ==
    ASSUME NEW N \in Nat, NEW f, Integral(f, N), NEW s, IsSum(s, f, N)
    PROVE  \A n \in 0 .. N : s[n] \in Int
<1> USE DEF Adds, Integral
<1> DEFINE Bad == {n \in 0 .. N : s[n] \notin Int}
<1> SUFFICES ASSUME Bad # {} PROVE FALSE
  OBVIOUS
<1>0. Bad \subseteq Nat
  BY SMT, SMTT(30)
<1>1. PICK m \in Bad : \A n \in Nat : n < m => n \notin Bad
  BY ZenonT(30), <1>0, LeastNumber
<1>2. m \in 0 .. N /\ s[m] \notin Int
  OBVIOUS
<1>3. m # 0
  BY SMT, SMTT(30), <1>2, SumFacts
<1>4. m \in 1 .. N /\ m - 1 \in 0 .. N /\ m - 1 \in Nat /\ m - 1 < m
  BY SMT, SMTT(30), <1>2, <1>3
<1>5. s[m - 1] \in Int
  BY <1>1, <1>4
<1>6. s[m] = s[m - 1] + f[m] /\ f[m] \in Int
  BY SMT, SMTT(30), <1>4, SumFacts
<1> QED BY SMT, SMTT(30), <1>2, <1>5, <1>6

\* Without its j-th term a sum is less by that term.
Without(g, f, j, N) == j \in 1 .. N /\ \A n \in 1 .. N : g[n] = IF n = j THEN 0 ELSE f[n]

LEMMA SumWithout ==
    ASSUME NEW N \in Nat, NEW f, Integral(f, N), NEW s, IsSum(s, f, N),
           NEW j, NEW g, Without(g, f, j, N), NEW t, IsSum(t, g, N)
    PROVE  t[N] = s[N] - f[j]
<1> USE DEF Integral, Without, Adds
<1> DEFINE r == [n \in 0 .. N |-> IF n < j THEN s[n] ELSE s[n] - f[j]]
<1>1. /\ s[0] = 0 /\ \A n \in 1 .. N : s[n] = s[n - 1] + f[n]
      /\ \A n \in 0 .. N : s[n] \in Int
  BY SMT, SMTT(30), SumFacts, SumType
<1>2. r[0] = 0
  BY SMT, SMTT(30), <1>1
<1>3. ASSUME NEW n \in 1 .. N PROVE r[n] = r[n - 1] + g[n]
  <2>1. /\ s[n] = s[n - 1] + f[n] /\ s[n] \in Int /\ s[n - 1] \in Int /\ f[n] \in Int /\ f[j] \in Int
        /\ r[n] = IF n < j THEN s[n] ELSE s[n] - f[j]
        /\ r[n - 1] = IF n - 1 < j THEN s[n - 1] ELSE s[n - 1] - f[j]
    BY SMT, SMTT(30), <1>1
  <2> HIDE DEF r
  <2> QED BY SMT, SMTT(30), <2>1
<1> HIDE DEF r
<1>4. \A n \in 0 .. N : t[n] = r[n]
  <2>1. Adds(r, g, N)
    BY <1>2, <1>3
  <2> HIDE DEF Adds
  <2> QED BY SMT, SMTT(30), <2>1, SumIs
<1>5. t[N] = r[N]
  BY SMT, SMTT(30), <1>4
<1> QED BY SMT, SMTT(30), <1>5 DEF r
=============================================================================
