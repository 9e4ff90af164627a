---------------------------- MODULE EpCoreProofs ----------------------------
(***************************************************************************)
(* The timer list of the C event loop stores differences; whatever is      *)
(* added, deleted, fired and synchronised, and whatever the callbacks of   *)
(* the loop do, they add up to the deadlines.                              *)
(*                                                                         *)
(* The argument: sums that begin with 0 and grow by the same terms are the *)
(* same (UptoIs), so that for each operation it is enough to say what the  *)
(* sums are after it, and to see that their differences are the remainders *)
(* it stores.  The loop only takes steps of the list (LoopUsesList), and   *)
(* what is proved of the list holds in it.                                 *)
(***************************************************************************)
EXTENDS EpCore, ListLemmas

\* The remainders of the timers of s in their order.
Along(s, rem) == [j \in 1 .. Len(s) |-> rem[s[j]]]

LEMMA UptoIsSum ==
    ASSUME NEW s \in Seq(Nodes), NEW rem
    PROVE  \E sum : IsSum(sum, Along(s, rem), Len(s)) /\ \A k : Upto(s, rem, k) = sum[k]
<1> DEFINE N == Len(s)
           sum == CHOOSE u : u = [j \in 0 .. N |-> IF j = 0 THEN 0 ELSE u[j - 1] + rem[s[j]]]
<1>1. N \in Nat
  BY SMT, SMTT(30)
<1>2. \A u : IsSum(u, Along(s, rem), N) <=>
               u = [j \in 0 .. N |-> IF j = 0 THEN 0 ELSE u[j - 1] + rem[s[j]]]
  <2> HIDE DEF N
  <2> SUFFICES ASSUME NEW u
               PROVE  [j \in 0 .. N |-> IF j = 0 THEN 0 ELSE u[j - 1] + Along(s, rem)[j]]
                    = [j \in 0 .. N |-> IF j = 0 THEN 0 ELSE u[j - 1] + rem[s[j]]]
    BY ZenonT(30) DEF IsSum
  <2>1. \A j \in 0 .. N : j = 0 \/ Along(s, rem)[j] = rem[s[j]]
    BY SMT, SMTT(30), <1>1 DEF Along, N
  <2> QED BY ZenonT(30), <2>1
<1>3. \E u : IsSum(u, Along(s, rem), N)
  BY ZenonT(30), <1>1, SumExists
<1>4. IsSum(sum, Along(s, rem), N)
  BY ZenonT(30), <1>2, <1>3
<1>5. \A k : Upto(s, rem, k) = sum[k]
  BY ZenonT(30) DEF Upto
<1> QED BY ZenonT(30), <1>4, <1>5

\* Each sum is the one before and the remainder of the timer.
LEMMA UptoFacts ==
    ASSUME NEW s \in Seq(Nodes), NEW rem \in [Nodes -> Int]
    PROVE  /\ Upto(s, rem, 0) = 0
           /\ \A k \in 1 .. Len(s) : Upto(s, rem, k) = Upto(s, rem, k - 1) + rem[s[k]]
           /\ \A k \in 0 .. Len(s) : Upto(s, rem, k) \in Int
<1>1. PICK sum : IsSum(sum, Along(s, rem), Len(s)) /\ \A k : Upto(s, rem, k) = sum[k]
  BY ZenonT(30), UptoIsSum
<1>2. /\ Len(s) \in Nat
      /\ \A k \in 1 .. Len(s) : Along(s, rem)[k] = rem[s[k]] /\ Along(s, rem)[k] \in Int
  BY SMT, SMTT(30) DEF Along
<1>3. sum[0] = 0 /\ \A k \in 1 .. Len(s) : sum[k] = sum[k - 1] + Along(s, rem)[k]
  <2>1. Len(s) \in Nat /\ IsSum(sum, Along(s, rem), Len(s))
    BY ZenonT(30), <1>1, <1>2
  <2>2. Adds(sum, Along(s, rem), Len(s))
    BY ONLY ZenonT(30), <2>1, SumFacts
  <2> QED BY ZenonT(30), <2>2 DEF Adds
<1>4. \A k \in 0 .. Len(s) : sum[k] \in Int
  <2>1. Integral(Along(s, rem), Len(s))
    BY ZenonT(30), <1>2 DEF Integral
  <2> QED BY ZenonT(30), <1>1, <1>2, <2>1, SumType
<1>5. ASSUME NEW k \in 1 .. Len(s)
      PROVE  Upto(s, rem, k) = Upto(s, rem, k - 1) + rem[s[k]]
  <2>1. sum[k] = sum[k - 1] + rem[s[k]]
    BY ONLY ZenonT(30), <1>2, <1>3, k \in 1 .. Len(s)
  <2>2. Upto(s, rem, k) = sum[k] /\ Upto(s, rem, k - 1) = sum[k - 1]
    BY ZenonT(30), <1>1
  <2> QED BY ONLY ZenonT(30), <2>1, <2>2
<1>6. Upto(s, rem, 0) = 0 /\ \A k \in 0 .. Len(s) : Upto(s, rem, k) \in Int
  BY ZenonT(30), <1>1, <1>3, <1>4
<1> QED BY ONLY ZenonT(30), <1>5, <1>6

\* What begins with 0 and grows by the remainders, is the sums.
Grows(t, s, rem) == t[0] = 0 /\ \A k \in 1 .. Len(s) : t[k] = t[k - 1] + rem[s[k]]

LEMMA UptoIs ==
    ASSUME NEW s \in Seq(Nodes), NEW rem, NEW t, Grows(t, s, rem)
    PROVE  \A k \in 0 .. Len(s) : Upto(s, rem, k) = t[k]
<1>1. PICK sum : IsSum(sum, Along(s, rem), Len(s)) /\ \A k : Upto(s, rem, k) = sum[k]
  BY ZenonT(30), UptoIsSum
<1>2. Len(s) \in Nat /\ \A k \in 1 .. Len(s) : Along(s, rem)[k] = rem[s[k]]
  BY SMT, SMTT(30) DEF Along
<1>3. Adds(t, Along(s, rem), Len(s))
  BY ZenonT(30), <1>2 DEF Grows, Adds
<1>4. \A k \in 0 .. Len(s) : sum[k] = t[k]
  <2>1. Len(s) \in Nat /\ IsSum(sum, Along(s, rem), Len(s))
    BY ZenonT(30), <1>1, <1>2
  <2> QED BY ONLY SMT, SMTT(30), <2>1, <1>3, SumIs
<1> QED BY ZenonT(30), <1>1, <1>4

\* No timer has less to go than the first.
LEMMA UptoAtLeastFirst ==
    ASSUME NEW s \in Seq(Nodes), NEW rem \in [Nodes -> Nat]
    PROVE  \A k \in 1 .. Len(s) : Upto(s, rem, k) >= Upto(s, rem, 1)
<1> DEFINE Bad == {k \in 1 .. Len(s) : ~(Upto(s, rem, k) >= Upto(s, rem, 1))}
<1> SUFFICES ASSUME Bad # {} PROVE FALSE
  OBVIOUS
<1>0. Len(s) \in Nat /\ Bad \subseteq Nat
  BY SMT, SMTT(30)
<1>1. PICK m \in Bad : \A n \in Nat : n < m => n \notin Bad
  BY ZenonT(30), <1>0, LeastNumber
<1>2. /\ m \in 1 .. Len(s) /\ ~(Upto(s, rem, m) >= Upto(s, rem, 1))
  OBVIOUS
<1>3. /\ \A k \in 1 .. Len(s) : Upto(s, rem, k) = Upto(s, rem, k - 1) + rem[s[k]]
      /\ \A k \in 0 .. Len(s) : Upto(s, rem, k) \in Int
  <2>1. rem \in [Nodes -> Int]
    BY SMT, SMTT(30)
  <2> QED BY ONLY ZenonT(30), <2>1, s \in Seq(Nodes), UptoFacts
<1>4. m # 1 /\ m - 1 \in 1 .. Len(s) /\ m - 1 \in Nat /\ m - 1 < m /\ 1 \in 0 .. Len(s)
  <2>1. 1 \in 0 .. Len(s)
    BY SMT, SMTT(30), <1>0, <1>2
  <2>2. Upto(s, rem, 1) \in Int
    BY ZenonT(30), <1>3, <2>1
  <2>3. m # 1
    BY SMT, SMTT(30), <1>2, <2>2
  <2> QED BY SMT, SMTT(30), <1>0, <1>2, <2>1, <2>3
<1>5. Upto(s, rem, m - 1) >= Upto(s, rem, 1)
  BY ZenonT(30), <1>1, <1>4
<1>6. rem[s[m]] \in Nat
  BY SMT, SMTT(30), <1>2
<1>7. /\ Upto(s, rem, m) = Upto(s, rem, m - 1) + rem[s[m]]
      /\ Upto(s, rem, m - 1) \in Int /\ Upto(s, rem, 1) \in Int
  BY SMT, SMTT(30), <1>2, <1>3, <1>4
<1> QED BY ONLY SMT, SMTT(30), <1>2, <1>5, <1>6, <1>7

-----------------------------------------------------------------------------
\* The sums over s are what is left, at base, until the timers are due.
Rep(s, rem, due, base) == \A k \in 1 .. Len(s) : Upto(s, rem, k) = Positive(due[s[k]] - base)

\* Time passes in two steps as it does in one.
LEMMA PositiveTwice ==
    \A d, f, n \in Int : f <= n => Positive(Positive(d - f) - (n - f)) = Positive(d - n)
<1> SUFFICES ASSUME NEW d \in Int, NEW f \in Int, NEW n \in Int, f <= n
             PROVE  Positive(Positive(d - f) - (n - f)) = Positive(d - n)
  OBVIOUS
<1>1. CASE d - f > 0
  <2>1. Positive(d - f) = d - f /\ (d - f) - (n - f) = d - n
    BY SMT, SMTT(30), <1>1 DEF Positive
  <2> QED BY ZenonT(30), <2>1
<1>2. CASE ~(d - f > 0)
  <2>1. Positive(d - f) = 0 /\ ~(0 - (n - f) > 0) /\ ~(d - n > 0)
    BY SMT, SMTT(30), <1>2 DEF Positive
  <2> QED BY ZenonT(30), <2>1 DEF Positive
<1> QED BY ZenonT(30), <1>1, <1>2

\* synchronize, when e has elapsed.
Charged(s, rem, e, rem2) ==
    \A k \in 1 .. Len(s) : rem2[s[k]] = Positive(rem[s[k]] - Positive(e - Upto(s, rem, k - 1)))

LEMMA SyncRep ==
    ASSUME NEW s \in Seq(Nodes), NEW rem \in [Nodes -> Nat], NEW due \in [Nodes -> Int],
           NEW from \in Int, NEW now \in Int, from <= now, Rep(s, rem, due, from),
           NEW rem2, Charged(s, rem, now - from, rem2)
    PROVE  Rep(s, rem2, due, now)
<1> DEFINE N == Len(s)
           e == now - from
           t == [k \in 0 .. N |-> Positive(Upto(s, rem, k) - e)]
<1>0. N \in Nat /\ e \in Nat /\ \A k \in 1 .. N : s[k] \in Nodes
  BY SMT, SMTT(30)
<1>1. rem \in [Nodes -> Int]
  BY SMT, SMTT(30)
<1>2. /\ Upto(s, rem, 0) = 0
      /\ \A k \in 1 .. N : Upto(s, rem, k) = Upto(s, rem, k - 1) + rem[s[k]]
      /\ \A k \in 0 .. N : Upto(s, rem, k) \in Int
  BY ZenonT(30), <1>1, UptoFacts
<1>3. \A k \in 0 .. N : t[k] = Positive(Upto(s, rem, k) - e)
  BY ZenonT(30)
<1>4. Charged(s, rem, e, rem2)
  OBVIOUS
<1> HIDE DEF t, e
<1>5. t[0] = 0
  <2>1. 0 \in 0 .. N /\ 0 - e <= 0
    BY SMT, SMTT(30), <1>0
  <2>2. t[0] = Positive(0 - e)
    BY ZenonT(30), <1>2, <1>3, <2>1
  <2> QED BY ONLY SMT, SMTT(30), <1>0, <2>1, <2>2 DEF Positive
<1>6. ASSUME NEW k \in 1 .. N PROVE t[k] = t[k - 1] + rem2[s[k]]
  <2> DEFINE a == Upto(s, rem, k - 1)
             b == Upto(s, rem, k)
             r == rem[s[k]]
  <2>1. k - 1 \in 0 .. N /\ k \in 0 .. N
    BY SMT, SMTT(30), <1>0
  <2>2. s[k] \in Nodes
    BY ZenonT(30), <1>0
  <2>3. r \in Nat
    BY <2>2
  <2>4. a \in Int /\ b \in Int /\ b = a + r
    BY ZenonT(30), <1>2, <1>6, <2>1
  <2>5. /\ t[k] = Positive(b - e) /\ t[k - 1] = Positive(a - e)
        /\ rem2[s[k]] = Positive(r - Positive(e - a))
    BY ZenonT(30), <1>3, <1>4, <1>6, <2>1 DEF Charged
  <2> HIDE DEF a, b, r
  <2>6. Positive(b - e) = Positive(a - e) + Positive(r - Positive(e - a))
    BY ONLY SMT, SMTT(30), <1>0, <2>3, <2>4 DEF Positive
  <2> QED BY ZenonT(30), <2>5, <2>6
<1>7. Grows(t, s, rem2)
  BY ZenonT(30), <1>5, <1>6 DEF Grows
<1>8. \A k \in 0 .. N : Upto(s, rem2, k) = t[k]
  BY ONLY ZenonT(30), s \in Seq(Nodes), <1>7, UptoIs DEF N
<1>9. ASSUME NEW k \in 1 .. N PROVE Upto(s, rem2, k) = Positive(due[s[k]] - now)
  <2>1. k \in 0 .. N
    BY SMT, SMTT(30), <1>0
  <2>2. s[k] \in Nodes
    BY ZenonT(30), <1>0
  <2>3. due[s[k]] \in Int
    BY <2>2
  <2>4. Upto(s, rem2, k) = Positive(Upto(s, rem, k) - e)
    BY ZenonT(30), <1>3, <1>8, <2>1
  <2>5. Upto(s, rem, k) = Positive(due[s[k]] - from)
    BY ZenonT(30), <1>9 DEF Rep
  <2>6. Positive(Positive(due[s[k]] - from) - (now - from)) = Positive(due[s[k]] - now)
    BY ONLY ZenonT(30), <2>3, from \in Int, now \in Int, from <= now, PositiveTwice
  <2> QED BY ZenonT(30), <2>4, <2>5, <2>6 DEF e
<1> QED BY ZenonT(30), <1>9 DEF Rep

\* It is enough to find sums that grow by the remainders and are what is left.
Remains(t, s, due, base) == \A k \in 1 .. Len(s) : t[k] = Positive(due[s[k]] - base)

LEMMA RepFrom ==
    ASSUME NEW s \in Seq(Nodes), NEW rem, NEW due, NEW base,
           NEW t, Grows(t, s, rem), Remains(t, s, due, base)
    PROVE  Rep(s, rem, due, base)
<1>1. \A k \in 0 .. Len(s) : Upto(s, rem, k) = t[k]
  BY ONLY ZenonT(30), s \in Seq(Nodes), Grows(t, s, rem), UptoIs
<1>2. \A k \in 1 .. Len(s) : k \in 0 .. Len(s)
  BY SMT, SMTT(30)
<1> QED BY ZenonT(30), <1>1, <1>2 DEF Rep, Remains

\* addAlarmEventNode: where a timer that is up after ms belongs, and what it and
\* the next one store.
Fits(s, rem, ms, i) ==
    /\ \A k \in 1 .. i - 1 : Upto(s, rem, k) <= ms
    /\ i <= Len(s) => Upto(s, rem, i) > ms

Spliced(s, rem, n, ms, i) ==
    [m \in Nodes |-> CASE m = n -> ms - Upto(s, rem, i - 1)
                       [] i <= Len(s) /\ m = s[i] -> Upto(s, rem, i) - ms
                       [] OTHER -> rem[m]]

Absent(s, n) == \A k \in 1 .. Len(s) : s[k] # n

\* What rem2 is beside rem, once n is in at i: only n and the node behind it differ.
ChangedAt(s, rem, n, ms, i, rem2) ==
    /\ rem2[n] = ms - Upto(s, rem, i - 1)
    /\ i <= Len(s) => rem2[s[i]] = Upto(s, rem, i) - ms
    /\ \A k \in 1 .. Len(s) : k # i => rem2[s[k]] = rem[s[k]]

LEMMA SplicedFacts ==
    ASSUME NEW s \in Seq(Nodes), Distinct(s), NEW rem, NEW n \in Nodes, Absent(s, n),
           NEW ms, NEW i \in 1 .. Len(s) + 1
    PROVE  ChangedAt(s, rem, n, ms, i, Spliced(s, rem, n, ms, i))
<1> DEFINE rem2 == Spliced(s, rem, n, ms, i)
<1>1. rem2[n] = ms - Upto(s, rem, i - 1)
  <2>1. i <= Len(s) => i \in 1 .. Len(s)
    BY SMT, SMTT(30)
  <2>2. ~(i <= Len(s) /\ n = s[i])
    BY ZenonT(30), <2>1 DEF Absent
  <2> QED BY ZenonT(30), <2>2 DEF Spliced
<1>2. ASSUME i <= Len(s) PROVE rem2[s[i]] = Upto(s, rem, i) - ms
  <2>1. i \in 1 .. Len(s)
    BY SMT, SMTT(30), <1>2
  <2>2. s[i] \in Nodes
    BY SMT, SMTT(30), <2>1
  <2>3. s[i] # n
    BY ZenonT(30), <2>1 DEF Absent
  <2> QED BY ZenonT(30), <1>2, <2>2, <2>3 DEF Spliced
<1>3. ASSUME NEW k \in 1 .. Len(s), k # i PROVE rem2[s[k]] = rem[s[k]]
  <2>1. s[k] \in Nodes
    BY SMT, SMTT(30)
  <2>2. s[k] # n
    BY ZenonT(30) DEF Absent
  <2>3. ~(i <= Len(s) /\ s[k] = s[i])
    BY SMT, SMTT(30), <1>3 DEF Distinct
  <2> QED BY ZenonT(30), <2>1, <2>2, <2>3 DEF Spliced
<1> HIDE DEF rem2
<1>4. ChangedAt(s, rem, n, ms, i, rem2)
  BY ZenonT(30), <1>1, <1>2, <1>3 DEF ChangedAt
<1> QED BY ZenonT(30), <1>4 DEF rem2

LEMMA SplicedNat ==
    ASSUME NEW s \in Seq(Nodes), NEW rem \in [Nodes -> Nat], NEW n \in Nodes, Absent(s, n),
           NEW ms \in Nat, NEW i \in 1 .. Len(s) + 1, Fits(s, rem, ms, i)
    PROVE  Spliced(s, rem, n, ms, i) \in [Nodes -> Nat]
<1>0. Len(s) \in Nat /\ i - 1 \in 0 .. Len(s) /\ rem \in [Nodes -> Int]
  BY SMT, SMTT(30)
<1>1. /\ Upto(s, rem, 0) = 0
      /\ \A k \in 0 .. Len(s) : Upto(s, rem, k) \in Int
  BY ZenonT(30), <1>0, UptoFacts
<1>2. ms - Upto(s, rem, i - 1) \in Nat
  <2>1. CASE i = 1
    BY SMT, SMTT(30), <1>1, <2>1
  <2>2. CASE i # 1
    <3>1. i - 1 \in 1 .. i - 1
      BY SMT, SMTT(30), <2>2, <1>0
    <3>2. Upto(s, rem, i - 1) <= ms /\ Upto(s, rem, i - 1) \in Int
      BY ZenonT(30), <1>0, <1>1, <3>1 DEF Fits
    <3> QED BY SMT, SMTT(30), <3>2
  <2> QED BY <2>1, <2>2
<1>3. ASSUME i <= Len(s) PROVE Upto(s, rem, i) - ms \in Nat
  <2>1. i \in 0 .. Len(s)
    BY SMT, SMTT(30), <1>3
  <2>2. Upto(s, rem, i) > ms /\ Upto(s, rem, i) \in Int
    BY ZenonT(30), <1>1, <1>3, <2>1 DEF Fits
  <2> QED BY SMT, SMTT(30), <2>2
<1>4. \A m \in Nodes : rem[m] \in Nat
  OBVIOUS
<1>5. ASSUME NEW m \in Nodes PROVE Spliced(s, rem, n, ms, i)[m] \in Nat
  <2>1. CASE m = n
    <3>1. i <= Len(s) => i \in 1 .. Len(s)
      BY SMT, SMTT(30)
    <3>2. ~(i <= Len(s) /\ m = s[i])
      BY ZenonT(30), <2>1, <3>1 DEF Absent
    <3> QED BY ZenonT(30), <1>2, <2>1, <3>2 DEF Spliced
  <2>2. CASE m # n /\ i <= Len(s) /\ m = s[i]
    BY ZenonT(30), <1>3, <2>2 DEF Spliced
  <2>3. CASE m # n /\ ~(i <= Len(s) /\ m = s[i])
    BY ZenonT(30), <1>4, <2>3 DEF Spliced
  <2> QED BY ZenonT(30), <2>1, <2>2, <2>3
<1> QED BY ZenonT(30), <1>5 DEF Spliced

LEMMA InsertRep ==
    ASSUME NEW s \in Seq(Nodes), Distinct(s), NEW rem \in [Nodes -> Nat], NEW due \in [Nodes -> Int],
           NEW base \in Int, Rep(s, rem, due, base),
           NEW n \in Nodes, Absent(s, n), NEW ms \in Nat, NEW i \in 1 .. Len(s) + 1,
           NEW due2, due2 = [due EXCEPT ![n] = base + ms]
    PROVE  Rep(InsertAt(s, i, n), Spliced(s, rem, n, ms, i), due2, base)
<1> DEFINE N == Len(s)
           v == InsertAt(s, i, n)
           rem2 == Spliced(s, rem, n, ms, i)
           S(k) == Upto(s, rem, k)
           t == [k \in 0 .. N + 1 |-> IF k < i THEN S(k) ELSE IF k = i THEN ms ELSE S(k - 1)]
<1>0. N \in Nat /\ i \in 1 .. N + 1 /\ i \in 0 .. N + 1 /\ rem \in [Nodes -> Int]
  BY SMT, SMTT(30)
<1>1. /\ S(0) = 0
      /\ \A k \in 1 .. N : S(k) = S(k - 1) + rem[s[k]]
      /\ \A k \in 0 .. N : S(k) \in Int
  BY ZenonT(30), <1>0, UptoFacts
<1>2. /\ v \in Seq(Nodes) /\ Len(v) = N + 1
      /\ \A k \in 1 .. i - 1 : v[k] = s[k]
      /\ v[i] = n
      /\ \A k \in i + 1 .. N + 1 : v[k] = s[k - 1]
  <2>1. InsertedAt(Nodes, s, i, n, v)
    BY ONLY ZenonT(30), s \in Seq(Nodes), n \in Nodes, i \in 1 .. Len(s) + 1, InsertAtInserts
  <2> HIDE DEF v
  <2> QED BY ONLY ZenonT(30), <2>1 DEF InsertedAt, N
<1>3. /\ rem2[n] = ms - S(i - 1)
      /\ i <= N => rem2[s[i]] = S(i) - ms
      /\ \A k \in 1 .. N : k # i => rem2[s[k]] = rem[s[k]]
  <2>1. ChangedAt(s, rem, n, ms, i, rem2)
    BY ZenonT(30), SplicedFacts
  <2> HIDE DEF rem2
  <2> QED BY ONLY ZenonT(30), <2>1 DEF ChangedAt, N, S
<1>4. /\ \A k \in 0 .. N + 1 : k < i => t[k] = S(k)
      /\ t[i] = ms
      /\ \A k \in 0 .. N + 1 : k > i => t[k] = S(k - 1)
  <2> HIDE DEF S, N
  <2> QED BY ONLY SMT, SMTT(30), <1>0 DEF t
<1>5. \A k \in 1 .. N : s[k] \in Nodes /\ s[k] # n /\ S(k) = Positive(due[s[k]] - base)
  <2>1. \A k \in 1 .. N : s[k] \in Nodes
    BY SMT, SMTT(30)
  <2> QED BY ZenonT(30), <2>1 DEF Rep, Absent
<1>6. due2[n] = base + ms /\ \A m \in Nodes : m # n => due2[m] = due[m]
  OBVIOUS
<1> HIDE DEF S, N, v, t, rem2
<1>7. Grows(t, v, rem2)
  <2>1. t[0] = 0
    <3>1. 0 \in 0 .. N + 1 /\ 0 < i
      BY ONLY SMT, SMTT(30), <1>0
    <3> QED BY ZenonT(30), <1>1, <1>4, <3>1
  <2>2. ASSUME NEW k \in 1 .. N + 1 PROVE t[k] = t[k - 1] + rem2[v[k]]
    <3>1. CASE k < i
      <4>1. /\ k \in 1 .. i - 1 /\ k \in 1 .. N /\ k # i /\ k - 1 < i
            /\ k \in 0 .. N + 1 /\ k - 1 \in 0 .. N + 1
        BY ONLY SMT, SMTT(30), <1>0, <2>2, <3>1
      <4>2. v[k] = s[k] /\ rem2[s[k]] = rem[s[k]]
        BY ONLY ZenonT(30), <1>2, <1>3, <4>1
      <4>3. S(k) = S(k - 1) + rem[s[k]] /\ t[k] = S(k) /\ t[k - 1] = S(k - 1)
        BY ONLY ZenonT(30), <1>1, <1>4, <3>1, <4>1
      <4> QED BY ONLY ZenonT(30), <4>2, <4>3
    <3>2. CASE k = i
      <4>1. k - 1 \in 0 .. N + 1 /\ k - 1 < i /\ k - 1 \in 0 .. N
        BY ONLY SMT, SMTT(30), <1>0, <2>2, <3>2
      <4>2. v[k] = n /\ rem2[n] = ms - S(k - 1) /\ t[k] = ms /\ t[k - 1] = S(k - 1) /\ S(k - 1) \in Int
        BY ZenonT(30), <1>1, <1>2, <1>3, <1>4, <3>2, <4>1
      <4> QED BY ONLY SMT, SMTT(30), <4>2, ms \in Nat
    <3>3. CASE k = i + 1
      <4>1. /\ i \in 1 .. N /\ i <= N /\ i \in 0 .. N /\ k \in i + 1 .. N + 1 /\ k - 1 = i /\ k > i
            /\ k \in 0 .. N + 1
        BY ONLY SMT, SMTT(30), <1>0, <2>2, <3>3
      <4>2. v[k] = s[i] /\ rem2[s[i]] = S(i) - ms /\ t[k] = S(i) /\ t[k - 1] = ms /\ S(i) \in Int
        BY ZenonT(30), <1>1, <1>2, <1>3, <1>4, <4>1
      <4> QED BY ONLY SMT, SMTT(30), <4>2, ms \in Nat
    <3>4. CASE k > i + 1
      <4> DEFINE j == k - 1
      <4>1. /\ j \in 1 .. N /\ j # i /\ k \in i + 1 .. N + 1 /\ j > i /\ k > i
            /\ j \in 0 .. N + 1 /\ k \in 0 .. N + 1
        BY ONLY SMT, SMTT(30), <1>0, <2>2, <3>4
      <4>2. v[k] = s[j] /\ rem2[s[j]] = rem[s[j]]
        BY ONLY ZenonT(30), <1>2, <1>3, <4>1
      <4>3. S(j) = S(j - 1) + rem[s[j]] /\ t[k] = S(j) /\ t[j] = S(j - 1)
        BY ONLY ZenonT(30), <1>1, <1>4, <4>1
      <4> QED BY ONLY ZenonT(30), <4>2, <4>3
    <3> QED BY ONLY SMT, SMTT(30), <1>0, <2>2, <3>1, <3>2, <3>3, <3>4
  <2> QED BY ZenonT(30), <1>2, <2>1, <2>2 DEF Grows
<1>8. Remains(t, v, due2, base)
  <2>1. ASSUME NEW k \in 1 .. N + 1 PROVE t[k] = Positive(due2[v[k]] - base)
    <3>1. CASE k < i
      <4>1. k \in 1 .. i - 1 /\ k \in 1 .. N /\ k \in 0 .. N + 1
        BY ONLY SMT, SMTT(30), <1>0, <2>1, <3>1
      <4> QED BY ZenonT(30), <1>2, <1>4, <1>5, <1>6, <3>1, <4>1
    <3>2. CASE k = i
      <4>1. Positive((base + ms) - base) = ms
        BY ONLY SMT, SMTT(30), base \in Int, ms \in Nat DEF Positive
      <4> QED BY ZenonT(30), <1>2, <1>4, <1>6, <3>2, <4>1
    <3>3. CASE k > i
      <4> DEFINE j == k - 1
      <4>1. j \in 1 .. N /\ k \in i + 1 .. N + 1 /\ k \in 0 .. N + 1
        BY ONLY SMT, SMTT(30), <1>0, <2>1, <3>3
      <4>2. v[k] = s[j] /\ t[k] = S(j)
        BY ONLY ZenonT(30), <1>2, <1>4, <3>3, <4>1
      <4>3. due2[s[j]] = due[s[j]] /\ S(j) = Positive(due[s[j]] - base)
        BY ONLY ZenonT(30), <1>5, <1>6, <4>1
      <4> QED BY ONLY ZenonT(30), <4>2, <4>3
    <3> QED BY ONLY SMT, SMTT(30), <1>0, <2>1, <3>1, <3>2, <3>3
  <2> QED BY ZenonT(30), <1>2, <2>1 DEF Remains
<1> QED BY ZenonT(30), <1>2, <1>7, <1>8, RepFrom DEF v, rem2

\* delAlarmEventNode: the next timer inherits the difference.
Inherited(s, rem, i) == IF i = Len(s) THEN rem ELSE [rem EXCEPT ![s[i + 1]] = @ + rem[s[i]]]

LEMMA InheritedFacts ==
    ASSUME NEW s \in Seq(Nodes), Distinct(s), NEW rem \in [Nodes -> Nat], NEW i \in 1 .. Len(s)
    PROVE  /\ Inherited(s, rem, i) \in [Nodes -> Nat]
           /\ \A k \in 1 .. Len(s) : k # i + 1 => Inherited(s, rem, i)[s[k]] = rem[s[k]]
           /\ i < Len(s) => Inherited(s, rem, i)[s[i + 1]] = rem[s[i + 1]] + rem[s[i]]
<1>1. CASE i = Len(s)
  <2>1. Inherited(s, rem, i) = rem /\ ~(i < Len(s))
    BY SMT, SMTT(30), <1>1 DEF Inherited
  <2> QED BY ZenonT(30), <2>1
<1>2. CASE i # Len(s)
  <2> DEFINE j == i + 1
             rem2 == [rem EXCEPT ![s[j]] = @ + rem[s[i]]]
  <2>1. Inherited(s, rem, i) = rem2
    BY ZenonT(30), <1>2 DEF Inherited
  <2>2. j \in 1 .. Len(s) /\ s[j] \in Nodes /\ s[i] \in Nodes
    BY SMT, SMTT(30), <1>2
  <2>3. rem2 \in [Nodes -> Nat] /\ rem2[s[j]] = rem[s[j]] + rem[s[i]]
    BY SMT, SMTT(30), <2>2
  <2>4. ASSUME NEW k \in 1 .. Len(s), k # j PROVE rem2[s[k]] = rem[s[k]]
    <3>1. s[k] # s[j] /\ s[k] \in Nodes
      BY SMT, SMTT(30), <2>2, <2>4 DEF Distinct
    <3> QED BY <3>1
  <2> HIDE DEF rem2
  <2>5. Inherited(s, rem, i) \in [Nodes -> Nat]
    BY ONLY ZenonT(30), <2>1, <2>3
  <2>6. \A k \in 1 .. Len(s) : k # i + 1 => Inherited(s, rem, i)[s[k]] = rem[s[k]]
    BY ONLY ZenonT(30), <2>1, <2>4
  <2>7. Inherited(s, rem, i)[s[i + 1]] = rem[s[i + 1]] + rem[s[i]]
    BY ONLY ZenonT(30), <2>1, <2>3
  <2> QED BY ZenonT(30), <2>5, <2>6, <2>7
<1> QED BY ZenonT(30), <1>1, <1>2

LEMMA RemoveRep ==
    ASSUME NEW s \in Seq(Nodes), Distinct(s), NEW rem \in [Nodes -> Nat], NEW due,
           NEW base, Rep(s, rem, due, base), NEW i \in 1 .. Len(s)
    PROVE  Rep(RemoveAt(s, i), Inherited(s, rem, i), due, base)
<1> DEFINE N == Len(s)
           v == RemoveAt(s, i)
           rem2 == Inherited(s, rem, i)
           S(k) == Upto(s, rem, k)
           t == [k \in 0 .. N - 1 |-> IF k < i THEN S(k) ELSE S(k + 1)]
<1>0. N \in Nat /\ i \in 1 .. N /\ rem \in [Nodes -> Int]
  BY SMT, SMTT(30)
<1>1. /\ S(0) = 0
      /\ \A k \in 1 .. N : S(k) = S(k - 1) + rem[s[k]]
      /\ \A k \in 0 .. N : S(k) \in Int
  BY ZenonT(30), <1>0, UptoFacts
<1>2. /\ v \in Seq(Nodes) /\ Len(v) = N - 1
      /\ \A k \in 1 .. i - 1 : v[k] = s[k]
      /\ \A k \in i .. N - 1 : v[k] = s[k + 1]
  BY ONLY ZenonT(30), s \in Seq(Nodes), i \in 1 .. Len(s), RemoveAtFacts DEF N, v
<1>3. /\ \A k \in 1 .. N : k # i + 1 => rem2[s[k]] = rem[s[k]]
      /\ i < N => rem2[s[i + 1]] = rem[s[i + 1]] + rem[s[i]]
  BY ONLY ZenonT(30), s \in Seq(Nodes), Distinct(s), rem \in [Nodes -> Nat], i \in 1 .. Len(s),
          InheritedFacts DEF N, rem2
<1>4. /\ \A k \in 0 .. N - 1 : k < i => t[k] = S(k)
      /\ \A k \in 0 .. N - 1 : ~(k < i) => t[k] = S(k + 1)
  BY ONLY ZenonT(30) DEF t
<1>5. \A k \in 1 .. N : S(k) = Positive(due[s[k]] - base) /\ rem[s[k]] \in Nat
  <2>1. \A k \in 1 .. N : rem[s[k]] \in Nat
    BY SMT, SMTT(30)
  <2> QED BY ZenonT(30), <2>1 DEF Rep
<1> HIDE DEF S, N, v, t, rem2
<1>6. Grows(t, v, rem2)
  <2>1. t[0] = 0
    <3>1. 0 \in 0 .. N - 1 /\ 0 < i
      BY ONLY SMT, SMTT(30), <1>0
    <3> QED BY ONLY ZenonT(30), <1>1, <1>4, <3>1
  <2>2. ASSUME NEW k \in 1 .. N - 1 PROVE t[k] = t[k - 1] + rem2[v[k]]
    <3>1. CASE k < i
      <4>1. /\ k \in 1 .. i - 1 /\ k \in 1 .. N /\ k # i + 1 /\ k - 1 < i
            /\ k \in 0 .. N - 1 /\ k - 1 \in 0 .. N - 1
        BY ONLY SMT, SMTT(30), <1>0, <2>2, <3>1
      <4>2. v[k] = s[k] /\ rem2[s[k]] = rem[s[k]]
        BY ONLY ZenonT(30), <1>2, <1>3, <4>1
      <4>3. S(k) = S(k - 1) + rem[s[k]] /\ t[k] = S(k) /\ t[k - 1] = S(k - 1)
        BY ONLY ZenonT(30), <1>1, <1>4, <3>1, <4>1
      <4> QED BY ONLY ZenonT(30), <4>2, <4>3
    <3>2. CASE k = i
      <4>1. /\ i \in i .. N - 1 /\ i < N /\ i \in 1 .. N /\ i + 1 \in 1 .. N /\ (i + 1) - 1 = i
            /\ i - 1 \in 0 .. N - 1 /\ i \in 0 .. N - 1 /\ i - 1 < i /\ ~(i < i) /\ i - 1 \in 0 .. N
        BY ONLY SMT, SMTT(30), <1>0, <2>2, <3>2
      <4>2. v[i] = s[i + 1] /\ rem2[s[i + 1]] = rem[s[i + 1]] + rem[s[i]]
        BY ONLY ZenonT(30), <1>2, <1>3, <4>1
      <4>3. t[i] = S(i + 1) /\ t[i - 1] = S(i - 1)
        BY ONLY ZenonT(30), <1>4, <4>1
      <4>4. S(i + 1) = S(i) + rem[s[i + 1]] /\ S(i) = S(i - 1) + rem[s[i]] /\ S(i - 1) \in Int
        BY ONLY ZenonT(30), <1>1, <4>1
      <4>5. rem[s[i]] \in Nat /\ rem[s[i + 1]] \in Nat
        BY ONLY ZenonT(30), <1>5, <4>1
      <4>6. S(i + 1) = S(i - 1) + (rem[s[i + 1]] + rem[s[i]])
        BY ONLY SMT, SMTT(30), <4>4, <4>5
      <4> QED BY ONLY ZenonT(30), <3>2, <4>2, <4>3, <4>6
    <3>3. CASE k > i
      <4> DEFINE j == k + 1
      <4>1. /\ j \in 1 .. N /\ j # i + 1 /\ k \in i .. N - 1 /\ j - 1 = k /\ ~(k < i) /\ ~(k - 1 < i)
            /\ k - 1 \in 0 .. N - 1 /\ k \in 0 .. N - 1 /\ (k - 1) + 1 = k
        BY ONLY SMT, SMTT(30), <1>0, <2>2, <3>3
      <4>2. v[k] = s[j] /\ rem2[s[j]] = rem[s[j]]
        BY ONLY ZenonT(30), <1>2, <1>3, <4>1
      <4>3. S(j) = S(k) + rem[s[j]] /\ t[k] = S(j) /\ t[k - 1] = S(k)
        BY ONLY ZenonT(30), <1>1, <1>4, <4>1
      <4> QED BY ONLY ZenonT(30), <4>2, <4>3
    <3> QED BY ONLY SMT, SMTT(30), <1>0, <2>2, <3>1, <3>2, <3>3
  <2> QED BY ZenonT(30), <1>2, <2>1, <2>2 DEF Grows
<1>7. Remains(t, v, due, base)
  <2>1. ASSUME NEW k \in 1 .. N - 1 PROVE t[k] = Positive(due[v[k]] - base)
    <3>1. CASE k < i
      <4>1. k \in 1 .. i - 1 /\ k \in 1 .. N /\ k \in 0 .. N - 1
        BY ONLY SMT, SMTT(30), <1>0, <2>1, <3>1
      <4> QED BY ONLY ZenonT(30), <1>2, <1>4, <1>5, <3>1, <4>1
    <3>2. CASE ~(k < i)
      <4> DEFINE j == k + 1
      <4>1. j \in 1 .. N /\ k \in i .. N - 1 /\ k \in 0 .. N - 1
        BY ONLY SMT, SMTT(30), <1>0, <2>1, <3>2
      <4> QED BY ONLY ZenonT(30), <1>2, <1>4, <1>5, <3>2, <4>1
    <3> QED BY ZenonT(30), <3>1, <3>2
  <2> QED BY ZenonT(30), <1>2, <2>1 DEF Remains
<1> QED BY ZenonT(30), <1>2, <1>6, <1>7, RepFrom DEF v, rem2

\* handleAlarmEvent: what the first timer had left is cut off the others' delays.
Cut(s, due, r, due2) == \A k \in 2 .. Len(s) : due2[s[k]] = due[s[k]] - r

LEMMA CutPositive ==
    ASSUME NEW d \in Int, NEW b \in Int, NEW r \in Nat, NEW x \in Int, x = Positive(d - b), x >= r
    PROVE  x - r = Positive((d - r) - b)
  BY SMT, SMTT(30) DEF Positive

LEMMA FireRep ==
    ASSUME NEW s \in Seq(Nodes), s # <<>>, NEW rem \in [Nodes -> Nat], NEW due \in [Nodes -> Int],
           NEW base \in Int, Rep(s, rem, due, base), NEW due2, Cut(s, due, rem[s[1]], due2)
    PROVE  Rep(Tail(s), rem, due2, base)
<1> DEFINE N == Len(s)
           v == Tail(s)
           r == rem[s[1]]
           S(k) == Upto(s, rem, k)
           t == [k \in 0 .. N - 1 |-> S(k + 1) - r]
<1>0. /\ N \in Nat /\ N >= 1 /\ rem \in [Nodes -> Int] /\ r \in Nat
      /\ v \in Seq(Nodes) /\ Len(v) = N - 1 /\ \A k \in 1 .. N - 1 : v[k] = s[k + 1]
  BY SMT, SMTT(30)
<1>1. /\ S(0) = 0
      /\ \A k \in 1 .. N : S(k) = S(k - 1) + rem[s[k]]
      /\ \A k \in 0 .. N : S(k) \in Int
  BY ZenonT(30), <1>0, UptoFacts
<1>2. \A k \in 1 .. N : S(k) >= S(1)
  BY ZenonT(30), UptoAtLeastFirst
<1>3. \A k \in 0 .. N - 1 : t[k] = S(k + 1) - r
  BY ONLY ZenonT(30) DEF t
<1>4. \A k \in 1 .. N : S(k) = Positive(due[s[k]] - base) /\ due[s[k]] \in Int /\ rem[s[k]] \in Nat
  <2>1. \A k \in 1 .. N : due[s[k]] \in Int /\ rem[s[k]] \in Nat
    BY SMT, SMTT(30)
  <2> QED BY ZenonT(30), <2>1 DEF Rep
<1>5. \A k \in 2 .. N : due2[s[k]] = due[s[k]] - r
  BY ZenonT(30) DEF Cut
<1>6. S(1) = r
  <2>1. 1 \in 1 .. N /\ 1 - 1 = 0
    BY ONLY SMT, SMTT(30), <1>0
  <2>2. S(1) = 0 + r
    BY ONLY ZenonT(30), <1>1, <2>1 DEF r
  <2> HIDE DEF r, S
  <2> QED BY ONLY SMT, SMTT(30), <1>0, <2>2
<1> HIDE DEF S, N, v, t, r
<1>7. Grows(t, v, rem)
  <2>1. t[0] = 0
    <3>1. 0 \in 0 .. N - 1 /\ 0 + 1 = 1
      BY ONLY SMT, SMTT(30), <1>0
    <3>2. t[0] = S(1) - r
      BY ONLY ZenonT(30), <1>3, <3>1
    <3> QED BY ONLY SMT, SMTT(30), <1>0, <1>6, <3>2
  <2>2. ASSUME NEW k \in 1 .. N - 1 PROVE t[k] = t[k - 1] + rem[v[k]]
    <3> DEFINE j == k + 1
    <3>1. /\ j \in 1 .. N /\ j - 1 = k /\ k \in 0 .. N - 1 /\ k - 1 \in 0 .. N - 1
          /\ (k - 1) + 1 = k /\ k \in 0 .. N
      BY ONLY SMT, SMTT(30), <1>0, <2>2
    <3>2. v[k] = s[j] /\ t[k] = S(j) - r /\ t[k - 1] = S(k) - r
      BY ONLY ZenonT(30), <1>0, <1>3, <2>2, <3>1
    <3>3. S(j) = S(k) + rem[s[j]] /\ S(k) \in Int /\ rem[s[j]] \in Nat
      BY ONLY ZenonT(30), <1>1, <1>4, <3>1
    <3>4. S(j) - r = (S(k) - r) + rem[s[j]]
      <4>1. r \in Nat
        BY ONLY ZenonT(30), <1>0
      <4> QED BY ONLY SMT, SMTT(30), <3>3, <4>1
    <3> QED BY ONLY ZenonT(30), <3>2, <3>4
  <2> QED BY ZenonT(30), <1>0, <2>1, <2>2 DEF Grows
<1>8. Remains(t, v, due2, base)
  <2>1. ASSUME NEW k \in 1 .. N - 1 PROVE t[k] = Positive(due2[v[k]] - base)
    <3> DEFINE j == k + 1
    <3>1. j \in 1 .. N /\ j \in 2 .. N /\ k \in 0 .. N - 1 /\ j \in 0 .. N
      BY ONLY SMT, SMTT(30), <1>0, <2>1
    <3>2. v[k] = s[j] /\ t[k] = S(j) - r /\ due2[s[j]] = due[s[j]] - r
      BY ONLY ZenonT(30), <1>0, <1>3, <1>5, <2>1, <3>1
    <3>3. S(j) = Positive(due[s[j]] - base) /\ due[s[j]] \in Int /\ S(j) >= S(1) /\ S(j) \in Int
      BY ONLY ZenonT(30), <1>1, <1>2, <1>4, <3>1
    <3>4. S(j) - r = Positive((due[s[j]] - r) - base)
      <4>1. r \in Nat /\ S(j) >= r
        BY ONLY ZenonT(30), <1>0, <1>6, <3>3
      <4> QED BY ONLY ZenonT(30), <3>3, <4>1, base \in Int, CutPositive
    <3> QED BY ONLY ZenonT(30), <3>2, <3>4
  <2> QED BY ZenonT(30), <1>0, <2>1 DEF Remains
<1> QED BY ZenonT(30), <1>0, <1>7, <1>8, RepFrom DEF v

-----------------------------------------------------------------------------
\* When a timer is due, with what was cut off taken into account.
Due == [n \in Nodes |-> deadline[n] - lost[n]]

TimeInv ==
    /\ list \in Seq(Nodes) /\ Distinct(list)
    /\ tvRemain \in [Nodes -> Nat]
    /\ deadline \in [Nodes -> Int] /\ lost \in [Nodes -> Int]
    /\ clock \in Nat /\ lastSync \in Nat /\ lastSync <= clock
    /\ Representation

LEMMA Represented == TimeInv => Rep(list, tvRemain, Due, lastSync) /\ Due \in [Nodes -> Int]
<1> SUFFICES ASSUME TimeInv PROVE Rep(list, tvRemain, Due, lastSync) /\ Due \in [Nodes -> Int]
  OBVIOUS
<1>1. /\ list \in Seq(Nodes) /\ deadline \in [Nodes -> Int] /\ lost \in [Nodes -> Int]
      /\ Representation
  BY ZenonT(30) DEF TimeInv
<1>2. DOMAIN list = 1 .. Len(list) /\ \A k \in 1 .. Len(list) : list[k] \in Nodes
  BY ONLY SMT, SMTT(30), <1>1
<1>3. Rep(list, tvRemain, Due, lastSync)
  BY ONLY ZenonT(30), <1>1, <1>2 DEF Representation, Rep, Due
<1>4. Due \in [Nodes -> Int]
  BY ONLY SMT, SMTT(30), <1>1 DEF Due
<1> QED BY <1>3, <1>4

\* The other direction, for the next state.
LEMMA StillRepresented ==
    ASSUME list' \in Seq(Nodes), Rep(list', tvRemain', Due', lastSync')
    PROVE  Representation'
<1>1. DOMAIN list' = 1 .. Len(list') /\ \A k \in 1 .. Len(list') : list'[k] \in Nodes
  BY SMT, SMTT(30)
<1> QED BY ONLY ZenonT(30), <1>1, Rep(list', tvRemain', Due', lastSync') DEF Representation, Rep, Due

\* A synchronised list counts from now.
LEMMA Synced == TimeInv => synchronize \in [Nodes -> Nat] /\ Rep(list, synchronize, Due, clock)
<1> SUFFICES ASSUME TimeInv
             PROVE  synchronize \in [Nodes -> Nat] /\ Rep(list, synchronize, Due, clock)
  OBVIOUS
<1>0. /\ list \in Seq(Nodes) /\ Distinct(list) /\ tvRemain \in [Nodes -> Nat]
      /\ clock \in Nat /\ lastSync \in Nat /\ lastSync <= clock
  BY ZenonT(30) DEF TimeInv
<1>1. DOMAIN list = 1 .. Len(list) /\ \A k \in 1 .. Len(list) : list[k] \in Nodes
  BY ONLY SMT, SMTT(30), <1>0
<1>2. Elapsed = clock - lastSync
  BY ONLY SMT, SMTT(30), <1>0 DEF Elapsed, Positive
<1>3. \A k \in 1 .. Len(list) : list[k] \in Listed /\ Place(list[k]) = k
  <2> SUFFICES ASSUME NEW k \in 1 .. Len(list) PROVE list[k] \in Listed /\ Place(list[k]) = k
    OBVIOUS
  <2>1. \A j \in 1 .. Len(list) : list[j] = list[k] => j = k
    BY ONLY ZenonT(30), <1>0, <1>1, k \in 1 .. Len(list) DEF Distinct
  <2> QED BY ONLY ZenonT(30), <1>1, <2>1, k \in 1 .. Len(list) DEF Listed, Place
<1>4. Charged(list, tvRemain, clock - lastSync, synchronize)
  BY ONLY ZenonT(30), <1>1, <1>2, <1>3 DEF Charged, synchronize
<1>5. Rep(list, synchronize, Due, clock)
  <2>1. /\ Rep(list, tvRemain, Due, lastSync) /\ Due \in [Nodes -> Int]
        /\ clock \in Int /\ lastSync \in Int
    BY SMT, SMTT(30), <1>0, Represented
  <2> HIDE DEF synchronize
  <2> QED BY ONLY ZenonT(30), <1>0, <1>4, <2>1, SyncRep
<1>6. ASSUME NEW n \in Nodes PROVE synchronize[n] \in Nat
  <2>1. tvRemain[n] \in Nat
    BY ONLY ZenonT(30), <1>0, <1>6
  <2>2. CASE n \notin Listed
    BY ONLY ZenonT(30), <1>6, <2>1, <2>2 DEF synchronize
  <2>3. CASE n \in Listed
    <3> DEFINE e == Positive(Elapsed - Upto(list, tvRemain, Place(n) - 1))
    <3>1. synchronize[n] = Positive(tvRemain[n] - e)
      BY ONLY ZenonT(30), <1>6, <2>3 DEF synchronize
    <3>2. e \in Int
      <4>1. PICK k \in 1 .. Len(list) : list[k] = n
        BY ONLY ZenonT(30), <1>1, <2>3 DEF Listed
      <4>2. Place(n) = k
        BY ONLY ZenonT(30), <1>3, <4>1
      <4>3. Len(list) \in Nat /\ k - 1 \in 0 .. Len(list) /\ tvRemain \in [Nodes -> Int]
        BY ONLY SMT, SMTT(30), <1>0, k \in 1 .. Len(list)
      <4>4. Upto(list, tvRemain, k - 1) \in Int
        BY ONLY ZenonT(30), <1>0, <4>3, UptoFacts
      <4> QED BY ONLY SMT, SMTT(30), <1>0, <1>2, <4>2, <4>4 DEF Positive
    <3> HIDE DEF e
    <3> QED BY ONLY SMT, SMTT(30), <2>1, <3>1, <3>2 DEF Positive
  <2> QED BY ZenonT(30), <2>2, <2>3
<1>7. synchronize = [n \in Nodes |-> synchronize[n]]
  BY ONLY ZenonT(30) DEF synchronize
<1> QED BY ONLY ZenonT(30), <1>5, <1>6, <1>7

\* What handleAlarmEvent sees, synchronised or not.
LEMMA SeenFacts == TimeInv => /\ Seen \in [Nodes -> Nat] /\ Rep(list, Seen, Due, SeenAt)
                              /\ SeenAt \in Nat /\ SeenAt <= clock
<1> SUFFICES ASSUME TimeInv
             PROVE  /\ Seen \in [Nodes -> Nat] /\ Rep(list, Seen, Due, SeenAt)
                    /\ SeenAt \in Nat /\ SeenAt <= clock
  OBVIOUS
<1>1. CASE list # <<>> /\ tvRemain[list[1]] = 0
  BY ZenonT(30), <1>1, Represented DEF Seen, SeenAt, TimeInv
<1>2. CASE ~(list # <<>> /\ tvRemain[list[1]] = 0)
  <2>1. clock \in Nat /\ clock <= clock
    BY SMT, SMTT(30) DEF TimeInv
  <2> HIDE DEF synchronize
  <2> QED BY ZenonT(30), <1>2, <2>1, Synced DEF Seen, SeenAt
<1> QED BY ZenonT(30), <1>1, <1>2

LEMMA AddKeeps ==
    ASSUME TimeInv, NEW n \in Nodes, NEW ms \in 0 .. MaxDelay, addAlarmEventNode(n, ms)
    PROVE  TimeInv'
<1> DEFINE rem == synchronize
<1>0. /\ list \in Seq(Nodes) /\ Distinct(list)
      /\ deadline \in [Nodes -> Int] /\ lost \in [Nodes -> Int] /\ clock \in Nat
  BY ZenonT(30) DEF TimeInv
<1>1. rem \in [Nodes -> Nat] /\ Rep(list, rem, Due, clock) /\ Due \in [Nodes -> Int]
  BY ZenonT(30), Synced, Represented
<1>2. /\ lastSync' = clock /\ clock' = clock
      /\ deadline' = [deadline EXCEPT ![n] = clock + ms] /\ lost' = [lost EXCEPT ![n] = 0]
  BY ZenonT(30) DEF addAlarmEventNode
<1>3. ms \in Nat /\ clock \in Int /\ clock <= clock
  BY SMT, SMTT(30), <1>0, TimeListAssumption
<1>4. n \notin Members(list) /\ Absent(list, n)
  <2>1. n \notin Listed
    BY ZenonT(30) DEF addAlarmEventNode, Unused
  <2>2. DOMAIN list = 1 .. Len(list)
    BY ONLY SMT, SMTT(30), <1>0
  <2> QED BY ONLY ZenonT(30), <2>1, <2>2 DEF Listed, Members, Absent
<1> HIDE DEF rem
<1>5. PICK i \in 1 .. Len(list) + 1 : Fits(list, rem, ms, i) /\ Insert(n, ms, i, rem)
  BY ZenonT(30) DEF addAlarmEventNode, Fits, rem
<1>6. list' = InsertAt(list, i, n) /\ tvRemain' = Spliced(list, rem, n, ms, i)
  BY ZenonT(30), <1>5 DEF Insert, Spliced
<1>7. list' \in Seq(Nodes) /\ Distinct(list')
  BY ZenonT(30), <1>0, <1>4, <1>6, JoinFacts
<1>8. tvRemain' \in [Nodes -> Nat]
  BY ZenonT(30), <1>0, <1>1, <1>3, <1>4, <1>5, <1>6, SplicedNat
<1>9. Due' = [Due EXCEPT ![n] = clock + ms]
  <2> DEFINE D == [m \in Nodes |-> IF m = n THEN clock + ms ELSE Due[m]]
  <2>1. [Due EXCEPT ![n] = clock + ms] = D
    BY ONLY ZenonT(30), <1>1, n \in Nodes
  <2>2. ASSUME NEW m \in Nodes PROVE Due'[m] = D[m]
    <3>1. /\ Due'[m] = deadline'[m] - lost'[m] /\ Due[m] = deadline[m] - lost[m]
          /\ D[m] = IF m = n THEN clock + ms ELSE Due[m]
      BY ONLY ZenonT(30), m \in Nodes DEF Due
    <3>2. CASE m = n
      <4>1. deadline'[m] = clock + ms /\ lost'[m] = 0
        BY ONLY ZenonT(30), <1>0, <1>2, <3>2, n \in Nodes
      <4> QED BY ONLY SMT, SMTT(30), <1>3, <3>1, <3>2, <4>1
    <3>3. CASE m # n
      <4>1. deadline'[m] = deadline[m] /\ lost'[m] = lost[m]
        BY ONLY ZenonT(30), <1>0, <1>2, <3>3, m \in Nodes
      <4> QED BY ONLY ZenonT(30), <3>1, <3>3, <4>1
    <3> QED BY ONLY ZenonT(30), <3>2, <3>3
  <2>3. Due' = D
    BY ONLY ZenonT(30), <2>2 DEF Due
  <2> QED BY ONLY ZenonT(30), <2>1, <2>3
<1>10. Rep(list', tvRemain', Due', clock)
  <2> HIDE DEF Due
  <2>1. Rep(InsertAt(list, i, n), Spliced(list, rem, n, ms, i), Due', clock)
    BY ONLY ZenonT(30), n \in Nodes, i \in 1 .. Len(list) + 1, <1>0, <1>1, <1>3, <1>4, <1>9, InsertRep
  <2> QED BY ZenonT(30), <2>1, <1>6
<1>11. Representation'
  BY ZenonT(30), <1>2, <1>7, <1>10, StillRepresented
<1>12. deadline' \in [Nodes -> Int] /\ lost' \in [Nodes -> Int]
  BY ONLY SMT, SMTT(30), <1>0, <1>2, <1>3
<1> QED BY ZenonT(30), <1>0, <1>2, <1>3, <1>7, <1>8, <1>11, <1>12 DEF TimeInv

\* As long as nothing is due at another time, an operation has only to keep the sums.
LEMMA SameDue ==
    ASSUME TimeInv, UNCHANGED <<deadline, lost>>, list' \in Seq(Nodes), Distinct(list'),
           tvRemain' \in [Nodes -> Nat], clock' \in Nat, lastSync' \in Nat, lastSync' <= clock',
           Rep(list', tvRemain', Due, lastSync')
    PROVE  TimeInv'
<1>1. Due' = Due
  BY ZenonT(30) DEF Due
<1>2. Representation'
  BY ZenonT(30), <1>1, StillRepresented
<1> QED BY ZenonT(30), <1>2 DEF TimeInv

LEMMA DeleteKeeps ==
    ASSUME TimeInv, NEW n \in Nodes, delAlarmEventNode(n)
    PROVE  TimeInv'
<1> DEFINE rem == synchronize
           i == Place(n)
<1>0. list \in Seq(Nodes) /\ Distinct(list) /\ clock \in Nat /\ clock <= clock
  BY SMT, SMTT(30) DEF TimeInv
<1>1. rem \in [Nodes -> Nat] /\ Rep(list, rem, Due, clock)
  BY ZenonT(30), Synced
<1>2. lastSync' = clock /\ clock' = clock /\ UNCHANGED <<deadline, lost>>
  BY ZenonT(30) DEF delAlarmEventNode
<1> HIDE DEF rem
<1>3. CASE n \notin Listed
  <2>1. list' = list /\ tvRemain' = rem
    BY ZenonT(30), <1>3 DEF delAlarmEventNode, rem
  <2> QED BY ZenonT(30), <1>0, <1>1, <1>2, <2>1, SameDue
<1>4. CASE n \in Listed
  <2>1. i \in DOMAIN list /\ list[i] = n
    BY ZenonT(30), <1>4 DEF Listed, Place
  <2>2. i \in 1 .. Len(list)
    BY ONLY SMT, SMTT(30), <1>0, <2>1
  <2>3. list' = RemoveAt(list, i) /\ tvRemain' = Inherited(list, rem, i)
    BY ZenonT(30), <1>4, <2>1 DEF delAlarmEventNode, Inherited, rem
  <2> HIDE DEF i
  <2>4. list' \in Seq(Nodes) /\ Distinct(list')
    BY ONLY ZenonT(30), <1>0, <2>2, <2>3, LeaveFacts
  <2>5. tvRemain' \in [Nodes -> Nat]
    BY ONLY ZenonT(30), <1>0, <1>1, <2>2, <2>3, InheritedFacts
  <2>6. Rep(list', tvRemain', Due, clock)
    BY ONLY ZenonT(30), <1>0, <1>1, <2>2, <2>3, RemoveRep
  <2> QED BY ZenonT(30), <1>0, <1>2, <2>4, <2>5, <2>6, SameDue
<1> QED BY ZenonT(30), <1>3, <1>4

\* handleAlarmEvent fires the first timer.
LEMMA FireKeeps == TimeInv /\ Fire => TimeInv'
<1> SUFFICES ASSUME TimeInv, Fire PROVE TimeInv'
  OBVIOUS
<1>0. /\ list \in Seq(Nodes) /\ Distinct(list) /\ list # <<>>
      /\ deadline \in [Nodes -> Int] /\ lost \in [Nodes -> Int] /\ clock \in Nat
  BY ZenonT(30) DEF TimeInv, Fire, Up
<1>1. /\ Seen \in [Nodes -> Nat] /\ Rep(list, Seen, Due, SeenAt) /\ SeenAt \in Nat /\ SeenAt <= clock
      /\ Due \in [Nodes -> Int]
  BY ZenonT(30), SeenFacts, Represented
<1> DEFINE r == Seen[list[1]]
<1>2. /\ list' = Tail(list) /\ tvRemain' = Seen /\ lastSync' = SeenAt /\ clock' = clock
      /\ deadline' = deadline
      /\ lost' = [n \in Nodes |-> IF n \in Listed \ {list[1]} THEN lost[n] + r ELSE lost[n]]
  BY ZenonT(30) DEF Fire
<1> HIDE DEF Seen, SeenAt
<1>3. /\ Len(list) \in Nat \ {0} /\ list[1] \in Nodes /\ DOMAIN list = 1 .. Len(list)
      /\ list' \in Seq(Nodes) /\ Len(list') = Len(list) - 1
      /\ \A k \in 1 .. Len(list) - 1 : list'[k] = list[k + 1]
  BY ONLY SMT, SMTT(30), <1>0, <1>2
<1>4. Distinct(list')
  <2> SUFFICES ASSUME NEW j \in DOMAIN list', NEW k \in DOMAIN list', list'[j] = list'[k]
               PROVE  j = k
    BY ZenonT(30) DEF Distinct
  <2>1. /\ j \in 1 .. Len(list) - 1 /\ k \in 1 .. Len(list) - 1
        /\ j + 1 \in 1 .. Len(list) /\ k + 1 \in 1 .. Len(list)
    BY ONLY SMT, SMTT(30), <1>3, j \in DOMAIN list', k \in DOMAIN list'
  <2>2. list[j + 1] = list[k + 1]
    BY ONLY ZenonT(30), <1>3, <2>1, list'[j] = list'[k]
  <2>3. j + 1 = k + 1
    BY ONLY ZenonT(30), <1>0, <1>3, <2>1, <2>2 DEF Distinct
  <2> QED BY ONLY SMT, SMTT(30), <2>1, <2>3
<1>5. r \in Nat
  BY ONLY ZenonT(30), <1>1, <1>3
<1>6. Cut(list, Due, r, Due')
  <2> SUFFICES ASSUME NEW k \in 2 .. Len(list) PROVE Due'[list[k]] = Due[list[k]] - r
    BY ZenonT(30) DEF Cut
  <2>1. k \in 1 .. Len(list) /\ 1 \in 1 .. Len(list) /\ k # 1
    BY ONLY SMT, SMTT(30), <1>3, k \in 2 .. Len(list)
  <2>2. list[k] \in Nodes
    BY ONLY SMT, SMTT(30), <1>0, <2>1
  <2>3. list[k] # list[1] /\ list[k] \in Listed
    BY ONLY ZenonT(30), <1>0, <1>3, <2>1 DEF Distinct, Listed
  <2> HIDE DEF r
  <2>4. lost'[list[k]] = lost[list[k]] + r
    BY ONLY ZenonT(30), <1>2, <2>2, <2>3
  <2>5. /\ Due'[list[k]] = deadline[list[k]] - lost'[list[k]]
        /\ Due[list[k]] = deadline[list[k]] - lost[list[k]]
    BY ONLY ZenonT(30), <1>2, <2>2 DEF Due
  <2>6. deadline[list[k]] \in Int /\ lost[list[k]] \in Int
    BY ONLY ZenonT(30), <1>0, <2>2
  <2> QED BY ONLY SMT, SMTT(30), <1>5, <2>4, <2>5, <2>6
<1>7. Rep(list', tvRemain', Due', lastSync')
  <2> HIDE DEF Due
  <2>1. SeenAt \in Int /\ Cut(list, Due, Seen[list[1]], Due')
    BY SMT, SMTT(30), <1>1, <1>6
  <2>2. Rep(Tail(list), Seen, Due', SeenAt)
    BY ONLY ZenonT(30), <1>0, <1>1, <2>1, FireRep
  <2> QED BY ONLY ZenonT(30), <1>2, <2>2
<1>8. Representation'
  BY ZenonT(30), <1>3, <1>7, StillRepresented
<1>9. lost' \in [Nodes -> Int]
  <2> HIDE DEF r
  <2> QED BY ONLY SMT, SMTT(30), <1>0, <1>2, <1>5
<1> QED BY ZenonT(30), <1>0, <1>1, <1>2, <1>3, <1>4, <1>8, <1>9 DEF TimeInv

LEMMA TimeStep == TimeInv /\ [Next]_vars => TimeInv'
<1> SUFFICES ASSUME TimeInv, [Next]_vars PROVE TimeInv'
  OBVIOUS
<1>0. /\ list \in Seq(Nodes) /\ Distinct(list) /\ tvRemain \in [Nodes -> Nat]
      /\ clock \in Nat /\ lastSync \in Nat /\ lastSync <= clock /\ clock <= clock
  BY SMT, SMTT(30) DEF TimeInv
<1>1. Rep(list, tvRemain, Due, lastSync)
  BY ZenonT(30), Represented
<1>2. CASE Synchronize
  <2>1. /\ tvRemain' = synchronize /\ lastSync' = clock
        /\ UNCHANGED <<clock, list, deadline, lost>>
    BY ZenonT(30), <1>2 DEF Synchronize
  <2> HIDE DEF synchronize
  <2> QED BY ZenonT(30), <1>0, <2>1, Synced, SameDue
<1>3. CASE HandleNone
  <2>1. tvRemain' = Seen /\ lastSync' = SeenAt /\ UNCHANGED <<clock, list, deadline, lost>>
    BY ZenonT(30), <1>3 DEF HandleNone
  <2> HIDE DEF Seen, SeenAt
  <2> QED BY ZenonT(30), <1>0, <2>1, SeenFacts, SameDue
<1>4. CASE Recycle \/ Tick \/ UNCHANGED vars
  <2>1. UNCHANGED <<list, tvRemain, lastSync, deadline, lost>> /\ (clock' = clock \/ clock' = clock + 1)
    BY ZenonT(30), <1>4 DEF Recycle, Tick, vars
  <2>2. clock' \in Nat /\ lastSync <= clock'
    BY ONLY SMT, SMTT(30), <1>0, <2>1
  <2> QED BY ZenonT(30), <1>0, <1>1, <2>1, <2>2, SameDue
<1> QED BY ZenonT(30), <1>2, <1>3, <1>4, AddKeeps, DeleteKeeps, FireKeeps DEF Next

LEMMA InitTime == Init => TimeInv
<1> SUFFICES ASSUME Init PROVE TimeInv
  OBVIOUS
<1>1. /\ list = <<>> /\ tvRemain = [n \in Nodes |-> 0] /\ deadline = [n \in Nodes |-> 0]
      /\ lost = [n \in Nodes |-> 0] /\ clock = 0 /\ lastSync = 0
  BY ZenonT(30) DEF Init
<1>2. list \in Seq(Nodes) /\ DOMAIN list = {}
  BY ONLY SMT, SMTT(30), <1>1
<1>3. Distinct(list) /\ Representation
  BY ONLY ZenonT(30), <1>2 DEF Distinct, Representation
<1>4. /\ tvRemain \in [Nodes -> Nat] /\ deadline \in [Nodes -> Int] /\ lost \in [Nodes -> Int]
      /\ clock \in Nat /\ lastSync \in Nat /\ lastSync <= clock
  BY ONLY SMT, SMTT(30), <1>1
<1> QED BY ZenonT(30), <1>2, <1>3, <1>4 DEF TimeInv

\* Only handleAlarmEvent calls a handler, and only when the first timer has less
\* than the slack to go.
LEMMA FiresInTime ==
    TimeInv /\ [Next]_vars =>
        (running' \in Nodes /\ running = None => deadline[running'] - clock < Slack + lost[running'])
<1> SUFFICES ASSUME TimeInv, [Next]_vars, running' \in Nodes, running = None
             PROVE  deadline[running'] - clock < Slack + lost[running']
  OBVIOUS
<1>1. running' # running
  BY ZenonT(30), TimeListAssumption
<1>2. Fire
  BY ZenonT(30), <1>1 DEF Next, vars, addAlarmEventNode, delAlarmEventNode, Synchronize,
     HandleNone, Recycle, Tick
<1> DEFINE n == list[1]
<1>3. /\ running' = n /\ list # <<>> /\ Seen[n] < Slack /\ n \in Nodes
      /\ list \in Seq(Nodes) /\ deadline \in [Nodes -> Int] /\ lost \in [Nodes -> Int]
      /\ clock \in Nat
  BY ZenonT(30), <1>2 DEF Fire, Up, TimeInv
<1>4. Seen \in [Nodes -> Nat] /\ Rep(list, Seen, Due, SeenAt) /\ SeenAt \in Nat /\ SeenAt <= clock
  BY ZenonT(30), SeenFacts
<1> HIDE DEF Seen, SeenAt
<1>5. 1 \in 1 .. Len(list) /\ 1 \in DOMAIN list /\ 1 - 1 = 0
  BY ONLY SMT, SMTT(30), <1>3
<1>6. Upto(list, Seen, 1) = Seen[n]
  <2>1. /\ Upto(list, Seen, 0) = 0
        /\ Upto(list, Seen, 1) = Upto(list, Seen, 0) + Seen[list[1]]
    <3>1. Seen \in [Nodes -> Int]
      BY ONLY SMT, SMTT(30), <1>4
    <3> QED BY ONLY ZenonT(30), <1>3, <1>5, <3>1, UptoFacts
  <2>2. Seen[list[1]] \in Nat
    BY ONLY ZenonT(30), <1>3, <1>4
  <2> QED BY ONLY SMT, SMTT(30), <2>1, <2>2
<1>7. Upto(list, Seen, 1) = Positive(Due[n] - SeenAt)
  BY ONLY ZenonT(30), <1>4, <1>5 DEF Rep
<1>8. Due[n] = deadline[n] - lost[n] /\ deadline[n] \in Int /\ lost[n] \in Int
  BY ONLY ZenonT(30), <1>3 DEF Due
<1>9. deadline[n] - lost[n] - SeenAt < Slack
  BY ONLY SMT, SMTT(30), <1>3, <1>4, <1>6, <1>7, <1>8, TimeListAssumption DEF Positive
<1>10. deadline[n] - clock < Slack + lost[n]
  BY ONLY SMT, SMTT(30), <1>3, <1>4, <1>8, <1>9, TimeListAssumption
<1> QED BY ONLY ZenonT(30), <1>3, <1>10

\* The timer list keeps its inductive invariant.
LEMMA TimeInvHolds == Spec => []TimeInv
<1> QED BY InitTime, TimeStep, PTL DEF Spec

\* The differences that timeList.c stores add up to the deadlines, however many
\* timers there are and whatever is added, deleted, fired and synchronised.
THEOREM RepresentationHolds == Spec => []Representation
<1>1. TimeInv => Representation
  BY ZenonT(30) DEF TimeInv
<1> QED BY <1>1, TimeInvHolds, PTL

\* handleAlarmEvent calls no handler earlier than the slack of its own node and
\* of the ones that fired before it allow.
THEOREM NoEarlierThanCutHolds == Spec => NoEarlierThanCut
<1>1. TimeInv /\ [Next]_vars =>
         [running' \in Nodes /\ running = None =>
             deadline[running'] - clock < Slack + lost[running']]_vars
  BY ZenonT(30), FiresInTime
<1> QED BY <1>1, TimeInvHolds, PTL DEF Spec, NoEarlierThanCut

-----------------------------------------------------------------------------
\* The event loop uses the timer list as the list is meant to be used: the
\* handlers' calls and the turns of epAction are operations of the list, one at
\* a time, so what is proved of the list holds inside the loop.
LEMMA LoopStep == [EpNext]_allVars => [Next]_vars
<1> SUFFICES ASSUME [EpNext]_allVars PROVE [Next]_vars
  OBVIOUS
<1>1. CASE epAction
  BY ZenonT(30), <1>1 DEF epAction, AskTime, EpollTimeout, AlarmNone, AlarmFires, TimerReturns,
     Dispatch, Return, TurnDone, Next
<1>2. CASE UserCode
  BY ZenonT(30), <1>2 DEF UserCode, epCallLater, epCancelCall, epAddTransport, epCloseTransport, Next
<1>3. CASE EpollEvents \/ Signal \/ EpTick \/ UNCHANGED allVars
  BY ZenonT(30), <1>3 DEF EpollEvents, Signal, EpTick, allVars, Next
<1> QED BY ZenonT(30), <1>1, <1>2, <1>3 DEF EpNext

\* epCore.c implements the timer list's specification.
THEOREM LoopUsesList == EpSpec => Spec
<1>1. EpInit => Init
  BY ZenonT(30) DEF EpInit
<1> QED BY <1>1, LoopStep, PTL DEF EpSpec, Spec

\* The deadlines are represented, and no handler runs too early, in the loop.
THEOREM LoopKeepsTime == EpSpec => []Representation /\ NoEarlierThanCut
<1> QED BY LoopUsesList, RepresentationHolds, NoEarlierThanCutHolds, PTL

-----------------------------------------------------------------------------
\* Transports and epoll agree on who has which descriptor.
Agree ==
    /\ descriptor \in [Transports -> Fds \cup {Closed}]
    /\ epollSet \in [Fds -> Transports \cup {NoTransport}]
    /\ \A t \in Transports : descriptor[t] # Closed => epollSet[descriptor[t]] = t
    /\ \A f \in Fds : epollSet[f] # NoTransport => descriptor[epollSet[f]] = f

\* An event is about the socket its transport has, if that is still open, unless
\* the transport was opened anew.
About(d, e) == e.again \/ d[e.trans] \in {e.fd, Closed}

Pending == events \in Seq(Event) /\ \A k \in DOMAIN events : About(descriptor, events[k])

SocketInv == Agree /\ Pending

LEMMA EventFields ==
    ASSUME NEW e \in Event
    PROVE  e.trans \in Transports /\ e.fd \in Fds /\ e.again \in BOOLEAN
  BY SMT, SMTT(30) DEF Event

LEMMA MarkedEvent ==
    ASSUME NEW e \in Event
    PROVE  [e EXCEPT !.again = TRUE] \in Event /\ [e EXCEPT !.again = TRUE].again
<1>1. [e EXCEPT !.again = TRUE] \in Event
  BY ZenonT(30) DEF Event
<1>2. [e EXCEPT !.again = TRUE].again
  BY ZenonT(30) DEF Event
<1> QED BY <1>1, <1>2

\* A transport is opened: the events about it are marked.
LEMMA AddKeepsAgree ==
    ASSUME SocketInv, NEW t \in Transports, NEW f \in Fds, epAddTransport(t, f)
    PROVE  SocketInv'
<1>1. /\ descriptor[t] = Closed /\ epollSet[f] = NoTransport
      /\ descriptor' = [descriptor EXCEPT ![t] = f]
      /\ epollSet' = [epollSet EXCEPT ![f] = t]
      /\ events' = [k \in DOMAIN events |->
                       IF events[k].trans = t THEN [events[k] EXCEPT !.again = TRUE]
                                              ELSE events[k]]
  BY ZenonT(30) DEF epAddTransport
<1>2. Agree'
  BY SMT, SMTT(30), <1>1, EpAssumption DEF SocketInv, Agree
<1>3. ASSUME NEW k \in DOMAIN events
      PROVE  events'[k] \in Event /\ About(descriptor', events'[k])
  <2>1. events[k] \in Event /\ About(descriptor, events[k])
    BY SMT, SMTT(30) DEF SocketInv, Pending
  <2>2. CASE events[k].trans = t
    <3>1. events'[k] = [events[k] EXCEPT !.again = TRUE]
      BY ZenonT(30), <1>1, <2>2
    <3>2. events'[k] \in Event /\ events'[k].again
      BY ZenonT(30), <2>1, <3>1, MarkedEvent
    <3> QED BY ZenonT(30), <3>2 DEF About
  <2>3. CASE events[k].trans # t
    <3>1. events'[k] = events[k]
      BY ZenonT(30), <1>1, <2>3
    <3>2. descriptor'[events[k].trans] = descriptor[events[k].trans]
      BY SMT, SMTT(30), <1>1, <2>1, <2>3, EventFields DEF SocketInv, Agree
    <3> QED BY ZenonT(30), <2>1, <3>1, <3>2 DEF About
  <2> QED BY ZenonT(30), <2>2, <2>3
<1>4. events' \in Seq(Event) /\ DOMAIN events' = DOMAIN events
  BY SMT, SMTT(30), <1>1, <1>3 DEF SocketInv, Pending
<1> QED BY ZenonT(30), <1>2, <1>3, <1>4 DEF SocketInv, Pending

LEMMA CloseKeepsAgree ==
    ASSUME Agree, NEW t \in Transports, CloseTransport(t)
    PROVE  /\ Agree'
           /\ \A e \in Event : About(descriptor, e) => About(descriptor', e)
<1>1. /\ descriptor[t] \in Fds
      /\ descriptor' = [descriptor EXCEPT ![t] = Closed]
      /\ epollSet' = [epollSet EXCEPT ![descriptor[t]] = NoTransport]
  BY ZenonT(30) DEF CloseTransport, Agree
<1>2. Agree'
  BY SMT, SMTT(30), <1>1, EpAssumption DEF Agree
<1>3. ASSUME NEW e \in Event, About(descriptor, e) PROVE About(descriptor', e)
  BY SMT, SMTT(30), <1>1, <1>3, EventFields DEF About, Agree
<1> QED BY <1>2, <1>3

\* What epoll reports is about the socket its transport has.
LEMMA ReportKeeps ==
    ASSUME Agree, UNCHANGED descriptor, NEW b \in Batches, events' = b
    PROVE  Pending'
<1>1. PICK m \in 0 .. MaxEvents : b \in [1 .. m -> Reported]
  BY ZenonT(30) DEF Batches
<1>2. \A e \in Reported : e \in Event /\ About(descriptor', e)
  BY SMT, SMTT(30), EpAssumption, EventFields DEF Reported, Agree, About
<1>3. b \in Seq(Event) /\ DOMAIN b = 1 .. m /\ \A k \in 1 .. m : b[k] \in Reported
  BY SMT, SMTT(30), <1>1, <1>2, EpAssumption
<1> QED BY ZenonT(30), <1>2, <1>3 DEF Pending

LEMMA TailKeeps ==
    ASSUME Pending, events # <<>>, events' = Tail(events),
           \A e \in Event : About(descriptor, e) => About(descriptor', e)
    PROVE  Pending'
<1>1. /\ events' \in Seq(Event)
      /\ \A k \in DOMAIN events' : k + 1 \in DOMAIN events /\ events'[k] = events[k + 1]
  BY SMT, SMTT(30) DEF Pending
<1>2. \A k \in DOMAIN events : events[k] \in Event
  BY SMT, SMTT(30) DEF Pending
<1> QED BY ZenonT(30), <1>1, <1>2 DEF Pending

LEMMA HeadEvent ==
    ASSUME Pending, events # <<>>
    PROVE  Head(events) \in Event /\ About(descriptor, Head(events))
<1>1. 1 \in DOMAIN events /\ Head(events) = events[1] /\ events[1] \in Event
  BY SMT, SMTT(30) DEF Pending
<1> QED BY ZenonT(30), <1>1 DEF Pending

LEMMA SocketStep == SocketInv /\ [EpNext]_allVars => SocketInv'
<1> SUFFICES ASSUME SocketInv, Agree, Pending, [EpNext]_allVars PROVE SocketInv'
  BY ZenonT(30) DEF SocketInv
<1>1. ASSUME UNCHANGED <<descriptor, epollSet, events>> PROVE SocketInv'
  BY ZenonT(30), <1>1 DEF SocketInv, Agree, Pending, About
<1>2. CASE \E t \in Transports, f \in Fds : epAddTransport(t, f)
  BY ZenonT(30), <1>2, AddKeepsAgree
<1>3. ASSUME NEW t \in Transports, epCloseTransport(t) PROVE SocketInv'
  <2>1. CloseTransport(t) /\ events' = events
    BY ZenonT(30), <1>3 DEF epCloseTransport
  <2>2. \A k \in DOMAIN events : events[k] \in Event
    BY SMT, SMTT(30) DEF Pending
  <2> QED BY ZenonT(30), <2>1, <2>2, CloseKeepsAgree DEF SocketInv, Pending
<1>4. CASE Dispatch
  <2>1. events # <<>> /\ events' = Tail(events)
    BY ZenonT(30), <1>4 DEF Dispatch
  <2>2. Head(events).trans \in Transports
    BY ZenonT(30), <2>1, HeadEvent, EventFields
  <2>3. CASE CloseTransport(Head(events).trans)
    BY ZenonT(30), <2>1, <2>2, <2>3, CloseKeepsAgree, TailKeeps DEF SocketInv
  <2>4. CASE UNCHANGED <<descriptor, epollSet>>
    <3>1. Agree' /\ \A e \in Event : About(descriptor, e) => About(descriptor', e)
      BY ZenonT(30), <2>4 DEF Agree, About
    <3> QED BY ZenonT(30), <2>1, <3>1, TailKeeps DEF SocketInv
  <2> QED BY ZenonT(30), <1>4, <2>3, <2>4 DEF Dispatch
<1>5. CASE AskTime \/ EpollTimeout \/ AlarmNone \/ AlarmFires \/ TimerReturns \/ Return \/ TurnDone
  BY ZenonT(30), <1>1, <1>5 DEF AskTime, EpollTimeout, AlarmNone, AlarmFires, TimerReturns,
     Return, TurnDone
<1>6. CASE \/ \E n \in Nodes, ms \in 0 .. MaxDelay : epCallLater(n, ms)
           \/ \E n \in Nodes : epCancelCall(n)
  BY ZenonT(30), <1>1, <1>6 DEF epCallLater, epCancelCall, epVars
<1>7. CASE EpollEvents
  <2>1. events' \in Batches /\ UNCHANGED <<descriptor, epollSet>>
    BY ZenonT(30), <1>7 DEF EpollEvents
  <2>2. Agree'
    BY ZenonT(30), <2>1 DEF Agree
  <2> QED BY ZenonT(30), <2>1, <2>2, ReportKeeps DEF SocketInv
<1>8. CASE Signal \/ EpTick \/ UNCHANGED allVars
  BY ZenonT(30), <1>1, <1>8 DEF Signal, EpTick, allVars, epVars
<1> QED BY ZenonT(30), <1>2, <1>3, <1>4, <1>5, <1>6, <1>7, <1>8 DEF EpNext, epAction, UserCode

\* The loop closes a socket only on a hang-up, and then the transport's.
LEMMA ClosesReported ==
    ASSUME SocketInv, [EpNext]_allVars, NEW f \in Fds,
           loop = "events", epollSet[f] # NoTransport, epollSet'[f] = NoTransport
    PROVE  LET e == Head(events) IN e.again \/ (e.fd = f /\ e.trans = epollSet[f])
<1>1. Dispatch
  BY ZenonT(30)
  DEF EpNext, epAction, UserCode, AskTime, EpollTimeout, AlarmNone, AlarmFires, TimerReturns,
      Return, TurnDone, EpollEvents, Signal, EpTick, allVars, epVars, InUserCode, epCallLater,
      epCancelCall, epAddTransport, epCloseTransport
<1> DEFINE e == Head(events)
<1>2. CloseTransport(e.trans) /\ events # <<>>
  BY ZenonT(30), <1>1 DEF Dispatch
<1>3. e \in Event /\ About(descriptor, e)
  BY ZenonT(30), <1>2, HeadEvent DEF SocketInv
<1> HIDE DEF e
<1>4. e.trans \in Transports /\ descriptor[e.trans] \in Fds
  BY ZenonT(30), <1>2, <1>3, EventFields DEF CloseTransport, SocketInv, Agree
<1>5. f = descriptor[e.trans]
  BY SMT, SMTT(30), <1>2, <1>4 DEF CloseTransport, SocketInv, Agree
<1>6. epollSet[f] = e.trans
  BY SMT, SMTT(30), <1>4, <1>5, EpAssumption DEF SocketInv, Agree
<1>7. e.again \/ e.fd = f
  BY SMT, SMTT(30), <1>3, <1>4, <1>5, EpAssumption DEF About
<1> QED BY <1>6, <1>7 DEF e

\* A hang-up closes the socket it was reported for and no other transport's, for
\* any transports, descriptors and batches, unless its transport was opened anew.
THEOREM HangUpClosesOwnHolds == EpSpec => HangUpClosesOwn
<1>1. EpInit => SocketInv
  BY SMT, SMTT(30) DEF EpInit, SocketInv, Agree, Pending
<1>2. SocketInv /\ [EpNext]_allVars =>
         [\A f \in Fds :
             loop = "events" /\ epollSet[f] # NoTransport /\ epollSet'[f] = NoTransport
                => LET e == Head(events) IN
                   e.again \/ (e.fd = f /\ e.trans = epollSet[f])]_allVars
  BY ZenonT(30), ClosesReported
<1> QED BY <1>1, <1>2, SocketStep, PTL DEF EpSpec, HangUpClosesOwn

=============================================================================
