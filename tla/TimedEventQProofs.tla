------------------------- MODULE TimedEventQProofs -------------------------
(***************************************************************************)
(* Theorems about the timer queue and the poller's loop that uses it, for  *)
(* any sets of threads and units and any bounds.                           *)
(*                                                                         *)
(* The inductive invariant is IInv.  DeadlineOrder is not inductive by     *)
(* itself: Postpone writes tvAbsolute without the lock, which is harmless  *)
(* only because the unit it writes is on no list (Ownership).  On top of   *)
(* it come three more: NoLeak, which is inductive with it; SpacingInv, that *)
(* a unit armed again has a deadline a period after its last signal; and   *)
(* IdInv, that ids are given once and in order until they wrap around.     *)
(*                                                                         *)
(* The last part is the loop: the poller never sleeps past the first       *)
(* deadline without a wake-up to come, whatever the size of the pipe.  The *)
(* loop is a client of the queue, so that IInv holds in it too (QueueStep); *)
(* what happens to the queue while the thread is between its look and its  *)
(* sleep either leaves the first deadline where it was, or moves it back,  *)
(* or is an insertion, whose client still has its wake() to call.          *)
(***************************************************************************)
EXTENDS PollerLoop, ListLemmas, FiniteSetTheorems

\* A client inside an add has an address in newEntry.
UnitKnown == \A c \in Clients : pc[c] # "idle" => unit[c] \in Units

IInv == TypeOK /\ UnitKnown /\ Ownership /\ DeadlineOrder /\ CollectedDue

USE QueueAssumption

-----------------------------------------------------------------------------
\* The parts of the invariant that speak of the list, of the clients and of
\* the pollers.
LEMMA ListOwned ==
    ASSUME IInv
    PROVE  /\ mList \in Seq(Units)
           /\ \A i \in DOMAIN mList : mList[i] \in Units /\ owner[mList[i]] = Listed
           /\ Distinct(mList)
<1>1. mList \in Seq(Units)
  BY ZenonT(30) DEF IInv, TypeOK
<1>2. (\A i \in DOMAIN mList : owner[mList[i]] = Listed) /\ Distinct(mList)
  BY ZenonT(30) DEF IInv, Ownership
<1>3. \A i \in DOMAIN mList : mList[i] \in Units
  BY ONLY SMT, SMTT(30), <1>1
<1> QED
  BY ZenonT(30), <1>1, <1>2, <1>3

LEMMA ClientOwns ==
    ASSUME IInv, NEW c \in Clients, Holding(c)
    PROVE  unit[c] \in Units /\ owner[unit[c]] = c
  BY ZenonT(30) DEF IInv, Ownership

LEMMA PollerTypes ==
    ASSUME IInv
    PROVE  /\ owner \in [Units -> {Free, Listed} \cup Clients \cup Pollers]
           /\ batch \in [Pollers -> Seq(Units)]
           /\ entry \in [Pollers -> Units \cup {NoUnit}]
           /\ stage \in [Pollers -> {"idle", "fired", "rearm"}]
  BY ZenonT(30) DEF IInv, TypeOK

LEMMA PollerOwns ==
    ASSUME IInv, NEW q \in Pollers
    PROVE  /\ \A i \in DOMAIN batch[q] : batch[q][i] \in Units /\ owner[batch[q][i]] = q
           /\ Distinct(batch[q])
           /\ Handling(q) => /\ entry[q] \in Units /\ owner[entry[q]] = q
                             /\ \A i \in DOMAIN batch[q] : batch[q][i] # entry[q]
<1>1. batch[q] \in Seq(Units)
  BY ZenonT(30), PollerTypes
<1>2. \A i \in DOMAIN batch[q] : batch[q][i] \in Units
  BY ONLY SMT, SMTT(30), <1>1
<1> QED
  BY ZenonT(30), <1>2 DEF IInv, Ownership

\* A client keeps the unit it holds, and a poller its units, in a step that takes
\* them from none of the two.
LEMMA ClientKeeps ==
    ASSUME IInv, NEW c \in Clients, Holding(c), unit'[c] = unit[c],
           \A v \in Units : owner[v] = c => owner'[v] = c
    PROVE  unit'[c] \in Units /\ owner'[unit'[c]] = c
  BY ZenonT(30), ClientOwns

LEMMA PollerKeeps ==
    ASSUME IInv, NEW q \in Pollers, batch'[q] = batch[q], entry'[q] = entry[q],
           stage'[q] = stage[q], \A v \in Units : owner[v] = q => owner'[v] = q
    PROVE  /\ \A i \in DOMAIN batch'[q] : owner'[batch'[q][i]] = q
           /\ Distinct(batch'[q])
           /\ Handling(q)' => /\ entry'[q] \in Units
                              /\ owner'[entry'[q]] = q
                              /\ \A i \in DOMAIN batch'[q] : batch'[q][i] # entry'[q]
<1>0. \A i \in DOMAIN batch[q] : owner'[batch[q][i]] = q
  <2>1. \A i \in DOMAIN batch[q] : batch[q][i] \in Units /\ owner[batch[q][i]] = q
    BY ZenonT(30), PollerOwns
  <2> QED
    BY ZenonT(30), <2>1
<1>1. \A i \in DOMAIN batch'[q] : owner'[batch'[q][i]] = q
  BY ZenonT(30), <1>0
<1>2. Distinct(batch'[q])
  BY ZenonT(30), PollerOwns
<1>3. Handling(q)' => Handling(q)
  BY ZenonT(30) DEF Handling
<1>4. ASSUME Handling(q)
      PROVE  /\ entry'[q] \in Units /\ owner'[entry'[q]] = q
             /\ \A i \in DOMAIN batch'[q] : batch'[q][i] # entry'[q]
  <2>1. /\ entry[q] \in Units /\ owner[entry[q]] = q
        /\ \A i \in DOMAIN batch[q] : batch[q][i] # entry[q]
    BY ZenonT(30), <1>4, PollerOwns
  <2>2. owner'[entry[q]] = q
    BY ZenonT(30), <2>1
  <2> QED
    BY ONLY ZenonT(30), <2>1, <2>2, batch'[q] = batch[q], entry'[q] = entry[q]
<1> QED
  BY ONLY ZenonT(30), <1>1, <1>2, <1>3, <1>4

\* What the list and the local lists hold stays as it is in a step that changes
\* no unit's place, deadline or owner.
LEMMA QueueFrame ==
    ASSUME IInv, mList' = mList, owner' = owner, tvAbsolute' = tvAbsolute, clock' = clock,
           batch' = batch, entry' = entry, stage' = stage,
           \A c \in Clients : Holding(c)' => Holding(c) /\ unit'[c] = unit[c]
    PROVE  Ownership' /\ DeadlineOrder' /\ CollectedDue'
<1>1. ASSUME NEW q \in Pollers
      PROVE  /\ \A i \in DOMAIN batch'[q] : owner'[batch'[q][i]] = q
             /\ Distinct(batch'[q])
             /\ Handling(q)' => /\ entry'[q] \in Units
                                /\ owner'[entry'[q]] = q
                                /\ \A i \in DOMAIN batch'[q] : batch'[q][i] # entry'[q]
  BY ZenonT(30), PollerKeeps
<1>2. ASSUME NEW c \in Clients, Holding(c)' PROVE unit'[c] \in Units /\ owner'[unit'[c]] = c
  BY ZenonT(30), <1>2, ClientKeeps
<1>3. (\A i \in DOMAIN mList' : owner'[mList'[i]] = Listed) /\ Distinct(mList')
  BY ZenonT(30), ListOwned
<1>4. Ownership'
  BY ZenonT(30), <1>1, <1>2, <1>3 DEF Ownership
<1>5. DeadlineOrder' /\ CollectedDue'
  BY ZenonT(30) DEF IInv, DeadlineOrder, CollectedDue
<1> QED
  BY ZenonT(30), <1>4, <1>5

\* RemoveAtFacts for lists of units.
LEMMA UnitRemove ==
    \A s \in Seq(Units) : \A i \in 1 .. Len(s) :
        /\ RemoveAt(s, i) \in Seq(Units)
        /\ Len(RemoveAt(s, i)) = Len(s) - 1
        /\ \A k \in 1 .. i - 1 : RemoveAt(s, i)[k] = s[k]
        /\ \A k \in i .. Len(s) - 1 : RemoveAt(s, i)[k] = s[k + 1]
  BY ONLY RemoveAtFacts, ZenonT(30)

LEMMA UnitCut ==
    \A s \in Seq(Units) : \A n \in 0 .. Len(s) :
        /\ SubSeq(s, 1, n) \in Seq(Units)
        /\ Len(SubSeq(s, 1, n)) = n
        /\ \A k \in 1 .. n : SubSeq(s, 1, n)[k] = s[k]
        /\ SubSeq(s, n + 1, Len(s)) \in Seq(Units)
        /\ Len(SubSeq(s, n + 1, Len(s))) = Len(s) - n
        /\ \A k \in 1 .. Len(s) - n : SubSeq(s, n + 1, Len(s))[k] = s[n + k]
  BY ONLY CutFacts

\* The critical section of addEventInternal puts u, and only u, into a list
\* that did not have it and keeps the order of the deadlines.
LEMMA AddEventFacts ==
    ASSUME IInv, NEW u \in Units, owner[u] # Listed,
           addEventInternal(u), tvAbsolute' = tvAbsolute
    PROVE  /\ mList' \in Seq(Units)
           /\ owner' = [owner EXCEPT ![u] = Listed]
           /\ \A i \in DOMAIN mList' :
                 mList'[i] = u \/ \E j \in DOMAIN mList : mList'[i] = mList[j]
           /\ Distinct(mList')
           /\ DeadlineOrder'
<1> PICK i \in 1 .. Len(mList) + 1 :
        InsertsAt(tvAbsolute[u], i) /\ mList' = InsertAt(mList, i, u)
  BY DEF addEventInternal
<1>0. mList \in Seq(Units) /\ tvAbsolute \in [Units -> Nat]
  BY DEF IInv, TypeOK
<1>1. /\ mList' \in Seq(Units) /\ Len(mList') = Len(mList) + 1
      /\ \A k \in 1 .. i - 1 : mList'[k] = mList[k]
      /\ mList'[i] = u
      /\ \A k \in i + 1 .. Len(mList) + 1 : mList'[k] = mList[k - 1]
  <2>1. InsertedAt(Units, mList, i, u, mList')
    BY ZenonT(30), <1>0, InsertAtInserts
  <2> QED
    BY ONLY ZenonT(30), <2>1 DEF InsertedAt
<1>2. DOMAIN mList = 1 .. Len(mList) /\ DOMAIN mList' = 1 .. Len(mList) + 1
  BY SMT, SMTT(30), <1>0, <1>1
<1>3. ASSUME NEW k \in 1 .. Len(mList) + 1
      PROVE  \/ k < i /\ k \in DOMAIN mList /\ mList'[k] = mList[k]
             \/ k = i /\ mList'[k] = u
             \/ k > i /\ k - 1 \in DOMAIN mList /\ mList'[k] = mList[k - 1]
  BY ONLY SMT, SMTT(30), <1>1, <1>2
<1>4. \A k \in DOMAIN mList : mList[k] \in Units /\ mList[k] # u
  BY SMT, SMTT(30), <1>0, <1>2 DEF IInv, Ownership
<1>5. \A k \in DOMAIN mList' :
         mList'[k] = u \/ \E j \in DOMAIN mList : mList'[k] = mList[j]
  BY <1>2, <1>3, ZenonT(30)
<1>6. Distinct(mList')
  <2> SUFFICES ASSUME NEW a \in DOMAIN mList', NEW b \in DOMAIN mList',
                      mList'[a] = mList'[b]
               PROVE  a = b
    BY DEF Distinct
  <2>1. \A j, k \in DOMAIN mList : mList[j] = mList[k] => j = k
    BY DEF IInv, Ownership, Distinct
  <2>2. CASE a = i \/ b = i
    <3>1. \A k \in DOMAIN mList' : k = i \/ \E j \in DOMAIN mList : mList'[k] = mList[j]
      BY ZenonT(30), <1>2, <1>3
    <3>2. \A k \in DOMAIN mList' : mList'[k] = u => k = i
      BY ONLY ZenonT(30), <1>4, <3>1
    <3> QED
      BY ONLY ZenonT(30), <1>1, <2>2, <3>2, a \in DOMAIN mList', b \in DOMAIN mList', mList'[a] = mList'[b]
  <2>3. CASE a # i /\ b # i
    <3> DEFINE pos(k) == IF k < i THEN k ELSE k - 1
    <3>1. \A k \in DOMAIN mList' : k # i =>
             pos(k) \in DOMAIN mList /\ mList'[k] = mList[pos(k)]
      BY ONLY SMT, SMTT(30), <1>2, <1>3
    <3>2. pos(a) = pos(b)
      <4> HIDE DEF pos
      <4> QED
        BY ONLY ZenonT(30), <2>1, <2>3, <3>1,
                a \in DOMAIN mList', b \in DOMAIN mList', mList'[a] = mList'[b]
    <3> QED
      BY ONLY SMT, SMTT(30), <1>2, <2>3, <3>2
  <2> QED
    BY <2>2, <2>3
<1>7. DeadlineOrder'
  <2> SUFFICES ASSUME NEW a \in 1 .. Len(mList) + 1, NEW b \in 1 .. Len(mList) + 1,
                      a < b
               PROVE  tvAbsolute[mList'[a]] <= tvAbsolute[mList'[b]]
    BY <1>2 DEF DeadlineOrder
  <2>1. \A j, k \in DOMAIN mList :
           j < k => tvAbsolute[mList[j]] <= tvAbsolute[mList[k]]
    BY DEF IInv, DeadlineOrder
  <2>2. \A k \in 1 .. i - 1 : tvAbsolute[mList[k]] <= tvAbsolute[u]
    BY DEF InsertsAt
  <2>3. i <= Len(mList) => tvAbsolute[u] < tvAbsolute[mList[i]]
    BY DEF InsertsAt
  <2>4. \A k \in DOMAIN mList : tvAbsolute[mList[k]] \in Nat
    BY ZenonT(30), <1>0, <1>4
  <2>5. tvAbsolute[u] \in Nat
    BY <1>0
  <2>6. \A k \in DOMAIN mList : k >= i => tvAbsolute[u] < tvAbsolute[mList[k]]
    <3> SUFFICES ASSUME NEW k \in DOMAIN mList, k >= i
                 PROVE  tvAbsolute[u] < tvAbsolute[mList[k]]
      OBVIOUS
    <3>1. i \in Int /\ k \in Int /\ i <= Len(mList) /\ i \in DOMAIN mList
      BY SMT, SMTT(30), <1>0, <1>2
    <3>2. k = i \/ i < k
      BY ONLY SMT, SMTT(30), <3>1, k >= i
    <3>3. tvAbsolute[mList[i]] <= tvAbsolute[mList[k]] \/ k = i
      BY ZenonT(30), <2>1, <3>1, <3>2
    <3>4. /\ tvAbsolute[u] < tvAbsolute[mList[i]] /\ tvAbsolute[u] \in Nat
          /\ tvAbsolute[mList[i]] \in Nat /\ tvAbsolute[mList[k]] \in Nat
      BY ZenonT(30), <2>3, <2>4, <2>5, <3>1
    <3> QED
      BY ONLY SMT, SMTT(30), <3>3, <3>4
  <2>7. CASE b < i
    BY SMT, SMTT(30), <1>3, <2>1, <2>7
  <2>8. CASE b = i
    BY SMT, SMTT(30), <1>3, <2>2, <2>8
  <2>9. CASE b > i
    <3>1. b - 1 \in DOMAIN mList /\ mList'[b] = mList[b - 1] /\ b - 1 >= i
      BY ONLY SMT, SMTT(30), <1>3, <2>9
    <3>2. CASE a < i
      BY ONLY SMT, SMTT(30), <1>3, <2>1, <2>9, <3>1, <3>2
    <3>3. CASE a = i
      BY ONLY SMT, SMTT(30), <1>3, <2>4, <2>5, <2>6, <3>1, <3>3
    <3>4. CASE a > i
      <4>1. a - 1 \in DOMAIN mList /\ mList'[a] = mList[a - 1] /\ a - 1 < b - 1
        BY SMT, SMTT(30), <1>3, <3>4
      <4> QED
        BY ZenonT(30), <2>1, <3>1, <4>1
    <3> QED
      BY ONLY SMT, SMTT(30), <3>2, <3>3, <3>4
  <2> QED
    BY ONLY SMT, SMTT(30), <2>7, <2>8, <2>9
<1> QED
  BY ZenonT(30), <1>1, <1>5, <1>6, <1>7 DEF addEventInternal
-----------------------------------------------------------------------------
\* One lemma per step of the queue: it preserves the inductive invariant.

LEMMA NewUnitStep ==
    ASSUME IInv, NEW c \in Clients, NEW u \in Units, NEW t \in Nat,
           NEW k \in Kinds, NEW ms \in Delays,
           NEW label \in {"insert", "insertNumbered"},
           NewUnit(c, u, t, k, ms, label)
    PROVE  IInv'
<1> USE DEF NewUnit, pollerVars
<1>1. TypeOK'
  BY SMT, SMTT(30) DEF IInv, TypeOK
<1>2. UnitKnown'
  BY ZenonT(30) DEF IInv, TypeOK, UnitKnown
<1>3. /\ owner[u] = Free /\ owner' = [owner EXCEPT ![u] = c]
      /\ owner' \in [Units -> {Free, Listed} \cup Clients \cup Pollers]
  BY ZenonT(30), <1>1 DEF TypeOK
<1>4. \A i \in DOMAIN mList : mList[i] \in Units /\ mList[i] # u
  BY ZenonT(30), <1>3, ListOwned
<1>5. \A p \in Pollers : \A i \in DOMAIN batch[p] : batch[p][i] \in Units /\ batch[p][i] # u
  <2> SUFFICES ASSUME NEW p \in Pollers, NEW i \in DOMAIN batch[p]
               PROVE  batch[p][i] \in Units /\ batch[p][i] # u
    BY ZenonT(30)
  <2>1. batch[p][i] \in Units /\ owner[batch[p][i]] = p
    BY ZenonT(30), PollerOwns
  <2>2. p # Free
    BY ZenonT(30)
  <2> QED
    BY ZenonT(30), <1>3, <2>1, <2>2
<1>6. Ownership'
  <2>0. /\ mList' = mList /\ batch' = batch /\ entry' = entry /\ stage' = stage
        /\ unit' = [unit EXCEPT ![c] = u] /\ pc' = [pc EXCEPT ![c] = label]
    BY ZenonT(30)
  <2>1. owner'[u] = c /\ \A v \in Units : v # u => owner'[v] = owner[v]
    BY ZenonT(30), <1>3, PollerTypes
  <2>2. (\A i \in DOMAIN mList' : owner'[mList'[i]] = Listed) /\ Distinct(mList')
    <3>1. (\A i \in DOMAIN mList : owner[mList[i]] = Listed) /\ Distinct(mList)
      BY ZenonT(30), ListOwned
    <3>2. \A i \in DOMAIN mList : owner'[mList[i]] = Listed
      BY ONLY ZenonT(30), <1>4, <2>1, <3>1
    <3> QED
      BY ONLY ZenonT(30), <2>0, <3>1, <3>2
  <2>3. \A v \in Units : owner[v] \in Clients \cup Pollers => owner'[v] = owner[v]
    BY ZenonT(30), <1>3, <2>1
  <2> HIDE DEF NewUnit, pollerVars
  <2>4. ASSUME NEW q \in Pollers
        PROVE  /\ \A i \in DOMAIN batch'[q] : owner'[batch'[q][i]] = q
               /\ Distinct(batch'[q])
               /\ Handling(q)' => /\ entry'[q] \in Units
                                  /\ owner'[entry'[q]] = q
                                  /\ \A i \in DOMAIN batch'[q] : batch'[q][i] # entry'[q]
    <3>1. \A v \in Units : owner[v] = q => owner'[v] = q
      BY ONLY ZenonT(30), <2>3, q \in Pollers
    <3>2. batch'[q] = batch[q] /\ entry'[q] = entry[q] /\ stage'[q] = stage[q]
      BY ONLY ZenonT(30), <2>0
    <3> QED
      BY ZenonT(30), <3>1, <3>2, PollerKeeps
  <2>5. ASSUME NEW d \in Clients, Holding(d)' PROVE unit'[d] \in Units /\ owner'[unit'[d]] = d
    <3>1. unit \in [Clients -> Units \cup {NoUnit}] /\ DOMAIN pc = Clients
      BY ZenonT(30) DEF IInv, TypeOK
    <3>2. CASE d = c
      BY ZenonT(30), <2>0, <2>1, <3>1, <3>2
    <3>3. CASE d # c
      <4>1. Holding(d) /\ unit'[d] = unit[d]
        BY ZenonT(30), <2>0, <2>5, <3>1, <3>3 DEF Holding
      <4> QED
        BY ZenonT(30), <2>3, <4>1, ClientKeeps
    <3> QED
      BY ZenonT(30), <3>2, <3>3
  <2> QED
    BY ZenonT(30), <2>2, <2>4, <2>5 DEF Ownership
<1>7. DeadlineOrder'
  BY ZenonT(30), <1>4 DEF IInv, TypeOK, DeadlineOrder
<1>8. CollectedDue'
  BY ZenonT(30), <1>5 DEF IInv, TypeOK, CollectedDue
<1> QED
  BY ZenonT(30), <1>1, <1>2, <1>6, <1>7, <1>8 DEF IInv

LEMMA NumberStep ==
    ASSUME IInv, NEW c \in Clients, Number(c)
    PROVE  IInv'
<1> USE DEF Number, pollerVars, fields
<1>0. NextToken \in Tokens
  BY SMT, SMTT(30) DEF NextToken, Tokens, IInv, TypeOK
<1>1. TypeOK'
  BY ZenonT(30), <1>0 DEF IInv, TypeOK
<1>2. \A d \in Clients : pc'[d] \in {"idle", "insert", "insertNumbered"} => pc'[d] = pc[d] /\ d # c
  BY ZenonT(30) DEF IInv, TypeOK
<1>3. UnitKnown'
  BY ZenonT(30) DEF IInv, TypeOK, UnitKnown
<1>4. Ownership' /\ DeadlineOrder' /\ CollectedDue'
  BY ZenonT(30), <1>2, QueueFrame DEF Holding
<1> QED
  BY ZenonT(30), <1>1, <1>3, <1>4 DEF IInv

LEMMA ReturnStep ==
    ASSUME IInv, NEW c \in Clients, Return(c)
    PROVE  IInv'
<1> USE DEF Return, pollerVars, fields, history
<1>0. idToken[unit[c]] \in Tokens
  BY ZenonT(30) DEF IInv, TypeOK, UnitKnown
<1>1. TypeOK'
  BY ZenonT(30), <1>0 DEF IInv, TypeOK
<1>2. \A d \in Clients : pc'[d] # "idle" => pc'[d] = pc[d] /\ unit'[d] = unit[d]
  BY ZenonT(30) DEF IInv, TypeOK
<1>3. UnitKnown'
  BY ZenonT(30), <1>2 DEF IInv, UnitKnown
<1>4. Ownership' /\ DeadlineOrder' /\ CollectedDue'
  BY ZenonT(30), <1>2, QueueFrame DEF Holding
<1> QED
  BY ZenonT(30), <1>1, <1>3, <1>4 DEF IInv

LEMMA InsertStep ==
    ASSUME IInv, NEW c \in Clients, Insert(c) \/ InsertNumbered(c)
    PROVE  IInv'
<1>0. /\ unit[c] \in Units /\ owner[unit[c]] = c /\ owner[unit[c]] # Listed
      /\ addEventInternal(unit[c]) /\ tvAbsolute' = tvAbsolute
  <2>1. Holding(c) /\ addEventInternal(unit[c]) /\ tvAbsolute' = tvAbsolute
    BY ZenonT(30) DEF Holding, Insert, InsertNumbered, fields
  <2> QED
    BY ZenonT(30), <2>1, ClientOwns
<1>1. /\ mList' \in Seq(Units)
      /\ owner' = [owner EXCEPT ![unit[c]] = Listed]
      /\ \A i \in DOMAIN mList' : \/ mList'[i] = unit[c]
                                  \/ \E j \in DOMAIN mList : mList'[i] = mList[j]
      /\ Distinct(mList')
      /\ DeadlineOrder'
  BY ZenonT(30), <1>0, AddEventFacts
<1>2. NextToken \in Tokens
  BY SMT, SMTT(30) DEF NextToken, Tokens, IInv, TypeOK
<1>3. TypeOK'
  <2>1. owner' \in [Units -> {Free, Listed} \cup Clients \cup Pollers]
    BY ZenonT(30), <1>0, <1>1 DEF IInv, TypeOK
  <2>2. CASE Insert(c)
    BY ZenonT(30), <1>1, <2>1, <2>2 DEF IInv, TypeOK, Insert, fields, pollerVars, history
  <2>3. CASE InsertNumbered(c)
    BY ZenonT(30), <1>1, <1>2, <2>1, <2>3 DEF IInv, TypeOK, InsertNumbered, fields, pollerVars
  <2> QED
    BY ZenonT(30), <2>2, <2>3
<1>4. UnitKnown'
  BY ZenonT(30) DEF IInv, UnitKnown, TypeOK, Insert, InsertNumbered
<1>5. Ownership'
  <2>1. \A i \in DOMAIN mList' : owner'[mList'[i]] = Listed
    <3>1. \A j \in DOMAIN mList : mList[j] # unit[c]
      BY ZenonT(30), <1>0, ListOwned
    <3>2. owner'[unit[c]] = Listed /\ \A v \in Units : owner[v] = Listed => owner'[v] = Listed
      BY ZenonT(30), <1>0, <1>1, PollerTypes
    <3> QED
      BY ZenonT(30), <1>1, <3>2, ListOwned
  <2>2. \A p \in Pollers : \A i \in DOMAIN batch[p] :
           batch[p][i] \in Units /\ batch[p][i] # unit[c]
    BY SMT, SMTT(30), <1>0, PollerOwns
  <2>3. ASSUME NEW p \in Pollers
        PROVE  /\ \A i \in DOMAIN batch'[p] : owner'[batch'[p][i]] = p
               /\ Distinct(batch'[p])
               /\ Handling(p)' => /\ entry'[p] \in Units
                                  /\ owner'[entry'[p]] = p
                                  /\ \A i \in DOMAIN batch'[p] : batch'[p][i] # entry'[p]
    <3>1. batch' = batch /\ entry' = entry /\ stage' = stage
      BY ZenonT(30) DEF Insert, InsertNumbered, pollerVars
    <3>2. \A v \in Units : owner[v] = p => owner'[v] = p
      BY ZenonT(30), <1>0, <1>1, PollerTypes
    <3> QED
      BY ZenonT(30), <3>1, <3>2, PollerOwns DEF Handling
  <2>4. ASSUME NEW d \in Clients, Holding(d)'
        PROVE  unit'[d] \in Units /\ owner'[unit'[d]] = d
    <3>1. pc \in [Clients -> {"idle", "insert", "number", "insertNumbered", "return"}]
      BY ZenonT(30) DEF IInv, TypeOK
    <3>2. d # c /\ Holding(d) /\ unit'[d] = unit[d]
      BY ZenonT(30), <2>4, <3>1 DEF Holding, Insert, InsertNumbered
    <3>3. \A v \in Units : owner[v] = d => owner'[v] = d
      BY ZenonT(30), <1>0, <1>1, <3>2, PollerTypes
    <3> QED
      BY ZenonT(30), <3>2, <3>3, ClientKeeps
  <2> QED
    BY ZenonT(30), <1>1, <2>1, <2>3, <2>4 DEF Ownership
<1>6. CollectedDue'
  <2>1. batch' = batch /\ clock' = clock /\ tvAbsolute' = tvAbsolute
    BY ZenonT(30), <1>0 DEF Insert, InsertNumbered, pollerVars
  <2> QED
    BY ZenonT(30), <2>1 DEF IInv, CollectedDue
<1> QED
  BY ZenonT(30), <1>1, <1>3, <1>4, <1>5, <1>6 DEF IInv

LEMMA DelStep ==
    ASSUME IInv, NEW c \in Clients, NEW token \in Tokens, delTimedEvent(c, token)
    PROVE  IInv'
<1> USE DEF delTimedEvent, pollerVars, fields
<1>0. mList \in Seq(Units) /\ DOMAIN mList = 1 .. Len(mList)
  <2>1. mList \in Seq(Units)
    BY ZenonT(30), ListOwned
  <2> QED BY ONLY SMT, SMTT(30), <2>1
<1>3. discarded' \subseteq Tokens
  <2>1. discarded \subseteq Tokens
    BY ZenonT(30) DEF IInv, TypeOK
  <2>2. discarded' = discarded \/ discarded' = discarded \cup {token}
    BY ZenonT(30) DEF Discard
  <2> HIDE DEF Tokens
  <2> QED BY ONLY <2>1, <2>2, token \in Tokens, ZenonT(30)
<1>1. CASE mList' = mList /\ owner' = owner
  <2>1. TypeOK' /\ UnitKnown'
    BY ZenonT(30), <1>1, <1>3 DEF IInv, TypeOK, UnitKnown
  <2>2. Ownership' /\ DeadlineOrder' /\ CollectedDue'
    BY ZenonT(30), <1>1, QueueFrame DEF Holding
  <2> QED
    BY ZenonT(30), <2>1, <2>2 DEF IInv
<1>2. ASSUME NEW i \in 1 .. Len(mList),
             owner' = [owner EXCEPT ![mList[i]] = Free],
             mList' = RemoveAt(mList, i)
      PROVE  IInv'
  <2> DEFINE L == RemoveAt(mList, i)
  <2>1. /\ L \in Seq(Units) /\ Len(L) = Len(mList) - 1
        /\ \A k \in 1 .. i - 1 : L[k] = mList[k]
        /\ \A k \in i .. Len(mList) - 1 : L[k] = mList[k + 1]
    BY ONLY <1>0, i \in 1 .. Len(mList), UnitRemove, ZenonT(30)
  <2> DEFINE pos(k) == IF k < i THEN k ELSE k + 1
  <2>2. /\ mList' \in Seq(Units)
        /\ DOMAIN mList' = 1 .. Len(mList) - 1
        /\ \A k \in DOMAIN mList' : /\ pos(k) \in DOMAIN mList /\ pos(k) # i
                                   /\ mList'[k] = mList[pos(k)]
    BY ONLY SMT, SMTT(30), <1>0, <1>2, <2>1, i \in 1 .. Len(mList)
  <2>3. mList[i] \in Units /\ owner[mList[i]] = Listed
    BY ZenonT(30), <1>0, ListOwned
  <2>4. TypeOK'
    BY <1>2, <1>3, <2>2, ZenonT(30) DEF IInv, TypeOK
  <2>5. UnitKnown'
    BY ZenonT(30) DEF IInv, UnitKnown
  <2>6. Ownership'
    <3>1. ASSUME NEW k \in DOMAIN mList'
          PROVE  owner'[mList'[k]] = Listed
      <4>0. /\ \A a, b \in DOMAIN mList : mList[a] = mList[b] => a = b
            /\ \A a \in DOMAIN mList : owner[mList[a]] = Listed
        BY ZenonT(30), ListOwned DEF Distinct
      <4>1. mList[pos(k)] # mList[i] /\ owner[mList[pos(k)]] = Listed
        BY ZenonT(30), <1>0, <2>2, <4>0
      <4>2. mList[pos(k)] \in Units
        BY ONLY SMT, SMTT(30), <1>0, <2>2
      <4> HIDE DEF pos
      <4> QED
        BY ZenonT(30), <1>2, <2>2, <4>1, <4>2 DEF IInv, TypeOK
    <3>2. Distinct(mList')
      <4>1. \A a, b \in DOMAIN mList : mList[a] = mList[b] => a = b
        BY ZenonT(30), ListOwned DEF Distinct
      <4>2. \A a, b \in DOMAIN mList' : pos(a) = pos(b) => a = b
        BY ONLY SMT, SMTT(30), <1>0, <2>2, i \in 1 .. Len(mList)
      <4> HIDE DEF pos
      <4> QED
        BY ONLY SMT, SMTT(30), <2>2, <4>1, <4>2 DEF Distinct
    <3>3. \A u \in Units : owner[u] \in Clients \cup Pollers => owner'[u] = owner[u]
      BY ZenonT(30), <1>2, <2>3 DEF IInv, TypeOK
    <3>4. ASSUME NEW p \in Pollers
          PROVE  /\ \A k \in DOMAIN batch'[p] : owner'[batch'[p][k]] = p
                 /\ Distinct(batch'[p])
                 /\ Handling(p)' => /\ entry'[p] \in Units
                                    /\ owner'[entry'[p]] = p
                                    /\ \A k \in DOMAIN batch'[p] : batch'[p][k] # entry'[p]
      <4>1. batch' = batch /\ entry' = entry /\ stage' = stage
        BY ZenonT(30)
      <4> QED
        BY SMT, SMTT(30), <3>3, <4>1, PollerOwns DEF Handling, Distinct
    <3>5. ASSUME NEW d \in Clients, Holding(d)'
          PROVE  unit'[d] \in Units /\ owner'[unit'[d]] = d
      <4>1. Holding(d) /\ unit'[d] = unit[d]
        BY ZenonT(30), <3>5 DEF Holding
      <4> QED
        BY ZenonT(30), <3>3, <4>1, ClientKeeps
    <3> QED
      BY ZenonT(30), <3>1, <3>2, <3>4, <3>5 DEF Ownership
  <2>7. DeadlineOrder'
    <3>1. ASSUME NEW a \in DOMAIN mList', NEW b \in DOMAIN mList', a < b
          PROVE  pos(a) < pos(b)
      BY ONLY SMT, SMTT(30), <2>2, <3>1
    <3> QED
      <4> HIDE DEF pos
      <4>1. \A a, b \in DOMAIN mList : a < b => tvAbsolute[mList[a]] <= tvAbsolute[mList[b]]
        BY ZenonT(30) DEF IInv, DeadlineOrder
      <4> QED
        <5>1. ASSUME NEW a \in DOMAIN mList', NEW b \in DOMAIN mList', a < b
              PROVE  tvAbsolute[mList[pos(a)]] <= tvAbsolute[mList[pos(b)]]
          BY ZenonT(30), <2>2, <3>1, <4>1, <5>1
        <5> QED
          BY ZenonT(30), <2>2, <5>1 DEF DeadlineOrder
  <2>8. CollectedDue'
    BY ZenonT(30) DEF IInv, CollectedDue
  <2> QED
    BY <2>4, <2>5, <2>6, <2>7, <2>8, ZenonT(30) DEF IInv
<1> QED
  BY ZenonT(30), <1>1, <1>2

LEMMA CollectStep ==
    ASSUME IInv, NEW p \in Pollers, Collect(p)
    PROVE  IInv'
<1> PICK n \in 1 .. Len(mList) :
        /\ DuePrefix(n)
        /\ batch' = [batch EXCEPT ![p] = SubSeq(mList, 1, n)]
        /\ mList' = SubSeq(mList, n + 1, Len(mList))
        /\ owner' = [u \in Units |->
                        IF \E k \in 1 .. n : mList[k] = u THEN p ELSE owner[u]]
  BY ZenonT(30) DEF Collect
<1>0. /\ mList \in Seq(Units) /\ DOMAIN mList = 1 .. Len(mList) /\ n \in 0 .. Len(mList)
      /\ batch \in [Pollers -> Seq(Units)]
  BY SMT, SMTT(30), ListOwned, PollerTypes
<1> DEFINE A == SubSeq(mList, 1, n)
           B == SubSeq(mList, n + 1, Len(mList))
<1>1. /\ A \in Seq(Units) /\ Len(A) = n /\ \A k \in 1 .. n : A[k] = mList[k]
      /\ B \in Seq(Units) /\ Len(B) = Len(mList) - n
      /\ \A k \in 1 .. Len(mList) - n : B[k] = mList[n + k]
  BY ONLY ZenonT(30), <1>0, UnitCut
<1>2. /\ mList' \in Seq(Units) /\ DOMAIN mList' = 1 .. Len(mList) - n
      /\ \A k \in DOMAIN mList' : mList'[k] = mList[n + k] /\ n + k \in DOMAIN mList
  <2>1. mList' = B
    BY ZenonT(30)
  <2> HIDE DEF A, B
  <2>2. DOMAIN B = 1 .. Len(mList) - n /\ \A k \in DOMAIN B : n + k \in DOMAIN mList
    BY ONLY SMT, SMTT(30), <1>0, <1>1
  <2> QED
    BY ZenonT(30), <1>1, <2>1, <2>2
<1>3. /\ batch'[p] \in Seq(Units) /\ DOMAIN batch'[p] = 1 .. n
      /\ \A k \in 1 .. n : batch'[p][k] = mList[k] /\ k \in DOMAIN mList
      /\ \A q \in Pollers : q # p => batch'[q] = batch[q]
  <2>1. batch'[p] = A /\ \A q \in Pollers : q # p => batch'[q] = batch[q]
    BY ZenonT(30), <1>0
  <2> HIDE DEF A, B
  <2>2. \A k \in 1 .. n : k \in DOMAIN mList
    BY ONLY SMT, SMTT(30), <1>0
  <2> QED
    BY ONLY SMT, SMTT(30), <1>1, <2>1, <2>2
<1>4. \A j, k \in DOMAIN mList : mList[j] = mList[k] => j = k
  BY DEF IInv, Ownership, Distinct
<1>5. TypeOK'
  <2>1. batch' \in [Pollers -> Seq(Units)]
    BY <1>0, <1>1, ZenonT(30)
  <2>2. owner' \in [Units -> {Free, Listed} \cup Clients \cup Pollers]
    BY ZenonT(30) DEF IInv, TypeOK
  <2> QED
    BY <1>2, <2>1, <2>2, ZenonT(30) DEF IInv, TypeOK, Collect, clientVars, fields, history
<1>6. UnitKnown'
  BY ZenonT(30) DEF IInv, UnitKnown, Collect, clientVars
<1>u. /\ entry' = entry /\ stage' = stage /\ unit' = unit
      /\ pc' = pc /\ tvAbsolute' = tvAbsolute /\ clock' = clock
  BY ZenonT(30) DEF Collect, clientVars, fields
<1>v. \A u \in Units : owner'[u] = IF \E k \in 1 .. n : mList[k] = u THEN p ELSE owner[u]
  OBVIOUS
<1>7. Ownership'
  <2>0. \A k \in DOMAIN mList : mList[k] \in Units /\ owner[mList[k]] = Listed
    BY ZenonT(30), ListOwned
  <2>1. ASSUME NEW k \in DOMAIN mList'
        PROVE  owner'[mList'[k]] = Listed
    <3>1. \A j \in 1 .. n : mList[j] # mList[n + k]
      <4>1. \A j \in 1 .. n : j \in DOMAIN mList /\ j # n + k
        BY ONLY SMT, SMTT(30), <1>0, <1>2
      <4> QED
        BY ZenonT(30), <1>2, <1>4, <4>1
    <3> QED
      BY SMT, SMTT(30), <1>2, <1>v, <2>0, <3>1
  <2>2. Distinct(mList')
    <3> SUFFICES ASSUME NEW j \in DOMAIN mList', NEW k \in DOMAIN mList', mList'[j] = mList'[k]
                 PROVE  j = k
      BY ZenonT(30) DEF Distinct
    <3>1. n + j = n + k /\ j \in Nat /\ k \in Nat /\ n \in Nat
      <4>0. /\ mList'[j] = mList[n + j] /\ n + j \in DOMAIN mList
            /\ mList'[k] = mList[n + k] /\ n + k \in DOMAIN mList
        BY ONLY ZenonT(30), <1>2, j \in DOMAIN mList', k \in DOMAIN mList'
      <4>1. n + j = n + k
        BY ONLY ZenonT(30), <1>4, <4>0, mList'[j] = mList'[k]
      <4> QED
        BY ONLY SMT, SMTT(30), <1>0, <1>2, <4>1, j \in DOMAIN mList', k \in DOMAIN mList'
    <3> QED
      BY SMT, SMTT(30), <3>1
  <2>3. \A u \in Units : owner[u] # Listed => owner'[u] = owner[u]
    <3>1. 1 .. n \subseteq DOMAIN mList
      BY SMT, SMTT(30), <1>0
    <3> QED
      BY ONLY ZenonT(30), <1>v, <2>0, <3>1
  <2>4. ASSUME NEW q \in Pollers
        PROVE  /\ \A k \in DOMAIN batch'[q] : owner'[batch'[q][k]] = q
               /\ Distinct(batch'[q])
               /\ Handling(q)' => /\ entry'[q] \in Units
                                  /\ owner'[entry'[q]] = q
                                  /\ \A k \in DOMAIN batch'[q] : batch'[q][k] # entry'[q]
    <3>1. CASE q = p
      <4>1. stage[p] = "idle"
        BY ZenonT(30) DEF Collect
      <4> QED
        <5>1. \A k \in 1 .. n : owner'[mList[k]] = p
          BY ZenonT(30), <1>3, <1>v, <2>0
        <5>2. Distinct(batch'[p])
          BY ZenonT(30), <1>3, <1>4 DEF Distinct
        <5>3. ~Handling(p)'
          BY ZenonT(30), <1>u, <4>1 DEF Handling
        <5>4. \A k \in DOMAIN batch'[p] : owner'[batch'[p][k]] = p
          BY ONLY ZenonT(30), <1>3, <5>1
        <5> QED
          BY ONLY ZenonT(30), <3>1, <5>2, <5>3, <5>4
    <3>2. CASE q # p
      <4>0. q # Listed
        BY ZenonT(30)
      <4>1. \A v \in Units : owner[v] = q => owner'[v] = q
        BY ONLY ZenonT(30), <2>3, <4>0
      <4> QED
        BY ZenonT(30), <1>3, <1>u, <3>2, <4>1, PollerKeeps
    <3> QED
      BY <3>1, <3>2, ZenonT(30)
  <2>5. ASSUME NEW d \in Clients, Holding(d)'
        PROVE  unit'[d] \in Units /\ owner'[unit'[d]] = d
    <3>1. Holding(d) /\ unit'[d] = unit[d]
      BY ZenonT(30), <1>u, <2>5 DEF Holding
    <3>0. d # Listed
      BY ZenonT(30)
    <3>2. \A v \in Units : owner[v] = d => owner'[v] = d
      BY ONLY ZenonT(30), <2>3, <3>0
    <3> QED
      BY ZenonT(30), <3>1, <3>2, ClientKeeps
  <2> QED
    BY ZenonT(30), <2>1, <2>2, <2>4, <2>5 DEF Ownership
<1>8. DeadlineOrder'
  <2> SUFFICES ASSUME NEW i \in DOMAIN mList', NEW j \in DOMAIN mList', i < j
               PROVE  tvAbsolute[mList[n + i]] <= tvAbsolute[mList[n + j]]
    BY ZenonT(30), <1>2, <1>u DEF DeadlineOrder
  <2>1. n + i \in DOMAIN mList /\ n + j \in DOMAIN mList /\ n + i < n + j
    BY ONLY SMT, SMTT(30), <1>0, <1>2, i \in DOMAIN mList', j \in DOMAIN mList', i < j
  <2> QED
    BY ZenonT(30), <2>1 DEF IInv, DeadlineOrder
<1>9. CollectedDue'
  BY SMT, SMTT(30), <1>3, <1>u DEF IInv, CollectedDue, DuePrefix
<1> QED
  BY ZenonT(30), <1>5, <1>6, <1>7, <1>8, <1>9 DEF IInv

LEMMA FireStep ==
    ASSUME IInv, NEW p \in Pollers, Fire(p)
    PROVE  IInv'
<1>0. batch \in [Pollers -> Seq(Units)] /\ batch[p] \in Seq(Units) /\ batch[p] # <<>>
  BY ZenonT(30) DEF IInv, TypeOK, Fire
<1> DEFINE u == Head(batch[p])
           T == Tail(batch[p])
<1>1. /\ u \in Units /\ u = batch[p][1] /\ 1 \in DOMAIN batch[p]
      /\ T \in Seq(Units) /\ DOMAIN T = 1 .. Len(batch[p]) - 1
      /\ \A k \in DOMAIN T : /\ T[k] = batch[p][k + 1] /\ k + 1 # 1
                             /\ k + 1 \in DOMAIN batch[p]
  <2>1. /\ u \in Units /\ u = batch[p][1] /\ Len(batch[p]) \in Nat \ {0}
        /\ T \in Seq(Units) /\ Len(T) = Len(batch[p]) - 1
        /\ \A k \in 1 .. Len(batch[p]) - 1 : T[k] = batch[p][k + 1]
    BY ONLY ZenonT(30), <1>0, PopFacts
  <2> HIDE DEF u, T
  <2> QED
    BY SMT, SMTT(30), <1>0, <2>1
<1>2. /\ entry' = [entry EXCEPT ![p] = u] /\ batch' = [batch EXCEPT ![p] = T]
      /\ stage' = [stage EXCEPT ![p] = "fired"] /\ stage[p] = "idle"
      /\ mList' = mList /\ owner' = owner /\ tvAbsolute' = tvAbsolute /\ clock' = clock
      /\ pc' = pc /\ unit' = unit
  BY ZenonT(30) DEF Fire, fields, clientVars
<1>3. TypeOK'
  BY SMT, SMTT(30), <1>1, <1>2 DEF IInv, TypeOK, Fire, fields, clientVars
<1> HIDE DEF u, T
<1>4. UnitKnown'
  BY <1>2, ZenonT(30) DEF IInv, UnitKnown
<1>5. Ownership'
  <2>1. ASSUME NEW q \in Pollers
        PROVE  /\ \A i \in DOMAIN batch'[q] : owner'[batch'[q][i]] = q
               /\ Distinct(batch'[q])
               /\ Handling(q)' => /\ entry'[q] \in Units
                                  /\ owner'[entry'[q]] = q
                                  /\ \A i \in DOMAIN batch'[q] : batch'[q][i] # entry'[q]
    <3>1. CASE q = p
      <4>1. batch'[p] = T /\ entry'[p] = u
        BY ZenonT(30), <1>0, <1>2 DEF IInv, TypeOK
      <4>2. \A i, j \in DOMAIN batch[p] : batch[p][i] = batch[p][j] => i = j
        BY ZenonT(30) DEF IInv, Ownership, Distinct
      <4>3. \A i \in DOMAIN batch[p] : owner[batch[p][i]] = p
        BY ZenonT(30) DEF IInv, Ownership
      <4>4. \A i, j \in DOMAIN T : T[i] = T[j] => i = j
        BY ONLY SMT, SMTT(30), <1>0, <1>1, <4>2
      <4>5. \A i \in DOMAIN T : T[i] # u /\ owner[T[i]] = p
        BY ONLY SMT, SMTT(30), <1>1, <4>2, <4>3
      <4> QED
        BY ONLY SMT, SMTT(30), <1>1, <1>2, <3>1, <4>1, <4>3, <4>4, <4>5 DEF Distinct
    <3>2. CASE q # p
      <4>1. batch'[q] = batch[q] /\ entry'[q] = entry[q] /\ stage'[q] = stage[q] /\ owner' = owner
        BY ZenonT(30), <1>2, <3>2, PollerTypes
      <4> QED
        BY SMT, SMTT(30), <4>1, PollerOwns DEF Handling, Distinct
    <3> QED
      BY ZenonT(30), <3>1, <3>2
  <2> QED
    BY <1>2, <2>1, ZenonT(30) DEF IInv, Ownership, Holding
<1>6. DeadlineOrder'
  BY ZenonT(30), <1>2 DEF IInv, DeadlineOrder
<1>7. CollectedDue'
  BY ZenonT(30), <1>0, <1>1, <1>2 DEF IInv, CollectedDue
<1> QED
  BY ZenonT(30), <1>3, <1>4, <1>5, <1>6, <1>7 DEF IInv

\* A poller that lets go of its entry disturbs no poller's local list.
LEMMA LetGo ==
    ASSUME IInv, NEW p \in Pollers, NEW u \in Units, owner[u] = p,
           \A i \in DOMAIN batch[p] : batch[p][i] # u,
           \A v \in Units : v # u => owner'[v] = owner[v],
           batch' = batch, entry' = [entry EXCEPT ![p] = NoUnit],
           stage' = [stage EXCEPT ![p] = "idle"], NEW q \in Pollers
    PROVE  /\ \A i \in DOMAIN batch'[q] : owner'[batch'[q][i]] = q
           /\ Distinct(batch'[q])
           /\ Handling(q)' => /\ entry'[q] \in Units
                              /\ owner'[entry'[q]] = q
                              /\ \A i \in DOMAIN batch'[q] : batch'[q][i] # entry'[q]
<1>1. \A i \in DOMAIN batch[q] : batch[q][i] # u
  <2>1. \A i \in DOMAIN batch[q] : owner[batch[q][i]] = q
    BY ZenonT(30), PollerOwns
  <2> QED
    BY ZenonT(30), <2>1
<1>2. \A i \in DOMAIN batch'[q] : owner'[batch'[q][i]] = q
  BY ZenonT(30), <1>1, PollerOwns
<1>3. Distinct(batch'[q])
  BY ZenonT(30), PollerOwns
<1>4. CASE q = p
  <2>1. stage'[q] = "idle"
    BY ZenonT(30), <1>4, PollerTypes
  <2> QED
    BY ZenonT(30), <1>2, <1>3, <2>1 DEF Handling
<1>5. CASE q # p
  <2>1. stage'[q] = stage[q] /\ entry'[q] = entry[q]
    BY ZenonT(30), <1>5, PollerTypes
  <2>2. Handling(q)' => Handling(q)
    BY <2>1 DEF Handling
  <2> HIDE DEF Handling
  <2> QED
    <3>1. ASSUME Handling(q)
          PROVE  /\ entry[q] \in Units /\ owner[entry[q]] = q
                 /\ \A i \in DOMAIN batch[q] : batch[q][i] # entry[q]
      BY ZenonT(30), <3>1, PollerOwns
    <3>2. ASSUME Handling(q) PROVE entry[q] # u
      BY ZenonT(30), <1>5, <3>1, <3>2
    <3> QED
      BY ZenonT(30), <1>2, <1>3, <2>1, <2>2, <3>1, <3>2
<1> QED
  BY ZenonT(30), <1>4, <1>5

LEMMA DeleteStep ==
    ASSUME IInv, NEW p \in Pollers, Delete(p)
    PROVE  IInv'
<1> DEFINE u == entry[p]
<1>1. /\ entry' = [entry EXCEPT ![p] = NoUnit] /\ batch' = batch
      /\ stage' = [stage EXCEPT ![p] = "idle"] /\ stage[p] = "fired"
      /\ owner' = [owner EXCEPT ![u] = Free]
      /\ mList' = mList /\ tvAbsolute' = tvAbsolute /\ clock' = clock
      /\ pc' = pc /\ unit' = unit
  BY ZenonT(30) DEF Delete, fields, clientVars
<1>2. u \in Units /\ owner[u] = p /\ \A i \in DOMAIN batch[p] : batch[p][i] # u
  BY ZenonT(30), <1>1 DEF IInv, Ownership, Handling
<1>3. TypeOK'
  <2>1. /\ owner' \in [Units -> {Free, Listed} \cup Clients \cup Pollers]
        /\ entry' \in [Pollers -> Units \cup {NoUnit}]
        /\ stage' \in [Pollers -> {"idle", "fired", "rearm"}]
    BY <1>1, ZenonT(30) DEF IInv, TypeOK
  <2>2. UNCHANGED <<listToken, kind, period, idToken, held, adds, lastFire, discarded>>
    BY DEF Delete, fields, clientVars, history
  <2> QED
    BY ZenonT(30), <1>1, <2>1, <2>2 DEF IInv, TypeOK
<1> HIDE DEF u
<1>4. UnitKnown'
  BY <1>1, ZenonT(30) DEF IInv, UnitKnown
<1>5. Ownership'
  <2>1. \A v \in Units : owner[v] # p => owner'[v] = owner[v]
    BY <1>1, <1>2, ZenonT(30) DEF IInv, TypeOK
  <2>2. /\ \A i \in DOMAIN mList' : owner'[mList'[i]] = Listed
        /\ Distinct(mList')
    <3>1. \A i \in DOMAIN mList : owner'[mList[i]] = Listed
      BY SMT, SMTT(30), <2>1 DEF IInv, TypeOK, Ownership
    <3>2. Distinct(mList)
      BY ZenonT(30) DEF IInv, Ownership
    <3> QED
      BY ZenonT(30), <1>1, <3>1, <3>2
  <2>3. ASSUME NEW q \in Pollers
        PROVE  /\ \A i \in DOMAIN batch'[q] : owner'[batch'[q][i]] = q
               /\ Distinct(batch'[q])
               /\ Handling(q)' => /\ entry'[q] \in Units
                                  /\ owner'[entry'[q]] = q
                                  /\ \A i \in DOMAIN batch'[q] : batch'[q][i] # entry'[q]
    <3>1. \A v \in Units : v # u => owner'[v] = owner[v]
      BY ZenonT(30), <1>1, PollerTypes
    <3> QED
      BY ZenonT(30), <1>1, <1>2, <3>1, LetGo DEF u
  <2>4. ASSUME NEW c \in Clients, Holding(c)'
        PROVE  unit'[c] \in Units /\ owner'[unit'[c]] = c
    BY ZenonT(30), <1>1, <2>1, <2>4, ClientOwns DEF Holding
  <2> QED
    BY ZenonT(30), <2>2, <2>3, <2>4 DEF Ownership
<1>6. DeadlineOrder' /\ CollectedDue'
  BY <1>1 DEF IInv, DeadlineOrder, CollectedDue
<1> QED
  BY ZenonT(30), <1>3, <1>4, <1>5, <1>6 DEF IInv

LEMMA PostponeStep ==
    ASSUME IInv, NEW p \in Pollers, Postpone(p)
    PROVE  IInv'
<1> DEFINE u == entry[p]
           t == time_plus(clock, period[u])
<1>1. /\ tvAbsolute' = [tvAbsolute EXCEPT ![u] = t]
      /\ stage' = [stage EXCEPT ![p] = "rearm"] /\ stage[p] = "fired"
      /\ batch' = batch /\ entry' = entry /\ owner' = owner
      /\ mList' = mList /\ clock' = clock /\ pc' = pc /\ unit' = unit
  BY ZenonT(30) DEF Postpone, clientVars
<1>2. u \in Units /\ owner[u] = p /\ \A i \in DOMAIN batch[p] : batch[p][i] # u
  BY ZenonT(30), <1>1 DEF IInv, Ownership, Handling
<1>3. t \in Nat
  BY SMT, SMTT(30), <1>2 DEF IInv, TypeOK, time_plus, Delays
<1> HIDE DEF u, t
<1>4. TypeOK'
  <2>1. tvAbsolute' \in [Units -> Nat] /\ stage' \in [Pollers -> {"idle", "fired", "rearm"}]
    BY <1>1, <1>3, ZenonT(30) DEF IInv, TypeOK
  <2>2. UNCHANGED <<listToken, kind, period, idToken, held, adds, lastFire, discarded>>
    BY DEF Postpone, clientVars, history
  <2> QED
    BY ZenonT(30), <1>1, <2>1, <2>2 DEF IInv, TypeOK
<1>5. UnitKnown'
  BY <1>1, ZenonT(30) DEF IInv, UnitKnown
<1>6. Ownership'
  <2>1. ASSUME NEW q \in Pollers
        PROVE  Handling(q)' => Handling(q)
    <3>1. CASE q = p
      BY ZenonT(30), <1>1, <3>1 DEF Handling
    <3>2. CASE q # p
      BY ZenonT(30), <1>1, <3>2 DEF Handling, IInv, TypeOK
    <3> QED
      BY ZenonT(30), <3>1, <3>2
  <2>2. \A c \in Clients : Holding(c)' = Holding(c)
    BY <1>1, ZenonT(30) DEF Holding
  <2> QED
    <3>1. /\ \A i \in DOMAIN mList' : owner'[mList'[i]] = Listed
          /\ Distinct(mList')
      BY <1>1, ZenonT(30) DEF IInv, Ownership
    <3>2. ASSUME NEW q \in Pollers
          PROVE  /\ \A i \in DOMAIN batch'[q] : owner'[batch'[q][i]] = q
                 /\ Distinct(batch'[q])
                 /\ Handling(q)' => /\ entry'[q] \in Units
                                    /\ owner'[entry'[q]] = q
                                    /\ \A i \in DOMAIN batch'[q] : batch'[q][i] # entry'[q]
      <4> HIDE DEF Handling
      <4> QED
        BY <1>1, <2>1, PollerOwns, ZenonT(30)
    <3>3. ASSUME NEW c \in Clients, Holding(c)'
          PROVE  unit'[c] \in Units /\ owner'[unit'[c]] = c
      BY <1>1, <2>2, <3>3, ZenonT(30) DEF IInv, Ownership
    <3> QED
      BY <3>1, <3>2, <3>3, ZenonT(30) DEF Ownership
<1>7. \A i \in DOMAIN mList : mList[i] \in Units /\ mList[i] # u
  <2>1. mList \in Seq(Units)
    BY ZenonT(30) DEF IInv, TypeOK
  <2>2. \A i \in DOMAIN mList : owner[mList[i]] = Listed
    BY ZenonT(30) DEF IInv, Ownership
  <2> QED
    BY SMT, SMTT(30), <1>2, <2>1, <2>2
<1>8. \A q \in Pollers : \A i \in DOMAIN batch[q] : batch[q][i] \in Units /\ batch[q][i] # u
  <2>1. batch \in [Pollers -> Seq(Units)]
    BY ZenonT(30) DEF IInv, TypeOK
  <2>2. \A q \in Pollers : \A i \in DOMAIN batch[q] : owner[batch[q][i]] = q
    BY ZenonT(30) DEF IInv, Ownership
  <2> QED
    BY SMT, SMTT(30), <1>2, <2>1, <2>2
<1>9. DeadlineOrder'
  BY <1>1, <1>7, ZenonT(30) DEF IInv, TypeOK, DeadlineOrder
<1>10. CollectedDue'
  BY ZenonT(30), <1>1, <1>8 DEF IInv, TypeOK, CollectedDue
<1> QED
  BY <1>4, <1>5, <1>6, <1>9, <1>10 DEF IInv

LEMMA RearmStep ==
    ASSUME IInv, NEW p \in Pollers, Rearm(p)
    PROVE  IInv'
<1> DEFINE u == entry[p]
<1>1. /\ addEventInternal(u) /\ entry' = [entry EXCEPT ![p] = NoUnit]
      /\ stage' = [stage EXCEPT ![p] = "idle"] /\ stage[p] = "rearm"
      /\ batch' = batch /\ tvAbsolute' = tvAbsolute /\ clock' = clock
      /\ pc' = pc /\ unit' = unit
  BY ZenonT(30) DEF Rearm, clientVars, fields
<1>2. /\ u \in Units /\ owner[u] = p /\ owner[u] # Listed
      /\ \A i \in DOMAIN batch[p] : batch[p][i] # u
  BY SMT, SMTT(30), <1>1, PollerOwns DEF Handling
<1> HIDE DEF u
<1>3. /\ mList' \in Seq(Units)
      /\ owner' = [owner EXCEPT ![u] = Listed]
      /\ \A i \in DOMAIN mList' : \/ mList'[i] = u
                                  \/ \E j \in DOMAIN mList : mList'[i] = mList[j]
      /\ Distinct(mList')
      /\ DeadlineOrder'
  BY <1>1, <1>2, AddEventFacts, ZenonT(30)
<1>4. TypeOK'
  <2>1. /\ owner' \in [Units -> {Free, Listed} \cup Clients \cup Pollers]
        /\ entry' \in [Pollers -> Units \cup {NoUnit}]
        /\ stage' \in [Pollers -> {"idle", "fired", "rearm"}]
    BY <1>1, <1>3, ZenonT(30) DEF IInv, TypeOK
  <2>2. UNCHANGED <<listToken, kind, period, idToken, held, adds, lastFire, discarded>>
    BY ZenonT(30) DEF Rearm, fields, clientVars, history
  <2> QED
    BY ZenonT(30), <1>1, <1>3, <2>1, <2>2 DEF IInv, TypeOK
<1>5. UnitKnown'
  BY <1>1, ZenonT(30) DEF IInv, UnitKnown
<1>6. Ownership'
  <2>0. /\ owner'[u] = Listed
        /\ \A v \in Units : v # u => owner'[v] = owner[v]
        /\ \A i \in DOMAIN mList : mList[i] \in Units /\ owner[mList[i]] = Listed
    <3>1. owner'[u] = Listed /\ \A v \in Units : v # u => owner'[v] = owner[v]
      BY ZenonT(30), <1>2, <1>3 DEF IInv, TypeOK
    <3> QED
      BY <3>1, ListOwned, ZenonT(30)
  <2>1. \A i \in DOMAIN mList' : owner'[mList'[i]] = Listed
    BY SMT, SMTT(30), <1>2, <1>3, <2>0
  <2>2. \A v \in Units : owner[v] # p => owner'[v] = owner[v]
    BY ZenonT(30), <1>2, <1>3 DEF IInv, TypeOK
  <2>3. ASSUME NEW q \in Pollers
        PROVE  /\ \A i \in DOMAIN batch'[q] : owner'[batch'[q][i]] = q
               /\ Distinct(batch'[q])
               /\ Handling(q)' => /\ entry'[q] \in Units
                                  /\ owner'[entry'[q]] = q
                                  /\ \A i \in DOMAIN batch'[q] : batch'[q][i] # entry'[q]
    BY ZenonT(30), <1>1, <1>2, <2>0, LetGo
  <2>4. ASSUME NEW c \in Clients, Holding(c)'
        PROVE  unit'[c] \in Units /\ owner'[unit'[c]] = c
    BY ZenonT(30), <1>1, <2>2, <2>4, ClientOwns DEF Holding
  <2> QED
    BY ZenonT(30), <1>3, <2>1, <2>3, <2>4 DEF Ownership
<1>7. CollectedDue'
  BY ZenonT(30), <1>1 DEF IInv, CollectedDue
<1> QED
  BY ZenonT(30), <1>3, <1>4, <1>5, <1>6, <1>7 DEF IInv

LEMMA TickStep ==
    ASSUME IInv, Tick
    PROVE  IInv'
<1>1. TypeOK'
  BY SMT, SMTT(30) DEF IInv, TypeOK, Tick, fields, clientVars, pollerVars, history
<1>2. UnitKnown' /\ Ownership' /\ DeadlineOrder'
  BY ZenonT(30) DEF IInv, UnitKnown, Ownership, DeadlineOrder, Holding, Handling, Tick,
         fields, clientVars, pollerVars
<1>3. CollectedDue'
  <2> SUFFICES ASSUME NEW p \in Pollers, NEW i \in DOMAIN batch[p]
               PROVE  tvAbsolute[batch[p][i]] <= clock + 1
    BY ZenonT(30) DEF CollectedDue, Tick, fields, pollerVars
  <2>1. batch[p][i] \in Units /\ tvAbsolute[batch[p][i]] \in Nat /\ clock \in Nat
    <3>1. tvAbsolute \in [Units -> Nat] /\ clock \in 0 .. MaxTime
      BY ZenonT(30) DEF IInv, TypeOK
    <3>2. batch[p][i] \in Units
      BY ZenonT(30), PollerOwns
    <3> QED
      BY ONLY SMT, SMTT(30), <3>1, <3>2, QueueAssumption
  <2>2. tvAbsolute[batch[p][i]] <= clock
    BY ZenonT(30) DEF IInv, CollectedDue
  <2> QED
    BY SMT, SMTT(30), <2>1, <2>2
<1> QED
  BY ZenonT(30), <1>1, <1>2, <1>3 DEF IInv

-----------------------------------------------------------------------------
LEMMA InitIInv == Init => IInv
  BY SMT, SMTT(30) DEF Init, IInv, TypeOK, UnitKnown, Ownership, DeadlineOrder, CollectedDue,
         Distinct, Holding, Handling, Tokens, Delays, Kinds

LEMMA StutterStep ==
    ASSUME IInv, UNCHANGED vars
    PROVE  IInv'
  BY ZenonT(30) DEF IInv, TypeOK, UnitKnown, Ownership, DeadlineOrder, CollectedDue,
         Holding, Handling, vars, fields, clientVars, pollerVars, history

LEMMA NextIInv == IInv /\ [Next]_vars => IInv'
<1> SUFFICES ASSUME IInv, [Next]_vars
             PROVE  IInv'
  OBVIOUS
<1>1. ASSUME NEW c \in Clients, Add(c)
      PROVE  IInv'
  <2> PICK u \in Units, ms \in Delays :
          \/ addLaterEvent(c, u, ms)
          \/ addPeriodEvent(c, u, ms)
          \/ \E t \in 0 .. MaxTime, k \in Kinds : addAbsTimedEvent(c, u, t, k, ms)
    BY ZenonT(30), <1>1 DEF Add
  <2>0. time_plus(clock, ms) \in Nat /\ 0 \in Delays
    BY SMT, SMTT(30) DEF time_plus, Delays, IInv, TypeOK
  <2>1. CASE addLaterEvent(c, u, ms)
    BY ZenonT(30), <2>0, <2>1, NewUnitStep DEF addLaterEvent, Kinds
  <2>2. CASE addPeriodEvent(c, u, ms)
    BY ZenonT(30), <2>0, <2>2, NewUnitStep DEF addPeriodEvent, Kinds
  <2>3. ASSUME NEW t \in 0 .. MaxTime, NEW k \in Kinds, addAbsTimedEvent(c, u, t, k, ms)
        PROVE  IInv'
    <3>1. t \in Nat
      BY SMT, SMTT(30)
    <3> QED
      BY ZenonT(30), <2>3, <3>1, NewUnitStep DEF addAbsTimedEvent
  <2> QED
    BY ZenonT(30), <2>1, <2>2, <2>3
<1>2. ASSUME NEW c \in Clients, FinishAdd(c)
      PROVE  IInv'
  BY ZenonT(30), <1>2, InsertStep, NumberStep, ReturnStep DEF FinishAdd
<1>3. ASSUME NEW c \in Clients, NEW token \in Tokens, delTimedEvent(c, token)
      PROVE  IInv'
  BY ZenonT(30), <1>3, DelStep
<1>4. ASSUME NEW p \in Pollers, Collect(p) \/ HandleEntry(p)
      PROVE  IInv'
  BY ZenonT(30), <1>4, CollectStep, FireStep, DeleteStep, PostponeStep, RearmStep DEF HandleEntry
<1>5. CASE Tick
  BY <1>5, TickStep
<1>6. CASE UNCHANGED vars
  BY <1>6, StutterStep
<1> QED
  BY ZenonT(30), <1>1, <1>2, <1>3, <1>4, <1>5, <1>6 DEF Next

\* The inductive invariant holds in every reachable state of the queue.
THEOREM Invariance == Spec => []IInv
  BY InitIInv, NextIInv, PTL DEF Spec

\* Type correctness of the queue's state.
THEOREM TypeCorrect == Spec => []TypeOK
<1>1. IInv => TypeOK
  BY ZenonT(30) DEF IInv
<1> QED
  BY <1>1, Invariance, PTL

\* Every EventUnit is in one place at a time: the list, one local list, or one
\* thread's hands.
THEOREM OwnershipHolds == Spec => []Ownership
<1>1. IInv => Ownership
  BY DEF IInv
<1> QED
  BY <1>1, Invariance, PTL

\* The list is ordered by deadline, for any number of threads that add, discard
\* and re-arm events in any interleaving of their critical sections.
THEOREM DeadlineOrderHolds == Spec => []DeadlineOrder
<1>1. IInv => DeadlineOrder
  BY DEF IInv
<1> QED
  BY <1>1, Invariance, PTL

\* A poller that starts to handle an event fires the first one of its local list.
LEMMA StartsByFire ==
    ASSUME IInv, Next, NEW p \in Pollers, ~Handling(p), Handling(p)'
    PROVE  Fire(p) /\ entry'[p] = batch[p][1] /\ 1 \in DOMAIN batch[p]
<1>0. stage' # stage /\ stage \in [Pollers -> {"idle", "fired", "rearm"}]
  BY ZenonT(30) DEF Handling, IInv, TypeOK
<1>1. PICK q \in Pollers : HandleEntry(q)
  <2>1. ASSUME NEW c \in Clients, Add(c) \/ FinishAdd(c) \/ \E token \in Tokens : delTimedEvent(c, token)
        PROVE  stage' = stage
    <3>1. ASSUME Add(c)
          PROVE  stage' = stage
      BY SMT, SMTT(30), <3>1 DEF Add, addLaterEvent, addPeriodEvent, addAbsTimedEvent, NewUnit, pollerVars
    <3>2. ASSUME FinishAdd(c)
          PROVE  stage' = stage
      BY <3>2, ZenonT(30) DEF FinishAdd, Insert, Number, InsertNumbered, Return, pollerVars
    <3>3. ASSUME NEW token \in Tokens, delTimedEvent(c, token)
          PROVE  stage' = stage
      BY ZenonT(30), <3>3 DEF delTimedEvent, pollerVars
    <3> QED
      BY ZenonT(30), <2>1, <3>1, <3>2, <3>3
  <2>2. Tick \/ (\E q \in Pollers : Collect(q)) => stage' = stage
    BY DEF Tick, Collect, pollerVars
  <2> QED
    BY ZenonT(30), <1>0, <2>1, <2>2 DEF Next
<1>2. Fire(p)
  <2>1. Fire(q) /\ stage' = [stage EXCEPT ![q] = "fired"]
    <3>1. ~Delete(q) /\ ~Rearm(q)
      BY <1>0, ZenonT(30) DEF Delete, Rearm, Handling
    <3>2. ~Postpone(q)
      BY ZenonT(30), <1>0 DEF Postpone, Handling
    <3> QED
      BY ZenonT(30), <1>1, <3>1, <3>2 DEF HandleEntry, Fire
  <2>2. q = p
    BY ZenonT(30), <1>0, <2>1 DEF Handling
  <2> QED
    BY ZenonT(30), <2>1, <2>2
<1>3. batch[p] \in Seq(Units) /\ batch[p] # <<>> /\ entry'[p] = Head(batch[p])
  BY ZenonT(30), <1>2 DEF Fire, IInv, TypeOK
<1>4. entry'[p] = batch[p][1] /\ 1 \in DOMAIN batch[p]
  BY SMT, SMTT(30), <1>3
<1> QED BY <1>2, <1>4, ZenonT(30)

\* No handler is called before its deadline.
THEOREM NoEarlyFireHolds == Spec => NoEarlyFire
<1> DEFINE A == \A p \in Pollers :
                   ~Handling(p) /\ Handling(p)' => tvAbsolute[entry'[p]] <= clock
<1>1. IInv /\ [Next]_vars => [A]_vars
  <2> SUFFICES ASSUME IInv, Next, NEW p \in Pollers, ~Handling(p), Handling(p)'
               PROVE  tvAbsolute[entry'[p]] <= clock
    BY ZenonT(30)
  <2>1. entry'[p] = batch[p][1] /\ 1 \in DOMAIN batch[p]
    BY StartsByFire, ZenonT(30)
  <2> QED
    BY ZenonT(30), <2>1 DEF IInv, CollectedDue
<1> QED
  BY <1>1, Invariance, PTL DEF Spec, NoEarlyFire

-----------------------------------------------------------------------------
(***************************************************************************)
(* No EventUnit leaks.  NoLeak is inductive relative to IInv: each step    *)
(* that takes a unit out of one place puts it into another.                *)
(***************************************************************************)
Reached(u) ==
    \/ owner[u] = Free
    \/ owner[u] = Listed /\ \E i \in DOMAIN mList : mList[i] = u
    \/ \E p \in Pollers : /\ owner[u] = p
                         /\ \/ \E i \in DOMAIN batch[p] : batch[p][i] = u
                            \/ Handling(p) /\ entry[p] = u
    \/ \E c \in Clients : owner[u] = c /\ Holding(c) /\ unit[c] = u

\* addEventInternal loses no entry of the list.
LEMMA AddEventKeeps ==
    ASSUME IInv, NEW u \in Units, addEventInternal(u)
    PROVE  /\ \E i \in DOMAIN mList' : mList'[i] = u
           /\ \A j \in DOMAIN mList : \E i \in DOMAIN mList' : mList'[i] = mList[j]
<1> PICK i \in 1 .. Len(mList) + 1 : mList' = InsertAt(mList, i, u)
  BY ZenonT(30) DEF addEventInternal
<1>0. mList \in Seq(Units)
  BY DEF IInv, TypeOK
<1>1. /\ InsertAt(mList, i, u) \in Seq(Units)
      /\ Len(InsertAt(mList, i, u)) = Len(mList) + 1
      /\ \A k \in 1 .. i - 1 : InsertAt(mList, i, u)[k] = mList[k]
      /\ InsertAt(mList, i, u)[i] = u
      /\ \A k \in i + 1 .. Len(mList) + 1 : InsertAt(mList, i, u)[k] = mList[k - 1]
  <2>1. InsertedAt(Units, mList, i, u, InsertAt(mList, i, u))
    BY ZenonT(30), <1>0, InsertAtInserts
  <2> QED
    BY ONLY ZenonT(30), <2>1 DEF InsertedAt
<1>2. DOMAIN mList = 1 .. Len(mList) /\ DOMAIN mList' = 1 .. Len(mList) + 1
  <2>1. \A s \in Seq(Units) : DOMAIN s = 1 .. Len(s)
    BY ONLY SMT, SMTT(30), TRUE
  <2>2. mList' \in Seq(Units) /\ Len(mList') = Len(mList) + 1
    BY ONLY ZenonT(30), <1>1, mList' = InsertAt(mList, i, u)
  <2> QED BY ONLY ZenonT(30), <1>0, <2>1, <2>2
<1>3. ASSUME NEW j \in DOMAIN mList
      PROVE  \E k \in DOMAIN mList' : mList'[k] = mList[j]
  <2>1. CASE j < i
    <3>1. j \in 1 .. i - 1 /\ j \in DOMAIN mList'
      BY SMT, SMTT(30), <1>2, <2>1
    <3> QED BY <1>1, <3>1, ZenonT(30)
  <2>2. CASE j >= i
    <3>1. j + 1 \in i + 1 .. Len(mList) + 1 /\ j + 1 \in DOMAIN mList' /\ (j + 1) - 1 = j
      BY SMT, SMTT(30), <1>2, <2>2
    <3>2. mList'[j + 1] = mList[(j + 1) - 1]
      BY <1>1, <3>1, ZenonT(30)
    <3> QED BY <3>1, <3>2, ZenonT(30)
  <2>3. j < i \/ j >= i
    BY ONLY SMT, SMTT(30), <1>2, i \in 1 .. Len(mList) + 1, j \in DOMAIN mList
  <2> QED BY <2>1, <2>2, <2>3, ZenonT(30)
<1>4. \E k \in DOMAIN mList' : mList'[k] = u
  BY <1>1, <1>2, ZenonT(30)
<1> QED BY <1>3, <1>4, ZenonT(30)

LEMMA NewUnitKeeps ==
    ASSUME IInv, NoLeak, NEW c \in Clients, NEW u \in Units, NEW t, NEW k, NEW ms,
           NEW label \in {"insert", "insertNumbered"}, NewUnit(c, u, t, k, ms, label)
    PROVE  NoLeak'
<1> SUFFICES ASSUME NEW v \in Units PROVE Reached(v)'
  BY ZenonT(30) DEF NoLeak, Reached
<1>1. /\ owner' = [owner EXCEPT ![u] = c] /\ unit' = [unit EXCEPT ![c] = u]
      /\ pc' = [pc EXCEPT ![c] = label] /\ pc[c] = "idle"
      /\ mList' = mList /\ batch' = batch /\ entry' = entry /\ stage' = stage
  BY ZenonT(30) DEF NewUnit, pollerVars
<1>2. /\ pc \in [Clients -> {"idle", "insert", "number", "insertNumbered", "return"}]
      /\ unit \in [Clients -> Units \cup {NoUnit}]
      /\ owner \in [Units -> {Free, Listed} \cup Clients \cup Pollers]
  BY ZenonT(30) DEF IInv, TypeOK
<1>3. CASE v = u
  <2>1. owner'[v] = c /\ Holding(c)' /\ unit'[c] = v
    BY <1>1, <1>2, <1>3 DEF Holding
  <2> QED BY <2>1, ZenonT(30) DEF Reached
<1>4. CASE v # u
  <2>1. owner'[v] = owner[v]
    BY <1>1, <1>2, <1>4, ZenonT(30)
  <2>2. \A d \in Clients : Holding(d) => Holding(d)' /\ unit'[d] = unit[d]
    BY <1>1, <1>2 DEF Holding
  <2>3. \A p \in Pollers : Handling(p)' <=> Handling(p)
    BY <1>1, ZenonT(30) DEF Handling
  <2>4. Reached(v)
    BY ZenonT(30) DEF NoLeak, Reached
  <2> HIDE DEF Holding, Handling
  <2> QED BY <1>1, <2>1, <2>2, <2>3, <2>4, ZenonT(30) DEF Reached
<1> QED BY <1>3, <1>4, ZenonT(30)

LEMMA FinishAddKeeps ==
    ASSUME IInv, NoLeak, NEW c \in Clients, FinishAdd(c)
    PROVE  NoLeak'
<1> SUFFICES ASSUME NEW v \in Units PROVE Reached(v)'
  BY ZenonT(30) DEF NoLeak, Reached
<1>1. Reached(v)
  BY ZenonT(30) DEF NoLeak, Reached
<1>2. /\ pc \in [Clients -> {"idle", "insert", "number", "insertNumbered", "return"}]
      /\ unit \in [Clients -> Units \cup {NoUnit}]
      /\ owner \in [Units -> {Free, Listed} \cup Clients \cup Pollers]
  BY ZenonT(30) DEF IInv, TypeOK
<1>3. batch' = batch /\ entry' = entry /\ \A p \in Pollers : Handling(p)' <=> Handling(p)
  BY ZenonT(30) DEF FinishAdd, Insert, Number, InsertNumbered, Return, pollerVars, Handling
<1>4. CASE Number(c) \/ Return(c)
  <2>1. mList' = mList /\ owner' = owner
    BY <1>4, ZenonT(30) DEF Number, Return
  <2>2. \A d \in Clients : Holding(d) => Holding(d)' /\ unit'[d] = unit[d]
    BY <1>2, <1>4 DEF Number, Return, Holding
  <2> HIDE DEF Holding, Handling
  <2> QED BY <1>1, <1>3, <2>1, <2>2, ZenonT(30) DEF Reached
<1>5. CASE Insert(c) \/ InsertNumbered(c)
  <2>1. /\ unit[c] \in Units /\ addEventInternal(unit[c]) /\ unit' = unit
        /\ owner' = [owner EXCEPT ![unit[c]] = Listed]
    BY ZenonT(30), <1>5, ClientOwns DEF Insert, InsertNumbered, Holding, addEventInternal
  <2>2. /\ \E i \in DOMAIN mList' : mList'[i] = unit[c]
        /\ \A j \in DOMAIN mList : \E i \in DOMAIN mList' : mList'[i] = mList[j]
    BY <2>1, AddEventKeeps, ZenonT(30)
  <2>3. CASE v = unit[c]
    <3>1. owner'[v] = Listed
      BY <1>2, <2>1, <2>3, ZenonT(30)
    <3> QED BY <2>2, <2>3, <3>1, ZenonT(30) DEF Reached
  <2>4. CASE v # unit[c]
    <3>1. owner'[v] = owner[v]
      BY <1>2, <2>1, <2>4, ZenonT(30)
    <3>2. \A d \in Clients : d # c /\ Holding(d) => Holding(d)'
      BY <1>2, <1>5 DEF Insert, InsertNumbered, Holding
    <3> HIDE DEF Holding, Handling
    <3> QED BY <1>1, <1>3, <2>1, <2>2, <2>4, <3>1, <3>2, ZenonT(30) DEF Reached
  <2> QED BY <2>3, <2>4, ZenonT(30)
<1> QED BY <1>4, <1>5, ZenonT(30) DEF FinishAdd

LEMMA DelKeeps ==
    ASSUME IInv, NoLeak, NEW c \in Clients, NEW token \in Tokens, delTimedEvent(c, token)
    PROVE  NoLeak'
<1> SUFFICES ASSUME NEW v \in Units PROVE Reached(v)'
  BY ZenonT(30) DEF NoLeak, Reached
<1>1. Reached(v)
  BY ZenonT(30) DEF NoLeak, Reached
<1>2. /\ batch' = batch /\ entry' = entry /\ unit' = unit
      /\ \A p \in Pollers : Handling(p)' <=> Handling(p)
      /\ \A d \in Clients : Holding(d)' <=> Holding(d)
  BY ZenonT(30) DEF delTimedEvent, pollerVars, Handling, Holding
<1>3. owner \in [Units -> {Free, Listed} \cup Clients \cup Pollers] /\ mList \in Seq(Units)
  BY ZenonT(30) DEF IInv, TypeOK
<1> HIDE DEF Holding, Handling
<1>4. CASE mList' = mList /\ owner' = owner
  BY <1>1, <1>2, <1>4, ZenonT(30) DEF Reached
<1>5. ASSUME NEW i \in 1 .. Len(mList),
             owner' = [owner EXCEPT ![mList[i]] = Free], mList' = RemoveAt(mList, i)
      PROVE  Reached(v)'
  <2>0. mList[i] \in Units
    BY SMT, SMTT(30), <1>3
  <2>1. /\ RemoveAt(mList, i) \in Seq(Units) /\ Len(RemoveAt(mList, i)) = Len(mList) - 1
        /\ \A k \in 1 .. i - 1 : RemoveAt(mList, i)[k] = mList[k]
        /\ \A k \in i .. Len(mList) - 1 : RemoveAt(mList, i)[k] = mList[k + 1]
    BY ONLY <1>3, i \in 1 .. Len(mList), UnitRemove, ZenonT(30)
  <2>2. DOMAIN mList = 1 .. Len(mList) /\ DOMAIN mList' = 1 .. Len(mList) - 1
    BY ONLY SMT, SMTT(30), <1>3, <1>5, <2>1
  <2>3. ASSUME NEW j \in DOMAIN mList, j # i
        PROVE  \E k \in DOMAIN mList' : mList'[k] = mList[j]
    <3>1. CASE j < i
      <4>1. j \in 1 .. i - 1 /\ j \in DOMAIN mList'
        BY SMT, SMTT(30), <2>2, <3>1
      <4> QED BY <1>5, <2>1, <4>1, ZenonT(30)
    <3>2. CASE j > i
      <4>1. j - 1 \in i .. Len(mList) - 1 /\ j - 1 \in DOMAIN mList' /\ (j - 1) + 1 = j
        BY SMT, SMTT(30), <2>2, <3>2
      <4>2. mList'[j - 1] = mList[(j - 1) + 1]
        BY <1>5, <2>1, <4>1, ZenonT(30)
      <4> QED BY <4>1, <4>2, ZenonT(30)
    <3> QED BY SMT, SMTT(30), <2>2, <2>3, <3>1, <3>2
  <2>4. CASE v = mList[i]
    <3>1. owner'[v] = Free
      BY <1>3, <1>5, <2>0, <2>4, ZenonT(30)
    <3> QED BY <3>1, ZenonT(30) DEF Reached
  <2>5. CASE v # mList[i]
    <3>1. owner'[v] = owner[v]
      BY <1>3, <1>5, <2>5, ZenonT(30)
    <3> QED BY <1>1, <1>2, <2>3, <2>5, <3>1, ZenonT(30) DEF Reached
  <2> QED BY <2>4, <2>5, ZenonT(30)
<1> QED BY <1>4, <1>5, ZenonT(30) DEF delTimedEvent

LEMMA CollectKeeps ==
    ASSUME IInv, NoLeak, NEW p \in Pollers, Collect(p)
    PROVE  NoLeak'
<1> SUFFICES ASSUME NEW v \in Units PROVE Reached(v)'
  BY ZenonT(30) DEF NoLeak, Reached
<1> PICK n \in 1 .. Len(mList) :
        /\ batch' = [batch EXCEPT ![p] = SubSeq(mList, 1, n)]
        /\ mList' = SubSeq(mList, n + 1, Len(mList))
        /\ owner' = [u \in Units |->
                        IF \E k \in 1 .. n : mList[k] = u THEN p ELSE owner[u]]
  BY ZenonT(30) DEF Collect
<1>0. /\ mList \in Seq(Units) /\ DOMAIN mList = 1 .. Len(mList) /\ n \in 0 .. Len(mList)
      /\ batch \in [Pollers -> Seq(Units)] /\ batch[p] = <<>>
  BY SMT, SMTT(30), ListOwned, PollerTypes DEF Collect
<1>1. Reached(v)
  BY ZenonT(30) DEF NoLeak, Reached
<1>2. /\ entry' = entry /\ unit' = unit
      /\ \A q \in Pollers : Handling(q)' <=> Handling(q)
      /\ \A d \in Clients : Holding(d)' <=> Holding(d)
  BY ZenonT(30) DEF Collect, clientVars, Handling, Holding
<1> HIDE DEF Holding, Handling
<1>3. /\ SubSeq(mList, 1, n) \in Seq(Units) /\ Len(SubSeq(mList, 1, n)) = n
      /\ \A k \in 1 .. n : SubSeq(mList, 1, n)[k] = mList[k]
      /\ SubSeq(mList, n + 1, Len(mList)) \in Seq(Units)
      /\ Len(SubSeq(mList, n + 1, Len(mList))) = Len(mList) - n
      /\ \A k \in 1 .. Len(mList) - n : SubSeq(mList, n + 1, Len(mList))[k] = mList[n + k]
  BY ONLY ZenonT(30), <1>0, UnitCut
<1>4. owner'[v] = IF \E k \in 1 .. n : mList[k] = v THEN p ELSE owner[v]
  OBVIOUS
<1>5. CASE \E k \in 1 .. n : mList[k] = v
  <2>1. PICK k \in 1 .. n : mList[k] = v
    BY <1>5
  <2>2. batch'[p] = SubSeq(mList, 1, n)
    BY <1>0, ZenonT(30)
  <2>3. DOMAIN SubSeq(mList, 1, n) = 1 .. n
    BY ONLY SMT, SMTT(30), <1>3, n \in 1 .. Len(mList)
  <2>4. k \in DOMAIN batch'[p] /\ batch'[p][k] = v
    BY <1>3, <2>1, <2>2, <2>3, ZenonT(30)
  <2> QED BY <1>4, <1>5, <2>4, ZenonT(30) DEF Reached
<1>6. CASE ~\E k \in 1 .. n : mList[k] = v
  <2>1. owner'[v] = owner[v]
    BY <1>4, <1>6, ZenonT(30)
  <2>2. ASSUME NEW j \in DOMAIN mList, mList[j] = v
        PROVE  \E i \in DOMAIN mList' : mList'[i] = v
    <3>1. j \notin 1 .. n
      BY <1>6, <2>2, ZenonT(30)
    <3>2. j - n \in 1 .. Len(mList) - n /\ n + (j - n) = j
      <4>1. j \in 1 .. Len(mList) /\ Len(mList) \in Nat
        BY SMT, SMTT(30), <1>0
      <4> QED BY ONLY SMT, SMTT(30), <3>1, <4>1, n \in 1 .. Len(mList)
    <3>3. DOMAIN SubSeq(mList, n + 1, Len(mList)) = 1 .. Len(mList) - n
      <4>1. \A s \in Seq(Units) : DOMAIN s = 1 .. Len(s)
        BY SMT, SMTT(30)
      <4> QED BY <1>3, <4>1, ZenonT(30)
    <3>4. mList'[j - n] = mList[n + (j - n)]
      BY <1>3, <3>2, ZenonT(30)
    <3> QED BY <2>2, <3>2, <3>3, <3>4, ZenonT(30)
  <2>3. \A q \in Pollers : \A i \in DOMAIN batch[q] : batch'[q] = batch[q]
    <3>1. DOMAIN batch[p] = {}
      BY SMT, SMTT(30), <1>0
    <3> QED BY <1>0, <3>1, ZenonT(30)
  <2>4. ASSUME NEW q \in Pollers, owner[v] = q,
               (\E i \in DOMAIN batch[q] : batch[q][i] = v) \/ (Handling(q) /\ entry[q] = v)
        PROVE  Reached(v)'
    <3>1. owner'[v] = q
      BY <2>1, <2>4, ZenonT(30)
    <3>2. (\E i \in DOMAIN batch'[q] : batch'[q][i] = v) \/ (Handling(q)' /\ entry'[q] = v)
      BY <1>2, <2>3, <2>4, ZenonT(30)
    <3> QED BY <3>1, <3>2, ZenonT(30) DEF Reached
  <2>5. CASE owner[v] = Free \/ (owner[v] = Listed /\ \E i \in DOMAIN mList : mList[i] = v)
    BY <2>1, <2>2, <2>5, ZenonT(30) DEF Reached
  <2>6. ASSUME NEW d \in Clients, owner[v] = d, Holding(d), unit[d] = v
        PROVE  Reached(v)'
    BY <1>2, <2>1, <2>6, ZenonT(30) DEF Reached
  <2> QED BY <1>1, <2>4, <2>5, <2>6, ZenonT(30) DEF Reached
<1> QED BY <1>5, <1>6, ZenonT(30)

LEMMA FireKeeps ==
    ASSUME IInv, NoLeak, NEW p \in Pollers, Fire(p)
    PROVE  NoLeak'
<1> SUFFICES ASSUME NEW v \in Units PROVE Reached(v)'
  BY ZenonT(30) DEF NoLeak, Reached
<1>0. batch[p] \in Seq(Units) /\ batch[p] # <<>> /\ stage[p] = "idle"
  BY ZenonT(30) DEF IInv, TypeOK, Fire
<1>1. Reached(v)
  BY ZenonT(30) DEF NoLeak, Reached
<1>2. /\ entry' = [entry EXCEPT ![p] = Head(batch[p])]
      /\ batch' = [batch EXCEPT ![p] = Tail(batch[p])]
      /\ stage' = [stage EXCEPT ![p] = "fired"]
      /\ mList' = mList /\ owner' = owner /\ unit' = unit
      /\ \A d \in Clients : Holding(d)' <=> Holding(d)
  BY ZenonT(30) DEF Fire, clientVars, Holding
<1>3. /\ entry'[p] = Head(batch[p]) /\ batch'[p] = Tail(batch[p]) /\ Handling(p)'
      /\ ~Handling(p)
      /\ \A q \in Pollers : q # p => /\ entry'[q] = entry[q] /\ batch'[q] = batch[q]
                                     /\ Handling(q)' <=> Handling(q)
  BY ZenonT(30), <1>0, <1>2, PollerTypes DEF Handling
<1>4. /\ Head(batch[p]) = batch[p][1] /\ Len(batch[p]) \in Nat \ {0}
      /\ Tail(batch[p]) \in Seq(Units) /\ Len(Tail(batch[p])) = Len(batch[p]) - 1
      /\ \A k \in 1 .. Len(batch[p]) - 1 : Tail(batch[p])[k] = batch[p][k + 1]
  BY ONLY ZenonT(30), <1>0, PopFacts
<1> HIDE DEF Holding, Handling
<1>5. ASSUME NEW i \in DOMAIN batch[p]
      PROVE  entry'[p] = batch[p][i] \/ \E k \in DOMAIN batch'[p] : batch'[p][k] = batch[p][i]
  <2>1. CASE i = 1
    BY <1>3, <1>4, <2>1, ZenonT(30)
  <2>2. CASE i # 1
    <3>1. i - 1 \in 1 .. Len(batch[p]) - 1 /\ (i - 1) + 1 = i
      BY SMT, SMTT(30), <1>0, <1>4, <2>2
    <3>2. DOMAIN Tail(batch[p]) = 1 .. Len(batch[p]) - 1
      BY ONLY SMT, SMTT(30), <1>4
    <3>3. Tail(batch[p])[i - 1] = batch[p][(i - 1) + 1]
      BY <1>4, <3>1, ZenonT(30)
    <3> QED BY <1>3, <3>1, <3>2, <3>3, ZenonT(30)
  <2> QED BY <2>1, <2>2, ZenonT(30)
<1>6. ASSUME NEW q \in Pollers, owner[v] = q,
             (\E i \in DOMAIN batch[q] : batch[q][i] = v) \/ (Handling(q) /\ entry[q] = v)
      PROVE  Reached(v)'
  <2>1. CASE q = p
    <3>1. \/ entry'[p] = v
          \/ \E k \in DOMAIN batch'[p] : batch'[p][k] = v
      BY <1>3, <1>5, <1>6, <2>1, ZenonT(30)
    <3>2. owner'[v] = p /\ Handling(p)'
      BY <1>2, <1>3, <1>6, <2>1, ZenonT(30)
    <3> QED BY <3>1, <3>2, ZenonT(30) DEF Reached
  <2>2. CASE q # p
    <3>1. owner'[v] = q
      BY <1>2, <1>6, ZenonT(30)
    <3>2. (\E i \in DOMAIN batch'[q] : batch'[q][i] = v) \/ (Handling(q)' /\ entry'[q] = v)
      BY <1>3, <1>6, <2>2, ZenonT(30)
    <3> QED BY <3>1, <3>2, ZenonT(30) DEF Reached
  <2> QED BY <2>1, <2>2, ZenonT(30)
<1>7. CASE \/ owner[v] = Free
           \/ owner[v] = Listed /\ \E i \in DOMAIN mList : mList[i] = v
           \/ \E d \in Clients : owner[v] = d /\ Holding(d) /\ unit[d] = v
  BY <1>2, <1>7, ZenonT(30) DEF Reached
<1> QED BY <1>1, <1>6, <1>7, ZenonT(30) DEF Reached

LEMMA LetGoKeeps ==
    ASSUME IInv, NoLeak, NEW p \in Pollers, Delete(p) \/ Postpone(p) \/ Rearm(p)
    PROVE  NoLeak'
<1> SUFFICES ASSUME NEW v \in Units PROVE Reached(v)'
  BY ZenonT(30) DEF NoLeak, Reached
<1>1. Reached(v)
  BY ZenonT(30) DEF NoLeak, Reached
<1>2. batch' = batch /\ unit' = unit /\ \A d \in Clients : Holding(d)' <=> Holding(d)
  BY ZenonT(30) DEF Delete, Postpone, Rearm, clientVars, Holding
<1>3. stage[p] # "idle" /\ entry[p] \in Units /\ owner[entry[p]] = p
  BY ZenonT(30), PollerOwns DEF Handling, Delete, Postpone, Rearm
<1>4. /\ entry \in [Pollers -> Units \cup {NoUnit}]
      /\ stage \in [Pollers -> {"idle", "fired", "rearm"}]
      /\ owner \in [Units -> {Free, Listed} \cup Clients \cup Pollers]
  BY PollerTypes, ZenonT(30)
<1>5. \A q \in Pollers : q # p => entry'[q] = entry[q] /\ (Handling(q)' <=> Handling(q))
  BY ZenonT(30), <1>4 DEF Delete, Postpone, Rearm, Handling
<1>6. CASE Postpone(p)
  <2>1. owner' = owner /\ mList' = mList /\ entry' = entry /\ Handling(p)'
    BY <1>4, <1>6 DEF Postpone, Handling
  <2> HIDE DEF Holding, Handling
  <2>2. \A q \in Pollers : Handling(q) => Handling(q)'
    BY <1>5, <2>1, ZenonT(30)
  <2> QED BY <1>1, <1>2, <2>1, <2>2, ZenonT(30) DEF Reached
<1>7. CASE Delete(p) \/ Rearm(p)
  <2>1. /\ owner' = [owner EXCEPT ![entry[p]] = IF Delete(p) THEN Free ELSE Listed]
        /\ \A j \in DOMAIN mList : \E i \in DOMAIN mList' : mList'[i] = mList[j]
        /\ ~Delete(p) => \E i \in DOMAIN mList' : mList'[i] = entry[p]
    <3>1. CASE Delete(p)
      BY <3>1, ZenonT(30) DEF Delete
    <3>2. CASE ~Delete(p)
      <4>1. addEventInternal(entry[p])
        BY <1>7, <3>2, ZenonT(30) DEF Rearm
      <4>2. owner' = [owner EXCEPT ![entry[p]] = Listed]
        BY <4>1, ZenonT(30) DEF addEventInternal
      <4> QED BY <1>3, <3>2, <4>1, <4>2, AddEventKeeps, ZenonT(30)
    <3> QED BY <3>1, <3>2, ZenonT(30)
  <2> HIDE DEF Holding, Handling, Delete, Rearm
  <2>2. CASE v = entry[p]
    <3>1. owner'[v] = IF Delete(p) THEN Free ELSE Listed
      BY <1>3, <1>4, <2>1, <2>2, ZenonT(30)
    <3> QED BY <2>1, <2>2, <3>1, ZenonT(30) DEF Reached
  <2>3. CASE v # entry[p]
    <3>1. owner'[v] = owner[v]
      BY <1>4, <2>1, <2>3, ZenonT(30)
    <3>2. ASSUME NEW q \in Pollers, owner[v] = q,
                 (\E i \in DOMAIN batch[q] : batch[q][i] = v) \/ (Handling(q) /\ entry[q] = v)
          PROVE  Reached(v)'
      BY <1>2, <1>5, <2>3, <3>1, <3>2, ZenonT(30) DEF Reached
    <3>3. CASE \/ owner[v] = Free
               \/ owner[v] = Listed /\ \E i \in DOMAIN mList : mList[i] = v
               \/ \E d \in Clients : owner[v] = d /\ Holding(d) /\ unit[d] = v
      BY <1>2, <2>1, <3>1, <3>3, ZenonT(30) DEF Reached
    <3> QED BY <1>1, <3>2, <3>3, ZenonT(30) DEF Reached
  <2> QED BY <2>2, <2>3, ZenonT(30)
<1> QED BY <1>6, <1>7, ZenonT(30)

LEMMA NoLeakStep == IInv /\ NoLeak /\ [Next]_vars => NoLeak'
<1> SUFFICES ASSUME IInv, NoLeak, [Next]_vars PROVE NoLeak'
  OBVIOUS
<1>1. ASSUME NEW c \in Clients, Add(c) PROVE NoLeak'
  <2>1. ASSUME NEW u \in Units, NEW t, NEW k, NEW ms,
               NewUnit(c, u, t, k, ms, "insert") \/ NewUnit(c, u, t, k, ms, "insertNumbered")
        PROVE  NoLeak'
    BY <2>1, NewUnitKeeps, ZenonT(30)
  <2> QED BY <1>1, <2>1, ZenonT(30) DEF Add, addLaterEvent, addPeriodEvent, addAbsTimedEvent
<1>2. CASE Tick \/ UNCHANGED vars
  <2>1. UNCHANGED <<mList, owner, unit, pc, batch, entry, stage>>
    BY <1>2, ZenonT(30) DEF Tick, vars, clientVars, pollerVars
  <2> QED BY <2>1, ZenonT(30) DEF NoLeak, Holding, Handling
<1> QED
  BY <1>1, <1>2, FinishAddKeeps, DelKeeps, CollectKeeps, FireKeeps, LetGoKeeps, ZenonT(30)
  DEF Next, HandleEntry

\* Every EventUnit that is allocated can be reached by the list or by the thread
\* that owns it, for any number of threads: none leaks.
THEOREM NoLeakHolds == Spec => []NoLeak
<1>1. Init => NoLeak
  BY ZenonT(30) DEF Init, NoLeak
<1> QED BY <1>1, NoLeakStep, Invariance, PTL DEF Spec

-----------------------------------------------------------------------------
(***************************************************************************)
(* The spacing of a period event.  The deadline of one that has fired lies *)
(* a period behind its last signal, but while its handler runs: Postpone   *)
(* writes the deadline only then.                                          *)
(***************************************************************************)
Fired(u) == \E p \in Pollers : stage[p] = "fired" /\ entry[p] = u

Spaced(u) ==
    /\ lastFire[u] <= clock + 1
    /\ kind[u] = "period" /\ lastFire[u] # 0 /\ ~Fired(u)
          => time_plus(lastFire[u] - 1, period[u]) <= tvAbsolute[u]

SpacingInv == \A u \in Units : Spaced(u)

\* A later start never makes an earlier deadline.
LEMMA PlusMonotone ==
    ASSUME NEW s \in Int, NEW t \in Int, s <= t, NEW ms \in Nat
    PROVE  time_plus(s, ms) \in Int /\ time_plus(s, ms) <= time_plus(t, ms)
  BY SMT, SMTT(30) DEF time_plus

LEMMA FieldTypes ==
    ASSUME IInv
    PROVE  /\ clock \in Nat /\ tvAbsolute \in [Units -> Nat] /\ lastFire \in [Units -> Nat]
           /\ kind \in [Units -> Kinds] /\ period \in [Units -> Nat]
<1>1. /\ clock \in 0 .. MaxTime /\ tvAbsolute \in [Units -> Nat] /\ lastFire \in [Units -> Nat]
      /\ kind \in [Units -> Kinds] /\ period \in [Units -> Delays]
  BY ZenonT(30) DEF IInv, TypeOK
<1> QED BY SMT, SMTT(30), <1>1 DEF Delays

LEMMA SpacingFrame ==
    ASSUME NEW v \in Units, Spaced(v), Fired(v) => Fired(v)' \/ kind[v] # "period",
           clock' = clock, kind'[v] = kind[v], period'[v] = period[v],
           lastFire'[v] = lastFire[v], tvAbsolute'[v] = tvAbsolute[v]
    PROVE  Spaced(v)'
<1>1. Fired(v)' \in BOOLEAN /\ Fired(v) \in BOOLEAN
  BY ZenonT(30) DEF Fired
<1>2. time_plus(lastFire'[v] - 1, period'[v]) = time_plus(lastFire[v] - 1, period[v])
  BY ZenonT(30)
<1> HIDE DEF Fired
<1> QED BY <1>1, <1>2 DEF Spaced, time_plus

LEMMA SpacingStep == IInv /\ SpacingInv /\ [Next]_vars => SpacingInv'
<1> SUFFICES ASSUME IInv, SpacingInv, [Next]_vars, NEW v \in Units PROVE Spaced(v)'
  BY ZenonT(30) DEF SpacingInv
<1>0. Spaced(v)
  BY ZenonT(30) DEF SpacingInv
<1>1. ASSUME NEW c \in Clients, NEW u \in Units, NEW t, NEW k, NEW ms, NEW label,
             NewUnit(c, u, t, k, ms, label)
      PROVE  Spaced(v)'
  <2>1. /\ clock' = clock /\ lastFire' = [lastFire EXCEPT ![u] = 0]
        /\ tvAbsolute' = [tvAbsolute EXCEPT ![u] = t] /\ kind' = [kind EXCEPT ![u] = k]
        /\ period' = [period EXCEPT ![u] = ms] /\ stage' = stage /\ entry' = entry
    BY <1>1, ZenonT(30) DEF NewUnit, pollerVars
  <2>2. CASE v = u
    <3>1. lastFire'[v] = 0 /\ clock' \in Nat
      BY ZenonT(30), <2>1, <2>2, FieldTypes
    <3>2. \A n \in Nat : 0 <= n + 1
      BY SMT, SMTT(30)
    <3> QED BY <3>1, <3>2, ZenonT(30) DEF Spaced
  <2>3. CASE v # u
    <3>1. Fired(v) => Fired(v)'
      BY <2>1, ZenonT(30) DEF Fired
    <3>2. /\ kind'[v] = kind[v] /\ period'[v] = period[v]
          /\ lastFire'[v] = lastFire[v] /\ tvAbsolute'[v] = tvAbsolute[v]
      BY <2>1, <2>3, FieldTypes, ZenonT(30)
    <3> QED BY <1>0, <2>1, <3>1, <3>2, SpacingFrame, ZenonT(30)
  <2> QED BY <2>2, <2>3, ZenonT(30)
<1>2. ASSUME UNCHANGED <<clock, fields, lastFire, entry, stage>> PROVE Spaced(v)'
  <2>1. Fired(v) => Fired(v)'
    BY <1>2, ZenonT(30) DEF Fired
  <2> QED BY <1>0, <1>2, <2>1, SpacingFrame, ZenonT(30) DEF fields
<1>3. ASSUME NEW p \in Pollers, Fire(p) PROVE Spaced(v)'
  <2> DEFINE u == Head(batch[p])
  <2>1. /\ stage[p] = "idle" /\ stage' = [stage EXCEPT ![p] = "fired"]
        /\ entry' = [entry EXCEPT ![p] = u] /\ lastFire' = [lastFire EXCEPT ![u] = clock + 1]
        /\ clock' = clock /\ kind' = kind /\ period' = period /\ tvAbsolute' = tvAbsolute
    BY <1>3, ZenonT(30) DEF Fire, fields
  <2> HIDE DEF u
  <2>2. CASE v = u
    <3>1. Fired(v)'
      BY <2>1, <2>2, PollerTypes, ZenonT(30) DEF Fired
    <3>2. lastFire'[v] = clock' + 1 /\ clock' \in Nat
      BY <2>1, <2>2, FieldTypes
    <3>3. \A n \in Nat : n + 1 <= n + 1
      BY SMT, SMTT(30)
    <3> QED BY <3>1, <3>2, <3>3, ZenonT(30) DEF Spaced
  <2>3. CASE v # u
    <3>1. Fired(v) => Fired(v)'
      BY <2>1, PollerTypes, ZenonT(30) DEF Fired
    <3>2. lastFire'[v] = lastFire[v]
      BY <2>1, <2>3, FieldTypes, ZenonT(30)
    <3> QED BY <1>0, <2>1, <3>1, <3>2, SpacingFrame, ZenonT(30)
  <2> QED BY <2>2, <2>3, ZenonT(30)
<1>4. ASSUME NEW p \in Pollers, Delete(p) \/ Rearm(p) PROVE Spaced(v)'
  <2>1. /\ stage[p] = "fired" => kind[entry[p]] = "timed"
        /\ stage' = [stage EXCEPT ![p] = "idle"] /\ entry' = [entry EXCEPT ![p] = NoUnit]
        /\ UNCHANGED <<clock, kind, period, tvAbsolute, lastFire>>
    BY <1>4, ZenonT(30) DEF Delete, Rearm, fields, history
  <2>2. Fired(v) => Fired(v)' \/ kind[v] # "period"
    BY <2>1, PollerTypes, ZenonT(30) DEF Fired
  <2> QED BY <1>0, <2>1, <2>2, SpacingFrame, ZenonT(30)
<1>5. ASSUME NEW p \in Pollers, Postpone(p) PROVE Spaced(v)'
  <2> DEFINE u == entry[p]
  <2>1. /\ stage' = [stage EXCEPT ![p] = "rearm"] /\ entry' = entry
        /\ tvAbsolute' = [tvAbsolute EXCEPT ![u] = time_plus(clock, period[u])]
        /\ UNCHANGED <<clock, kind, period, lastFire>>
    BY <1>5, ZenonT(30) DEF Postpone, history
  <2> HIDE DEF u
  <2>2. CASE v = u
    <3>1. tvAbsolute'[v] = time_plus(clock, period[v])
      BY <2>1, <2>2, FieldTypes, ZenonT(30)
    <3>2. /\ lastFire[v] \in Nat /\ clock \in Nat /\ period[v] \in Nat
          /\ lastFire[v] <= clock + 1
      BY ZenonT(30), <1>0, FieldTypes DEF Spaced
    <3>3. lastFire[v] - 1 \in Int /\ clock \in Int /\ lastFire[v] - 1 <= clock
      BY SMT, SMTT(30), <3>2
    <3>4. time_plus(lastFire[v] - 1, period[v]) <= tvAbsolute'[v]
      BY <3>1, <3>2, <3>3, PlusMonotone, ZenonT(30)
    <3> QED BY <2>1, <3>2, <3>4, ZenonT(30) DEF Spaced
  <2>3. CASE v # u
    <3>1. Fired(v) => Fired(v)'
      BY <2>1, <2>3, PollerTypes, ZenonT(30) DEF Fired, u
    <3>2. tvAbsolute'[v] = tvAbsolute[v]
      BY <2>1, <2>3, FieldTypes, ZenonT(30)
    <3> QED BY <1>0, <2>1, <3>1, <3>2, SpacingFrame, ZenonT(30)
  <2> QED BY <2>2, <2>3, ZenonT(30)
<1>6. CASE Tick
  <2>1. UNCHANGED <<kind, period, tvAbsolute, lastFire, entry, stage>> /\ clock' = clock + 1
    BY <1>6, ZenonT(30) DEF Tick, fields, pollerVars, history
  <2>2. Fired(v)' <=> Fired(v)
    BY <2>1, ZenonT(30) DEF Fired
  <2>3. lastFire[v] <= clock + 1 /\ lastFire[v] \in Nat /\ clock \in Nat
    BY <1>0, FieldTypes DEF Spaced
  <2>4. lastFire'[v] <= clock' + 1
    BY SMT, SMTT(30), <2>1, <2>3
  <2> QED BY <1>0, <2>1, <2>2, <2>4, ZenonT(30) DEF Spaced
<1>7. ASSUME NEW c \in Clients, Add(c) PROVE Spaced(v)'
  BY <1>1, <1>7, ZenonT(30) DEF Add, addLaterEvent, addPeriodEvent, addAbsTimedEvent
<1>8. ASSUME NEW c \in Clients, FinishAdd(c) \/ \E token \in Tokens : delTimedEvent(c, token)
      PROVE  Spaced(v)'
  BY <1>2, <1>8, ZenonT(30) DEF FinishAdd, Insert, Number, InsertNumbered, Return, delTimedEvent,
     fields, history, pollerVars
<1>9. ASSUME (\E p \in Pollers : Collect(p)) \/ UNCHANGED vars PROVE Spaced(v)'
  BY <1>2, <1>9, ZenonT(30) DEF Collect, vars, fields, history, pollerVars
<1> QED BY <1>3, <1>4, <1>5, <1>6, <1>7, <1>8, <1>9, ZenonT(30) DEF Next, HandleEntry

LEMMA SpacingInvariant == Spec => []SpacingInv
<1>1. Init => SpacingInv
  <2>1. Init => clock = 0 /\ lastFire = [u \in Units |-> 0]
    BY ZenonT(30) DEF Init
  <2> QED BY SMT, SMTT(30), <2>1 DEF SpacingInv, Spaced
<1> QED BY <1>1, SpacingStep, Invariance, PTL DEF Spec

\* Two signals of one period event are at least its period apart, for any number
\* of pollers, however late the first one was and however long its handler ran.
THEOREM PeriodSpacingHolds == Spec => PeriodSpacing
<1> DEFINE A == \A p \in Pollers : ~Handling(p) /\ Handling(p)' =>
                   LET u == entry'[p] IN
                   (kind[u] = "period" /\ lastFire[u] # 0)
                      => time_plus(lastFire[u] - 1, period[u]) <= clock
<1>1. IInv /\ SpacingInv /\ [Next]_vars => [A]_vars
  <2> SUFFICES ASSUME IInv, SpacingInv, Next, NEW p \in Pollers, ~Handling(p), Handling(p)',
                      NEW u, u = entry'[p], kind[u] = "period", lastFire[u] # 0
               PROVE  time_plus(lastFire[u] - 1, period[u]) <= clock
    BY ZenonT(30)
  <2>1. u = batch[p][1] /\ 1 \in DOMAIN batch[p] /\ stage[p] = "idle"
    BY StartsByFire, ZenonT(30) DEF Handling
  <2>2. u \in Units /\ owner[u] = p /\ tvAbsolute[u] <= clock
    <3>1. \A i \in DOMAIN batch[p] : tvAbsolute[batch[p][i]] <= clock
      BY ZenonT(30) DEF IInv, CollectedDue
    <3>2. \A i \in DOMAIN batch[p] : batch[p][i] \in Units /\ owner[batch[p][i]] = p
      BY PollerOwns, ZenonT(30)
    <3> QED BY ONLY <2>1, <3>1, <3>2, ZenonT(30)
  <2>3. ~Fired(u)
    <3> SUFFICES ASSUME NEW q \in Pollers, stage[q] = "fired", entry[q] = u PROVE FALSE
      BY ZenonT(30) DEF Fired
    <3>1. Handling(q)
      BY DEF Handling
    <3>2. owner[u] = q
      BY <3>1, PollerOwns, ZenonT(30)
    <3>3. p = q
      BY <2>2, <3>2, ZenonT(30)
    <3> QED BY <2>1, <3>3
  <2>4. time_plus(lastFire[u] - 1, period[u]) <= tvAbsolute[u]
    BY <2>2, <2>3, ZenonT(30) DEF SpacingInv, Spaced
  <2>5. time_plus(lastFire[u] - 1, period[u]) \in Int /\ tvAbsolute[u] \in Nat /\ clock \in Nat
    BY SMT, SMTT(30), <2>2, FieldTypes DEF time_plus
  <2> QED BY ONLY SMT, SMTT(30), <2>2, <2>4, <2>5
<1> QED
  BY <1>1, Invariance, SpacingInvariant, PTL DEF Spec, PeriodSpacing

-----------------------------------------------------------------------------
(***************************************************************************)
(* Discarding, for any number of threads and before the ids wrap around:   *)
(* each unit that is allocated and has its number has one of its own among *)
(* those issued so far, so that a numbered entry delTimedEvent takes is    *)
(* the one it was asked for.  The ids issued are the adds less those that  *)
(* have yet to take one, a finite set of threads.                          *)
(***************************************************************************)
Adding(c) == pc[c] \in {"insert", "number", "insertNumbered"}
Pending == {c \in Clients : Adding(c)}
Issued == adds - Cardinality(Pending)
Known(u) == owner[u] # Free /\ Numbered(u)

\* Each add that is not numbered yet is one of those counted.
CountInv == IsFiniteSet(Pending) /\ Cardinality(Pending) <= adds

\* What the ids are, and that only a period event is armed again.
IdInv ==
    /\ CountInv
    /\ \A c \in Clients : pc[c] = "idle" => unit[c] = NoUnit
    /\ listToken = (Issued + 1) % TokenMod
    /\ \A u \in Units : Known(u) => idToken[u] \in 1 .. Issued
    /\ \A u, v \in Units : Known(u) /\ Known(v) /\ idToken[u] = idToken[v] => u = v
    /\ \A p \in Pollers : stage[p] = "rearm" => kind[entry[p]] = "period"

LEMMA IdTypes ==
    ASSUME IInv
    PROVE  /\ pc \in [Clients -> {"idle", "insert", "number", "insertNumbered", "return"}]
           /\ unit \in [Clients -> Units \cup {NoUnit}]
           /\ idToken \in [Units -> Tokens] /\ listToken \in Tokens /\ adds \in Nat /\ adds <= MaxAdds
           /\ owner \in [Units -> {Free, Listed} \cup Clients \cup Pollers]
           /\ stage \in [Pollers -> {"idle", "fired", "rearm"}]
           /\ entry \in [Pollers -> Units \cup {NoUnit}]
<1>1. adds \in 0 .. MaxAdds
  BY ZenonT(30) DEF IInv, TypeOK
<1>2. adds \in Nat /\ adds <= MaxAdds
  BY SMT, SMTT(30), <1>1
<1> QED BY <1>2, ZenonT(30) DEF IInv, TypeOK

\* A thread that begins an add joins those that wait for an id, and no id is issued.
LEMMA CountBegin ==
    ASSUME IInv, CountInv, NEW c \in Clients, ~Adding(c), Adding(c)', adds' = adds + 1,
           \A d \in Clients : d # c => pc'[d] = pc[d]
    PROVE  CountInv' /\ Issued' = Issued
<1>1. Pending' = Pending \cup {c} /\ c \notin Pending
  <2>1. \A d \in Clients : d # c => (Adding(d)' <=> Adding(d))
    BY ZenonT(30) DEF Adding
  <2> HIDE DEF Adding
  <2> QED BY <2>1, ZenonT(30) DEF Pending
<1>2. IsFiniteSet(Pending) /\ Cardinality(Pending) \in Nat /\ Cardinality(Pending) <= adds
  BY FS_CardinalityType, ZenonT(30) DEF CountInv
<1>3. IsFiniteSet(Pending') /\ Cardinality(Pending') = Cardinality(Pending) + 1
  <2> DEFINE S == Pending
  <2>1. IsFiniteSet(S \cup {c}) /\ Cardinality(S \cup {c}) = Cardinality(S) + 1
    <3> HIDE DEF S
    <3>1. IsFiniteSet(S) /\ c \notin S
      BY <1>1, <1>2 DEF S
    <3> QED BY ONLY <3>1, FS_AddElement, ZenonT(30)
  <2> QED BY <1>1, <2>1, ZenonT(30)
<1>4. adds \in Nat
  BY IdTypes, ZenonT(30)
<1> HIDE DEF Pending
<1>5. Issued' = Issued /\ Cardinality(Pending') <= adds'
  BY ONLY SMT, SMTT(30), <1>2, <1>3, <1>4, adds' = adds + 1 DEF Issued
<1> QED BY <1>3, <1>5, ZenonT(30) DEF CountInv

\* A thread that takes an id leaves them, and one more id is issued.
LEMMA CountTake ==
    ASSUME IInv, CountInv, NEW c \in Clients, Adding(c), ~Adding(c)', adds' = adds,
           \A d \in Clients : d # c => pc'[d] = pc[d]
    PROVE  CountInv' /\ Issued \in Nat /\ Issued' = Issued + 1 /\ Issued + 1 <= adds
<1>1. Pending' = Pending \ {c} /\ c \in Pending
  <2>1. \A d \in Clients : d # c => (Adding(d)' <=> Adding(d))
    BY ZenonT(30) DEF Adding
  <2> HIDE DEF Adding
  <2> QED BY <2>1, ZenonT(30) DEF Pending
<1>2. IsFiniteSet(Pending) /\ Cardinality(Pending) \in Nat /\ Cardinality(Pending) <= adds
  BY FS_CardinalityType, ZenonT(30) DEF CountInv
<1>3. /\ IsFiniteSet(Pending') /\ Cardinality(Pending') = Cardinality(Pending) - 1
      /\ Cardinality(Pending) # 0
  <2> DEFINE S == Pending
  <2>1. /\ IsFiniteSet(S \ {c}) /\ Cardinality(S \ {c}) = Cardinality(S) - 1
        /\ Cardinality(S) # 0
    <3> HIDE DEF S
    <3>1. IsFiniteSet(S) /\ c \in S
      BY <1>1, <1>2 DEF S
    <3>2. S # {}
      BY ONLY <3>1
    <3> QED BY ONLY <3>1, <3>2, FS_RemoveElement, FS_EmptySet, ZenonT(30)
  <2> QED BY <1>1, <2>1, ZenonT(30)
<1>4. adds \in Nat
  BY IdTypes, ZenonT(30)
<1>5. /\ adds - (Cardinality(Pending) - 1) = adds - Cardinality(Pending) + 1
      /\ Cardinality(Pending) - 1 <= adds /\ adds - Cardinality(Pending) \in Nat
      /\ adds - Cardinality(Pending) + 1 <= adds
  BY ONLY SMT, SMTT(30), <1>2, <1>3, <1>4
<1> HIDE DEF Pending
<1> QED BY <1>3, <1>5, ZenonT(30) DEF Issued, CountInv

LEMMA CountFrame ==
    ASSUME CountInv, \A d \in Clients : Adding(d)' <=> Adding(d), adds' = adds
    PROVE  CountInv' /\ Issued' = Issued
<1>1. Pending' = Pending
  BY ZenonT(30) DEF Pending
<1> HIDE DEF Pending
<1> QED BY <1>1, ZenonT(30) DEF Issued, CountInv

\* The pollers and delTimedEvent write no id and start or finish no add.
LEMMA IdFrame ==
    ASSUME IdInv, UNCHANGED <<pc, unit, adds, listToken, idToken>>,
           \A u \in Units : owner[u] = Free => owner'[u] = Free,
           \A p \in Pollers : stage'[p] = "rearm" => kind'[entry'[p]] = "period"
    PROVE  IdInv'
<1>1. \A u \in Units : Known(u)' => Known(u)
  BY ZenonT(30) DEF Known, Numbered
<1>2. CountInv' /\ Issued' = Issued
  <2>1. \A d \in Clients : Adding(d)' <=> Adding(d)
    BY ZenonT(30) DEF Adding
  <2> HIDE DEF Adding
  <2> QED BY <2>1, CountFrame, ZenonT(30) DEF IdInv
<1> HIDE DEF CountInv, Issued, Known
<1> QED BY <1>1, <1>2, ZenonT(30) DEF IdInv

\* The unit of a new add has no number yet; the others keep theirs.
LEMMA NewUnitIds ==
    ASSUME NEW c \in Clients, IInv, IdInv, DiscardedTimedGone,
           NEW u \in Units, NEW t, NEW k, NEW ms, NEW label \in {"insert", "insertNumbered"},
           NewUnit(c, u, t, k, ms, label)
    PROVE  IdInv' /\ DiscardedTimedGone'
<1>1. /\ pc[c] = "idle" /\ owner[u] = Free /\ owner' = [owner EXCEPT ![u] = c]
      /\ kind' = [kind EXCEPT ![u] = k] /\ unit' = [unit EXCEPT ![c] = u]
      /\ pc' = [pc EXCEPT ![c] = label] /\ adds' = adds + 1
      /\ UNCHANGED <<mList, listToken, stage, entry, discarded>>
      /\ \E garbage : idToken' = [idToken EXCEPT ![u] = garbage]
  BY ZenonT(30) DEF NewUnit, pollerVars
<1>2. /\ unit[c] = NoUnit /\ unit'[c] = u /\ pc'[c] = label /\ unit[c] \notin Units
      /\ \A d \in Clients : d # c => pc'[d] = pc[d] /\ unit'[d] = unit[d]
  BY <1>1, IdTypes, ZenonT(30) DEF IdInv
<1>3. \A v \in Units : v # u => /\ Numbered(v)' => Numbered(v)
                                /\ idToken'[v] = idToken[v] /\ kind'[v] = kind[v]
                                /\ owner'[v] = owner[v]
  <2> SUFFICES ASSUME NEW v \in Units, v # u
               PROVE  /\ Numbered(v)' => Numbered(v)
                      /\ idToken'[v] = idToken[v] /\ kind'[v] = kind[v]
                      /\ owner'[v] = owner[v]
    BY ZenonT(30)
  <2>1. Numbered(v)' => Numbered(v)
    BY <1>2, ZenonT(30) DEF Numbered
  <2> QED BY <1>1, <2>1, IdTypes, FieldTypes, ZenonT(30)
<1>4. ~Numbered(u)'
  <2>1. pc'[c] # "return"
    BY <1>2
  <2> QED BY <1>2, <2>1, ZenonT(30) DEF Numbered
<1>5. \A v \in Units : Known(v)' => Known(v) /\ idToken'[v] = idToken[v]
  BY <1>3, <1>4, ZenonT(30) DEF Known
<1>6. CountInv' /\ Issued' = Issued
  <2>1. Adding(c)' /\ ~Adding(c)
    BY <1>1, <1>2 DEF Adding
  <2> HIDE DEF Adding
  <2> QED BY <1>1, <1>2, <2>1, CountBegin, ZenonT(30) DEF IdInv
<1>7. \A d \in Clients : pc'[d] = "idle" => unit'[d] = NoUnit
  <2>1. pc'[c] # "idle"
    BY <1>2
  <2> QED BY <1>2, <2>1, ZenonT(30) DEF IdInv
<1>8. ASSUME NEW p \in Pollers, stage'[p] = "rearm" PROVE kind'[entry'[p]] = "period"
  <2>1. stage[p] = "rearm" /\ Handling(p)
    BY <1>1, <1>8 DEF Handling
  <2>2. entry[p] \in Units /\ owner[entry[p]] = p
    BY <2>1, PollerOwns, ZenonT(30)
  <2>3. entry[p] # u
    BY <1>1, <2>2
  <2> QED BY <1>1, <1>3, <2>1, <2>2, <2>3, ZenonT(30) DEF IdInv
<1>9. IdInv'
  <2> HIDE DEF CountInv, Issued, Known
  <2> QED BY <1>1, <1>5, <1>6, <1>7, <1>8, ZenonT(30) DEF IdInv
<1>10. DiscardedTimedGone'
  <2> SUFFICES ASSUME NEW i \in DOMAIN mList, kind'[mList[i]] = "timed", Numbered(mList[i])'
               PROVE  idToken'[mList[i]] \notin discarded
    BY <1>1, ZenonT(30) DEF DiscardedTimedGone
  <2>1. mList[i] \in Units /\ mList[i] # u
    BY <1>1, ListOwned
  <2>2. PICK v \in Units : v = mList[i]
    BY <2>1, ZenonT(30)
  <2>3. Numbered(v) /\ idToken'[v] = idToken[v] /\ kind'[v] = kind[v]
    <3>1. mList' = mList
      BY <1>1, ZenonT(30)
    <3>2. Numbered(v)'
      BY <2>2, <3>1, ZenonT(30) DEF Numbered
    <3> QED BY <1>3, <2>1, <2>2, <3>2, ZenonT(30)
  <2> QED BY <2>2, <2>3, ZenonT(30) DEF DiscardedTimedGone
<1> QED BY <1>9, <1>10

LEMMA TokenBelow ==
    ASSUME NEW n \in Nat, n < TokenMod PROVE n % TokenMod = n
  BY SMT, SMTT(30)

\* An add receives the number after the last one issued, which nobody else has,
\* though the unit it is written to may be another thread's by now.
LEMMA NumberIds ==
    ASSUME NEW c \in Clients, MaxAdds < TokenMod, IInv, IdInv, DiscardedTimedGone,
           Number(c) \/ InsertNumbered(c)
    PROVE  IdInv' /\ DiscardedTimedGone'
<1> DEFINE u == unit[c]
           n == Issued + 1
<1>1. /\ pc' = [pc EXCEPT ![c] = "return"] /\ idToken' = [idToken EXCEPT ![u] = listToken]
      /\ listToken' = NextToken /\ discarded' = discarded \ {listToken}
      /\ UNCHANGED <<unit, adds, kind, stage, entry>>
  BY ZenonT(30) DEF Number, InsertNumbered, fields, pollerVars
<1>2. Adding(c) /\ pc[c] # "idle"
  BY ZenonT(30) DEF Number, InsertNumbered, Adding
<1>3. /\ u \in Units /\ pc'[c] = "return" /\ ~Adding(c)'
      /\ \A d \in Clients : d # c => pc'[d] = pc[d]
  <2>1. pc'[c] = "return" /\ \A d \in Clients : d # c => pc'[d] = pc[d]
    BY <1>1, IdTypes, ZenonT(30)
  <2> QED BY <1>2, <2>1 DEF IInv, UnitKnown, Adding
<1>4. CountInv' /\ Issued \in Nat /\ Issued' = n /\ n <= adds
  <2> HIDE DEF Adding, CountInv, Issued
  <2> QED BY <1>1, <1>2, <1>3, CountTake, ZenonT(30) DEF IdInv
<1> HIDE DEF u, Issued
<1>5. n \in Nat /\ n < TokenMod
  <2>1. adds \in Nat /\ adds <= MaxAdds
    BY IdTypes, ZenonT(30)
  <2> QED BY SMT, SMTT(30), <1>4, <2>1, MaxAdds < TokenMod
<1>6. listToken = n /\ listToken' = (Issued' + 1) % TokenMod
  <2>1. listToken = n % TokenMod
    BY ZenonT(30) DEF IdInv
  <2>2. n % TokenMod = n
    BY ONLY <1>5, TokenBelow, ZenonT(30)
  <2> QED BY <1>1, <1>4, <2>1, <2>2, ZenonT(30) DEF NextToken
<1>7. idToken'[u] = n /\ \A v \in Units : v # u => idToken'[v] = idToken[v]
  BY <1>1, <1>3, <1>6, IdTypes, ZenonT(30)
<1>8. \A v \in Units : owner[v] = Free => owner'[v] = Free \/ v = u
  BY <1>3, IdTypes, ZenonT(30) DEF Number, InsertNumbered, addEventInternal, u
<1>9. \A v \in Units : v # u /\ Numbered(v)' => Numbered(v)
  BY <1>1, <1>3, ZenonT(30) DEF Numbered, u
<1>10. \A v \in Units : v # u /\ Known(v)' => Known(v)
  BY <1>8, <1>9, ZenonT(30) DEF Known
<1> HIDE DEF Known
<1>11. \A v \in Units : v # u /\ Known(v)' => idToken[v] \in 1 .. Issued
  BY <1>10, ZenonT(30) DEF IdInv
<1>12. \A v \in Units : Known(v)' => idToken'[v] \in 1 .. n
  BY ONLY SMT, SMTT(30), <1>4, <1>7, <1>11
<1>13. \A v \in Units : v # u /\ Known(v)' => idToken'[v] # n
  BY ONLY SMT, SMTT(30), <1>4, <1>7, <1>11
<1> HIDE DEF n
<1>14. \A v, w \in Units : Known(v)' /\ Known(w)' /\ idToken'[v] = idToken'[w] => v = w
  <2> SUFFICES ASSUME NEW v \in Units, NEW w \in Units, Known(v)', Known(w)',
                      idToken'[v] = idToken'[w], v # w
               PROVE  FALSE
    BY ZenonT(30)
  <2>1. v # u /\ w # u
    BY <1>7, <1>13, ZenonT(30)
  <2>2. Known(v) /\ Known(w)
    BY <1>10, <2>1, ZenonT(30)
  <2> QED BY <1>7, <2>1, <2>2, ZenonT(30) DEF IdInv
<1>15. IdInv'
  <2>1. \A d \in Clients : pc'[d] = "idle" => unit'[d] = NoUnit
    <3>1. pc'[c] # "idle"
      BY <1>3
    <3> QED BY <1>1, <1>3, <3>1, ZenonT(30) DEF IdInv
  <2>2. \A p \in Pollers : stage'[p] = "rearm" => kind'[entry'[p]] = "period"
    BY <1>1, ZenonT(30) DEF IdInv
  <2> HIDE DEF CountInv
  <2> QED BY <1>4, <1>6, <1>12, <1>14, <2>1, <2>2, ZenonT(30) DEF IdInv
<1>16. DiscardedTimedGone'
  <2>1. ASSUME NEW v \in Units, v # u, NEW i \in DOMAIN mList, mList[i] = v, kind'[v] = "timed",
               Numbered(v)'
        PROVE  idToken'[v] \notin discarded'
    <3>1. idToken[v] \notin discarded /\ idToken'[v] = idToken[v]
      BY <1>1, <1>7, <1>9, <2>1, ZenonT(30) DEF DiscardedTimedGone
    <3>2. discarded' = discarded \ {listToken}
      BY <1>1, ZenonT(30)
    <3> QED BY ONLY <3>1, <3>2
  <2>2. idToken'[u] \notin discarded'
    <3>1. idToken'[u] = listToken /\ discarded' = discarded \ {listToken}
      BY <1>1, <1>6, <1>7, ZenonT(30)
    <3> QED BY ONLY <3>1
  <2>3. \A i \in DOMAIN mList' : \/ mList'[i] = u
                                 \/ \E j \in DOMAIN mList : mList'[i] = mList[j]
    <3>1. CASE Number(c)
      BY <3>1, ZenonT(30) DEF Number
    <3>2. CASE InsertNumbered(c)
      <4>1. Holding(c) /\ addEventInternal(u) /\ tvAbsolute' = tvAbsolute
        BY ZenonT(30), <3>2 DEF InsertNumbered, Holding, fields, u
      <4>2. owner[u] = c /\ owner[u] # Listed
        BY <4>1, ClientOwns DEF u
      <4> QED BY <1>3, <4>1, <4>2, AddEventFacts, ZenonT(30)
    <3> QED BY <3>1, <3>2, ZenonT(30)
  <2> SUFFICES ASSUME NEW i \in DOMAIN mList', kind'[mList'[i]] = "timed",
                      \A d \in Clients : unit'[d] = mList'[i] => pc'[d] = "return"
               PROVE  idToken'[mList'[i]] \notin discarded'
    BY ZenonT(30) DEF DiscardedTimedGone, Numbered
  <2>4. CASE mList'[i] = u
    BY <2>2, <2>4, ZenonT(30)
  <2>5. CASE mList'[i] # u
    <3>1. PICK j \in DOMAIN mList : mList'[i] = mList[j]
      BY <2>3, <2>5, ZenonT(30)
    <3>2. PICK v \in Units : v = mList[j]
      BY ListOwned, ZenonT(30)
    <3>3. Numbered(v)'
      BY <3>1, <3>2, ZenonT(30) DEF Numbered
    <3> QED BY <2>1, <2>5, <3>1, <3>2, <3>3, ZenonT(30)
  <2> QED BY <2>4, <2>5
<1> QED BY <1>15, <1>16

LEMMA OtherAddIds ==
    ASSUME NEW c \in Clients, IInv, IdInv, DiscardedTimedGone, Insert(c) \/ Return(c)
    PROVE  IdInv' /\ DiscardedTimedGone'
<1>1. UNCHANGED <<adds, listToken, idToken, kind, stage, entry, discarded>>
  BY ZenonT(30) DEF Insert, Return, fields, history, pollerVars
<1>2. \A v \in Units : owner[v] = Free => owner'[v] = Free
  <2>1. CASE Insert(c)
    <3>1. unit[c] \in Units /\ owner[unit[c]] = c /\ owner' = [owner EXCEPT ![unit[c]] = Listed]
      BY ZenonT(30), <2>1, ClientOwns DEF Insert, Holding, addEventInternal
    <3>2. owner[unit[c]] # Free
      BY <3>1
    <3> QED BY <3>1, <3>2, IdTypes, ZenonT(30)
  <2>2. CASE Return(c)
    BY <2>2, ZenonT(30) DEF Return
  <2> QED BY <2>1, <2>2, ZenonT(30)
<1>3. \A d \in Clients : d # c => pc'[d] = pc[d] /\ unit'[d] = unit[d]
  BY IdTypes, ZenonT(30) DEF Insert, Return
<1>4. CountInv' /\ Issued' = Issued
  <2>1. Adding(c)' <=> Adding(c)
    BY IdTypes DEF Insert, Return, Adding
  <2>2. \A d \in Clients : d # c => (Adding(d)' <=> Adding(d))
    BY <1>3, ZenonT(30) DEF Adding
  <2> HIDE DEF Adding, CountInv, Issued
  <2> QED BY <1>1, <2>1, <2>2, CountFrame, ZenonT(30) DEF IdInv
<1>5. \A v \in Units : Numbered(v)' => Numbered(v)
  <2>1. CASE Insert(c)
    <3>1. unit' = unit /\ pc'[c] # "return"
      BY <2>1, IdTypes DEF Insert
    <3> QED BY <1>3, <3>1, ZenonT(30) DEF Numbered
  <2>2. CASE Return(c)
    <3>1. pc[c] = "return"
      BY <2>2, ZenonT(30) DEF Return
    <3> QED BY <1>3, <3>1, ZenonT(30) DEF Numbered
  <2> QED BY <2>1, <2>2, ZenonT(30)
<1>6. \A v \in Units : Known(v)' => Known(v)
  BY <1>2, <1>5, ZenonT(30) DEF Known
<1>7. \A d \in Clients : pc'[d] = "idle" => unit'[d] = NoUnit
  <2>1. pc'[c] = "idle" => unit'[c] = NoUnit
    BY IdTypes DEF Insert, Return
  <2> QED BY <1>3, <2>1, ZenonT(30) DEF IdInv
<1>8. IdInv'
  <2>1. \A p \in Pollers : stage'[p] = "rearm" => kind'[entry'[p]] = "period"
    BY <1>1, ZenonT(30) DEF IdInv
  <2> HIDE DEF CountInv, Issued, Known
  <2> QED BY <1>1, <1>4, <1>6, <1>7, <2>1, ZenonT(30) DEF IdInv
<1>9. \A i \in DOMAIN mList' : \/ \E d \in Clients : unit'[d] = mList'[i] /\ pc'[d] # "return"
                               \/ \E j \in DOMAIN mList : mList'[i] = mList[j]
  <2>1. CASE Insert(c)
    <3>1. Holding(c) /\ addEventInternal(unit[c]) /\ tvAbsolute' = tvAbsolute
      <4>1. pc[c] = "insert" /\ addEventInternal(unit[c]) /\ UNCHANGED fields
        BY <2>1, ZenonT(30) DEF Insert
      <4>2. Holding(c)
        BY ONLY <4>1 DEF Holding
      <4>3. tvAbsolute' = tvAbsolute
        BY ONLY ZenonT(30), <4>1 DEF fields
      <4> QED BY <4>1, <4>2, <4>3, ZenonT(30)
    <3>2. unit[c] \in Units /\ owner[unit[c]] = c /\ owner[unit[c]] # Listed
      BY <3>1, ClientOwns
    <3>3. unit' = unit /\ pc'[c] # "return"
      BY <2>1, IdTypes DEF Insert
    <3>4. \A i \in DOMAIN mList' : \/ mList'[i] = unit[c]
                                   \/ \E j \in DOMAIN mList : mList'[i] = mList[j]
      BY <3>1, <3>2, AddEventFacts, ZenonT(30)
    <3> QED BY <3>3, <3>4, ZenonT(30)
  <2>2. CASE Return(c)
    BY <2>2, ZenonT(30) DEF Return
  <2> QED BY <2>1, <2>2, ZenonT(30)
<1>10. DiscardedTimedGone'
  <2> SUFFICES ASSUME NEW i \in DOMAIN mList', kind'[mList'[i]] = "timed",
                      \A d \in Clients : unit'[d] = mList'[i] => pc'[d] = "return"
               PROVE  idToken'[mList'[i]] \notin discarded'
    BY ZenonT(30) DEF DiscardedTimedGone, Numbered
  <2>1. PICK j \in DOMAIN mList : mList'[i] = mList[j]
    BY <1>9, ZenonT(30)
  <2>2. PICK v \in Units : v = mList[j]
    BY ListOwned, ZenonT(30)
  <2>3. Numbered(v)
    <3>1. Numbered(v)'
      BY <2>1, <2>2, ZenonT(30) DEF Numbered
    <3> QED BY <1>5, <3>1, ZenonT(30)
  <2>4. idToken[mList[j]] \notin discarded
    BY <1>1, <2>1, <2>2, <2>3, ZenonT(30) DEF DiscardedTimedGone
  <2> QED BY <1>1, <2>1, <2>4, ZenonT(30)
<1> QED BY <1>8, <1>10

\* If the entry delTimedEvent unlinks is numbered it is the only one with this id;
\* if it is not, nothing is claimed of the id.
LEMMA DelIds ==
    ASSUME NEW c \in Clients, IInv, IdInv, DiscardedTimedGone,
           NEW token \in Tokens, delTimedEvent(c, token)
    PROVE  IdInv' /\ DiscardedTimedGone'
<1>1. UNCHANGED <<pc, unit, adds, listToken, idToken, kind, stage, entry>>
  BY ZenonT(30) DEF delTimedEvent, fields, pollerVars
<1>2. IInv'
  BY DelStep, ZenonT(30)
<1>3. \A u \in Units : owner[u] = Free => owner'[u] = Free
  BY IdTypes, ZenonT(30) DEF delTimedEvent
<1>4. IdInv'
  <2>1. \A p \in Pollers : stage'[p] = "rearm" => kind'[entry'[p]] = "period"
    BY <1>1, ZenonT(30) DEF IdInv
  <2> QED BY <1>1, <1>3, <2>1, IdFrame, ZenonT(30)
<1>5. mList \in Seq(Units) /\ DOMAIN mList = 1 .. Len(mList)
  <2>1. mList \in Seq(Units)
    BY ZenonT(30), ListOwned
  <2> QED BY ONLY SMT, SMTT(30), <2>1
<1>6. \A k \in DOMAIN mList' : mList'[k] \in Units /\ owner'[mList'[k]] = Listed
  <2>1. mList' \in Seq(Units) /\ \A k \in DOMAIN mList' : owner'[mList'[k]] = Listed
    BY <1>2, ZenonT(30) DEF IInv, TypeOK, Ownership
  <2> QED BY ONLY SMT, SMTT(30), <2>1
<1>7. \A k \in DOMAIN mList' : \E j \in DOMAIN mList : mList'[k] = mList[j]
  <2>1. CASE mList' = mList
    BY <2>1, ZenonT(30)
  <2>2. ASSUME NEW i \in 1 .. Len(mList), mList' = RemoveAt(mList, i)
        PROVE  \A k \in DOMAIN mList' : \E j \in DOMAIN mList : mList'[k] = mList[j]
    <3>1. /\ RemoveAt(mList, i) \in Seq(Units) /\ Len(RemoveAt(mList, i)) = Len(mList) - 1
          /\ \A k \in 1 .. i - 1 : RemoveAt(mList, i)[k] = mList[k]
          /\ \A k \in i .. Len(mList) - 1 : RemoveAt(mList, i)[k] = mList[k + 1]
      BY ONLY <1>5, i \in 1 .. Len(mList), UnitRemove, ZenonT(30)
    <3>2. DOMAIN mList' = 1 .. Len(mList) - 1
      BY SMT, SMTT(30), <2>2, <1>5, <3>1
    <3> SUFFICES ASSUME NEW k \in 1 .. Len(mList) - 1
                 PROVE  \E j \in DOMAIN mList : mList'[k] = mList[j]
      BY <3>2, ZenonT(30)
    <3>3. k \in DOMAIN mList /\ k + 1 \in DOMAIN mList /\ (k \in 1 .. i - 1 \/ k \in i .. Len(mList) - 1)
      BY SMT, SMTT(30), <1>5
    <3> QED BY <2>2, <3>1, <3>3, ZenonT(30)
  <2> QED BY <2>1, <2>2, ZenonT(30) DEF delTimedEvent
<1>8. \/ discarded' = discarded
      \/ /\ discarded' = discarded \cup {token}
         /\ \A k \in DOMAIN mList' : Numbered(mList'[k]) => idToken[mList'[k]] # token
  <2>1. CASE /\ \A i \in 1 .. Len(mList) : idToken[mList[i]] # token
             /\ discarded' = discarded \cup {token}
    BY <1>5, <1>7, <2>1, ZenonT(30)
  <2>2. ASSUME NEW i \in 1 .. Len(mList), idToken[mList[i]] = token, Numbered(mList[i]),
               owner' = [owner EXCEPT ![mList[i]] = Free], NEW k \in DOMAIN mList',
               Numbered(mList'[k])
        PROVE  idToken[mList'[k]] # token
    <3>1. mList[i] \in Units /\ owner[mList[i]] = Listed
      BY SMT, SMTT(30), ListOwned
    <3>2. owner'[mList[i]] = Free
      BY <2>2, <3>1, IdTypes, ZenonT(30)
    <3>3. mList'[k] # mList[i]
      BY <1>6, <3>2, Free # Listed, ZenonT(30)
    <3>4. owner[mList'[k]] = Listed
      BY <1>7, ListOwned, ZenonT(30)
    <3>5. Known(mList[i]) /\ Known(mList'[k])
      BY <2>2, <3>1, <3>4, Free # Listed, ZenonT(30) DEF Known
    <3> QED BY <1>6, <2>2, <3>1, <3>3, <3>5, ZenonT(30) DEF IdInv
  <2>3. ASSUME NEW i \in 1 .. Len(mList), idToken[mList[i]] = token,
               owner' = [owner EXCEPT ![mList[i]] = Free], Discard(token, mList[i])
        PROVE  \/ discarded' = discarded
               \/ /\ discarded' = discarded \cup {token}
                  /\ \A k \in DOMAIN mList' : Numbered(mList'[k]) => idToken[mList'[k]] # token
    <3>1. CASE Numbered(mList[i])
      <4>1. discarded' = discarded \cup {token}
        BY <2>3, <3>1, ZenonT(30) DEF Discard
      <4>2. \A k \in DOMAIN mList' : Numbered(mList'[k]) => idToken[mList'[k]] # token
        BY <2>2, <2>3, <3>1, ZenonT(30)
      <4> QED BY <4>1, <4>2, ZenonT(30)
    <3>2. CASE ~Numbered(mList[i])
      BY <2>3, <3>2, ZenonT(30) DEF Discard
    <3> QED BY <3>1, <3>2
  <2> QED BY <2>1, <2>3, ZenonT(30) DEF delTimedEvent
<1>9. DiscardedTimedGone'
  <2> SUFFICES ASSUME NEW k \in DOMAIN mList', kind'[mList'[k]] = "timed",
                      \A d \in Clients : unit'[d] = mList'[k] => pc'[d] = "return"
               PROVE  idToken'[mList'[k]] \notin discarded'
    BY ZenonT(30) DEF DiscardedTimedGone, Numbered
  <2>1. Numbered(mList'[k])
    BY <1>1, ZenonT(30) DEF Numbered
  <2>2. idToken[mList'[k]] \notin discarded
    BY <1>1, <1>7, <2>1, ZenonT(30) DEF DiscardedTimedGone
  <2>3. idToken' = idToken
    BY <1>1, ZenonT(30)
  <2>4. CASE discarded' = discarded
    BY ONLY <2>2, <2>3, <2>4, ZenonT(30)
  <2>5. CASE discarded' = discarded \cup {token} /\ idToken[mList'[k]] # token
    BY ONLY <2>2, <2>3, <2>5
  <2> QED BY <1>8, <2>1, <2>4, <2>5, ZenonT(30)
<1> QED BY <1>4, <1>9

\* The pollers move entries, and put back none but those of period events.
LEMMA PollerIds ==
    ASSUME IInv, IdInv, DiscardedTimedGone, NEW p \in Pollers,
           Collect(p) \/ HandleEntry(p)
    PROVE  IdInv' /\ DiscardedTimedGone'
<1>1. UNCHANGED <<pc, unit, adds, listToken, idToken, kind, discarded>>
  BY ZenonT(30) DEF Collect, HandleEntry, Fire, Delete, Postpone, Rearm, clientVars, fields, history
<1>2. \A u \in Units : owner[u] = Free => owner'[u] = Free
  <2>1. CASE Collect(p)
    <3>1. PICK n \in 1 .. Len(mList) :
             owner' = [u \in Units |-> IF \E k \in 1 .. n : mList[k] = u THEN p ELSE owner[u]]
      BY <2>1, ZenonT(30) DEF Collect
    <3>2. \A k \in 1 .. n : owner[mList[k]] # Free
      BY SMT, SMTT(30), ListOwned, Free # Listed
    <3> QED BY <3>1, <3>2, ZenonT(30)
  <2>2. CASE Fire(p) \/ Postpone(p)
    BY <2>2, ZenonT(30) DEF Fire, Postpone
  <2>3. CASE Delete(p)
    BY <2>3, IdTypes, ZenonT(30) DEF Delete
  <2>4. CASE Rearm(p)
    <3>1. /\ entry[p] \in Units /\ owner[entry[p]] = p
          /\ owner' = [owner EXCEPT ![entry[p]] = Listed]
      <4>1. /\ stage[p] = "rearm" /\ owner' = [owner EXCEPT ![entry[p]] = Listed]
        BY <2>4, ZenonT(30) DEF Rearm, addEventInternal
      <4>2. Handling(p)
        BY ONLY <4>1 DEF Handling
      <4>3. entry[p] \in Units /\ owner[entry[p]] = p
        BY <4>2, PollerOwns, ZenonT(30)
      <4> QED BY <4>1, <4>3, ZenonT(30)
    <3>2. owner[entry[p]] # Free
      BY <3>1
    <3> QED BY <3>1, <3>2, IdTypes, ZenonT(30)
  <2> QED BY <2>1, <2>2, <2>3, <2>4, ZenonT(30) DEF HandleEntry
<1>3. \A q \in Pollers : stage'[q] = "rearm" => kind'[entry'[q]] = "period"
  <2>1. CASE Collect(p)
    BY <1>1, <2>1, ZenonT(30) DEF Collect, IdInv
  <2>2. CASE Postpone(p)
    BY <1>1, <2>2, IdTypes, ZenonT(30) DEF Postpone, IdInv
  <2>3. CASE Fire(p) \/ Delete(p) \/ Rearm(p)
    <3>1. ASSUME NEW q \in Pollers, stage'[q] = "rearm"
          PROVE  stage[q] = "rearm" /\ entry'[q] = entry[q]
      BY ZenonT(30), <2>3, <3>1, IdTypes DEF Fire, Delete, Rearm
    <3> QED BY <1>1, <3>1, ZenonT(30) DEF IdInv
  <2> QED BY <2>1, <2>2, <2>3, ZenonT(30) DEF HandleEntry
<1>4. IdInv'
  BY <1>1, <1>2, <1>3, IdFrame, ZenonT(30)
<1>5. \A k \in DOMAIN mList' : \/ kind[mList'[k]] = "period"
                               \/ \E j \in DOMAIN mList : mList'[k] = mList[j]
  <2>1. CASE Collect(p)
    <3>1. PICK n \in 1 .. Len(mList) : mList' = SubSeq(mList, n + 1, Len(mList))
      BY <2>1, ZenonT(30) DEF Collect
    <3>2. mList \in Seq(Units) /\ n \in 0 .. Len(mList)
      BY SMT, SMTT(30), ListOwned
    <3>3. /\ SubSeq(mList, n + 1, Len(mList)) \in Seq(Units)
          /\ Len(SubSeq(mList, n + 1, Len(mList))) = Len(mList) - n
          /\ \A k \in 1 .. Len(mList) - n : SubSeq(mList, n + 1, Len(mList))[k] = mList[n + k]
      BY ONLY ZenonT(30), <3>2, UnitCut
    <3>4. \A s \in Seq(Units) : DOMAIN s = 1 .. Len(s)
      BY SMT, SMTT(30)
    <3>5. \A k \in 1 .. Len(mList) - n : n + k \in 1 .. Len(mList)
      BY SMT, SMTT(30), <3>2
    <3> QED BY <3>1, <3>2, <3>3, <3>4, <3>5, ZenonT(30)
  <2>2. CASE Fire(p) \/ Postpone(p) \/ Delete(p)
    BY <2>2, ZenonT(30) DEF Fire, Postpone, Delete
  <2>3. CASE Rearm(p)
    <3>1. stage[p] = "rearm" /\ addEventInternal(entry[p]) /\ tvAbsolute' = tvAbsolute
      BY <2>3, ZenonT(30) DEF Rearm, fields
    <3>2. entry[p] \in Units /\ owner[entry[p]] = p /\ owner[entry[p]] # Listed
      BY SMT, SMTT(30), <3>1, PollerOwns DEF Handling
    <3>3. kind[entry[p]] = "period"
      BY <3>1, ZenonT(30) DEF IdInv
    <3>4. \A k \in DOMAIN mList' : \/ mList'[k] = entry[p]
                                   \/ \E j \in DOMAIN mList : mList'[k] = mList[j]
      BY <3>1, <3>2, AddEventFacts, ZenonT(30)
    <3> QED BY <3>3, <3>4, ZenonT(30)
  <2> QED BY <2>1, <2>2, <2>3, ZenonT(30) DEF HandleEntry
<1>6. DiscardedTimedGone'
  <2> SUFFICES ASSUME NEW k \in DOMAIN mList', kind'[mList'[k]] = "timed",
                      \A d \in Clients : unit'[d] = mList'[k] => pc'[d] = "return"
               PROVE  idToken'[mList'[k]] \notin discarded'
    BY ZenonT(30) DEF DiscardedTimedGone, Numbered
  <2>1. kind[mList'[k]] # "period" /\ Numbered(mList'[k])
    <3>1. kind[mList'[k]] # "period"
      BY <1>1
    <3> QED BY <1>1, <3>1, ZenonT(30) DEF Numbered
  <2>2. PICK j \in DOMAIN mList : mList'[k] = mList[j]
    BY <1>5, <2>1, ZenonT(30)
  <2> QED BY <1>1, <2>1, <2>2, ZenonT(30) DEF DiscardedTimedGone
<1> QED BY <1>4, <1>6

LEMMA IdStep ==
    ASSUME MaxAdds < TokenMod, IInv, IdInv, DiscardedTimedGone,
           [Next]_vars
    PROVE  IdInv' /\ DiscardedTimedGone'
<1>1. ASSUME NEW c \in Clients, Add(c) PROVE IdInv' /\ DiscardedTimedGone'
  <2>1. ASSUME NEW u \in Units, NEW t, NEW k, NEW ms,
               NewUnit(c, u, t, k, ms, "insert") \/ NewUnit(c, u, t, k, ms, "insertNumbered")
        PROVE  IdInv' /\ DiscardedTimedGone'
    BY <2>1, NewUnitIds, ZenonT(30)
  <2> HIDE DEF IdInv
  <2> QED BY <1>1, <2>1, ZenonT(30) DEF Add, addLaterEvent, addPeriodEvent, addAbsTimedEvent
<1>2. CASE Tick \/ UNCHANGED vars
  <2>1. UNCHANGED <<pc, unit, adds, listToken, idToken, kind, discarded, mList, owner, stage, entry>>
    BY <1>2, ZenonT(30) DEF Tick, vars, clientVars, pollerVars, fields, history
  <2>2. IdInv'
    <3>1. \A p \in Pollers : stage'[p] = "rearm" => kind'[entry'[p]] = "period"
      BY <2>1, ZenonT(30) DEF IdInv
    <3> QED BY <2>1, <3>1, IdFrame, ZenonT(30)
  <2> QED BY <2>1, <2>2, ZenonT(30) DEF DiscardedTimedGone, Numbered
<1>3. ASSUME NEW c \in Clients, FinishAdd(c) PROVE IdInv' /\ DiscardedTimedGone'
  BY <1>3, NumberIds, OtherAddIds, ZenonT(30) DEF FinishAdd
<1> HIDE DEF IdInv
<1> QED BY <1>1, <1>2, <1>3, DelIds, PollerIds, ZenonT(30) DEF Next

\* A timed event whose id was discarded is on the list no more, whatever any
\* number of threads add, discard and fire meanwhile, if the ids have not wrapped
\* around, and unless the discard met an entry that was listed and not numbered
\* yet (delTimedEvent against the two critical sections of addLaterEvent).
THEOREM DiscardedTimedGoneHolds ==
    ASSUME MaxAdds < TokenMod
    PROVE  Spec => []DiscardedTimedGone
<1>1. Init => IdInv /\ DiscardedTimedGone
  <2> SUFFICES ASSUME Init PROVE IdInv /\ DiscardedTimedGone
    OBVIOUS
  <2>1. /\ \A c \in Clients : pc[c] = "idle" /\ unit[c] = NoUnit
        /\ adds = 0 /\ listToken = 1 /\ mList = <<>>
        /\ \A u \in Units : owner[u] = Free
        /\ \A p \in Pollers : stage[p] = "idle"
    BY ZenonT(30) DEF Init
  <2>2. CountInv /\ Issued = 0
    <3>1. Pending = {}
      BY <2>1 DEF Adding, Pending
    <3>2. IsFiniteSet(Pending) /\ Cardinality(Pending) = 0
      BY <3>1, FS_EmptySet, ZenonT(30)
    <3> HIDE DEF Pending
    <3> QED BY SMT, SMTT(30), <2>1, <3>2 DEF CountInv, Issued
  <2>3. (0 + 1) % TokenMod = 1
    BY SMT, SMTT(30), TokenBelow
  <2>4. \A u \in Units : ~Known(u)
    BY <2>1, ZenonT(30) DEF Known
  <2>5. \A p \in Pollers : stage[p] # "rearm"
    BY <2>1
  <2> HIDE DEF CountInv, Issued, Known
  <2>6. IdInv
    BY <2>1, <2>2, <2>3, <2>4, <2>5, ZenonT(30) DEF IdInv
  <2>7. DiscardedTimedGone
    BY ONLY SMT, SMTT(30), <2>1 DEF DiscardedTimedGone
  <2> QED BY <2>6, <2>7
<1>2. IInv /\ IdInv /\ DiscardedTimedGone /\ [Next]_vars => IdInv' /\ DiscardedTimedGone'
  BY IdStep
<1> HIDE DEF IdInv
<1> QED BY <1>1, <1>2, Invariance, PTL DEF Spec

-----------------------------------------------------------------------------
USE LoopAssumption

LoopTypes ==
    /\ waking \in [Clients -> BOOLEAN]
    /\ pipe \in 0 .. PipeCap
    /\ loop \in {"ask", "clock", "enter", "wait", "alarm", "handling", "events"}
    /\ next \in Nat \cup {Forever} /\ timeOut \in Nat \cup {Forever}
    /\ plan \in Nat \cup {Forever}
    /\ ready \in BOOLEAN

\* The time the thread means to look again at, just computed.
Planned ==
    loop = "enter" /\ next # Forever =>
        plan # Forever /\ (plan <= next \/ timeOut = 0)

LoopInv == IInv /\ LoopTypes /\ Attentive /\ Planned

-----------------------------------------------------------------------------
\* A step of the composition is a step of the queue, or leaves it alone.
LEMMA QueueStep == [LoopNext]_allVars => [Next]_vars
<1> SUFFICES ASSUME [LoopNext]_allVars PROVE [Next]_vars
  OBVIOUS
<1>1. ASSUME NEW c \in Clients, AddTimed(c) PROVE Next
  <2>1. Add(c)
    BY ZenonT(30), <1>1 DEF AddTimed, Add
  <2> QED BY ZenonT(30), <2>1 DEF Next
<1>2. ASSUME NEW c \in Clients, ClientSteps(c) PROVE [Next]_vars
  BY ZenonT(30), <1>2 DEF ClientSteps, AddSteps, AddReturns, Wake, Next, FinishAdd
<1>3. ASSUME NEW c \in Clients, DiscardEvent(c) PROVE Next
  BY ZenonT(30), <1>3 DEF DiscardEvent, Next
<1>4. CASE ThreadSteps \/ Traffic \/ LoopTick
  BY ZenonT(30), <1>4
  DEF ThreadSteps, Ask, ReadClock, EnterWait, WakeUp, AlarmNone, HandleEvents,
      AlarmCollect, AlarmHandle, AlarmDone, Traffic, LoopTick, Next
<1>5. CASE UNCHANGED allVars
  BY ZenonT(30), <1>5 DEF allVars
<1> QED BY ZenonT(30), <1>1, <1>2, <1>3, <1>4, <1>5 DEF LoopNext

LEMMA ForeverInt == Forever \in Int /\ Forever \notin Nat
  BY ONLY SMT, SMTT(30) DEF Forever

LEMMA NatSum == \A a, b \in Nat : a + b \in Nat
  BY SMT, SMTT(30)

\* What the arithmetic of the timeout gives: it does not reach past d.
LEMMA WaitForFacts ==
    ASSUME clock \in Nat
    PROVE  /\ \A t \in WaitFor(Forever) : t \in Nat \cup {Forever}
           /\ \A d \in Nat : \A t \in WaitFor(d) :
                 t \in Nat /\ (clock + t <= d \/ t = 0)
<1>1. \A t \in WaitFor(Forever) : t \in Nat \cup {Forever}
  BY ONLY SMT, SMTT(30) DEF WaitFor
<1>2. ASSUME NEW d \in Nat, NEW t \in WaitFor(d)
      PROVE  t \in Nat /\ (clock + t <= d \/ t = 0)
  <2>1. d # Forever
    BY ONLY SMT, SMTT(30), d \in Nat DEF Forever
  <2>2. t \in IF d <= clock THEN {0} ELSE {d - clock, d - clock - 1}
    BY ZenonT(30), <1>2, <2>1 DEF WaitFor
  <2>3. CASE d <= clock
    BY ONLY SMT, SMTT(30), <2>2, <2>3
  <2>4. CASE d > clock
    <3>1. t = d - clock \/ t = d - clock - 1
      BY ONLY SMT, SMTT(30), <2>2, <2>4, clock \in Nat, d \in Nat
    <3> QED BY ONLY SMT, SMTT(30), <2>4, <3>1, clock \in Nat, d \in Nat
  <2> QED BY ONLY SMT, SMTT(30), <2>3, <2>4, clock \in Nat, d \in Nat
<1> QED BY ZenonT(30), <1>1, <1>2

LEMMA QueueTypes == IInv => clock \in Nat /\ mList \in Seq(Units) /\ tvAbsolute \in [Units -> Nat]
<1> SUFFICES ASSUME IInv
             PROVE  clock \in Nat /\ mList \in Seq(Units) /\ tvAbsolute \in [Units -> Nat]
  OBVIOUS
<1>1. clock \in 0 .. MaxTime /\ mList \in Seq(Units) /\ tvAbsolute \in [Units -> Nat]
  BY ZenonT(30) DEF IInv, TypeOK
<1> QED BY ONLY SMT, SMTT(30), <1>1

LEMMA TypesStep == IInv /\ LoopTypes /\ [LoopNext]_allVars => LoopTypes'
<1> SUFFICES ASSUME IInv, LoopTypes, [LoopNext]_allVars PROVE LoopTypes'
  OBVIOUS
<1>0. clock \in Nat /\ mList \in Seq(Units) /\ tvAbsolute \in [Units -> Nat]
  BY ZenonT(30), QueueTypes
<1>1. ASSUME NEW c \in Clients, AddTimed(c) \/ ClientSteps(c) \/ DiscardEvent(c)
      PROVE  LoopTypes'
  <2>1. CASE AddTimed(c) \/ AddSteps(c) \/ AddReturns(c) \/ DiscardEvent(c)
    <3>1. UNCHANGED loopVars /\ waking' \in [Clients -> BOOLEAN]
      BY <2>1, ZenonT(30) DEF LoopTypes, AddTimed, AddSteps, AddReturns, DiscardEvent
    <3> QED BY ZenonT(30), <3>1 DEF LoopTypes, loopVars
  <2>2. CASE Wake(c)
    <3>1. pipe' \in 0 .. PipeCap
      <4>1. pipe \in 0 .. PipeCap /\ pipe' = IF pipe < PipeCap THEN pipe + 1 ELSE pipe
        BY ZenonT(30), <2>2 DEF LoopTypes, Wake
      <4> QED BY ONLY SMT, SMTT(30), <4>1, LoopAssumption
    <3>2. waking' \in [Clients -> BOOLEAN] /\ UNCHANGED <<loop, next, timeOut, plan, ready>>
      BY ZenonT(30), <2>2 DEF LoopTypes, Wake
    <3> QED BY ZenonT(30), <3>1, <3>2 DEF LoopTypes
  <2> QED BY ZenonT(30), <1>1, <2>1, <2>2 DEF ClientSteps
<1>2. CASE Ask
  <2>1. next' \in Nat \cup {Forever}
    <3>1. next' = Forever \/ (mList # <<>> /\ next' = tvAbsolute[Head(mList)])
      BY ZenonT(30), <1>2 DEF Ask
    <3> QED BY ONLY SMT, SMTT(30), <1>0, <3>1
  <2> QED BY ZenonT(30), <1>2, <2>1 DEF LoopTypes, Ask
<1>3. CASE ReadClock
  <2>1. timeOut' \in Nat \cup {Forever}
    BY ZenonT(30), <1>0, <1>3, WaitForFacts DEF LoopTypes, ReadClock
  <2>2. plan' \in Nat \cup {Forever}
    <3>1. plan' = Forever \/ (timeOut' \in Nat /\ plan' = clock + timeOut')
      BY ZenonT(30), <1>3, <2>1 DEF ReadClock
    <3>2. timeOut' \in Nat => clock + timeOut' \in Nat
      BY <1>0, NatSum, ZenonT(30)
    <3> QED BY ZenonT(30), <3>1, <3>2
  <2> QED BY ZenonT(30), <1>3, <2>1, <2>2 DEF LoopTypes, ReadClock
<1>4. CASE EnterWait
  <2>1. plan' \in Nat \cup {Forever}
    <3>1. plan' = Forever \/ (timeOut \in Nat /\ plan' = clock + timeOut)
      BY ZenonT(30), <1>4 DEF EnterWait, LoopTypes
    <3> QED BY ONLY SMT, SMTT(30), <1>0, <3>1
  <2> QED BY ZenonT(30), <1>4, <2>1 DEF LoopTypes, EnterWait
<1>5. CASE WakeUp \/ Traffic
  <2>1. ready' = (pipe > 0) \/ ready' = FALSE
    BY ZenonT(30), <1>5 DEF WakeUp, Traffic
  <2>2. (pipe > 0) \in BOOLEAN
    BY SMT, SMTT(30)
  <2>3. ready' \in BOOLEAN
    BY <2>1, <2>2, ZenonT(30)
  <2> QED BY ZenonT(30), <1>5, <2>3 DEF LoopTypes, WakeUp, Traffic, Forget
<1>6. CASE AlarmNone \/ \E p \in Pollers : AlarmCollect(p) \/ AlarmHandle(p) \/ AlarmDone(p)
  BY ZenonT(30), <1>6 DEF LoopTypes, AlarmNone, AlarmCollect, AlarmHandle, AlarmDone, loopVars
<1>7. CASE HandleEvents
  <2>1. pipe' \in 0 .. PipeCap
    <3>1. /\ pipe \in 0 .. PipeCap
          /\ pipe' = pipe \/ pipe' = IF pipe > ReadMax THEN pipe - ReadMax ELSE 0
      BY ZenonT(30), <1>7 DEF LoopTypes, HandleEvents
    <3> QED BY ONLY SMT, SMTT(30), <3>1, LoopAssumption
  <2> QED BY ZenonT(30), <1>7, <2>1 DEF LoopTypes, HandleEvents
<1>8. CASE LoopTick \/ UNCHANGED allVars
  BY ZenonT(30), <1>8 DEF LoopTypes, LoopTick, allVars, loopVars
<1> QED
  BY ZenonT(30), <1>1, <1>2, <1>3, <1>4, <1>5, <1>6, <1>7, <1>8 DEF LoopNext, ThreadSteps

-----------------------------------------------------------------------------
\* The first deadline stays or moves back, and the list is not filled.
FirstNoEarlier ==
    mList' # <<>> => /\ mList # <<>>
                     /\ tvAbsolute[Head(mList)] <= tvAbsolute'[Head(mList')]

\* Allocating an event cannot touch a listed one, and discarding one can only
\* bring a later one to the front.
LEMMA ClientKeepsFirst ==
    ASSUME IInv, NEW c \in Clients,
           AddTimed(c) \/ Number(c) \/ Return(c) \/ DiscardEvent(c)
    PROVE  FirstNoEarlier
<1>0. mList \in Seq(Units) /\ tvAbsolute \in [Units -> Nat]
  BY ZenonT(30), QueueTypes
<1>01. ASSUME mList' = mList, tvAbsolute' = tvAbsolute PROVE FirstNoEarlier
  <2>1. mList # <<>> => tvAbsolute[Head(mList)] <= tvAbsolute[Head(mList)]
    BY ONLY SMT, SMTT(30), <1>0
  <2> QED BY ZenonT(30), <1>01, <2>1 DEF FirstNoEarlier
<1>1. CASE Number(c) \/ Return(c)
  BY ZenonT(30), <1>01, <1>1 DEF Number, Return, fields
<1>2. CASE AddTimed(c)
  <2>1. PICK u, t, k, ms, n : u \in Units /\ NewUnit(c, u, t, k, ms, n)
    BY ZenonT(30), <1>2 DEF AddTimed, addLaterEvent, addPeriodEvent
  <2>2. mList' = mList /\ owner[u] = Free /\ tvAbsolute' = [tvAbsolute EXCEPT ![u] = t]
    BY ZenonT(30), <2>1 DEF NewUnit
  <2>3. ASSUME mList # <<>> PROVE Head(mList) # u /\ Head(mList) \in Units
    <3>1. Head(mList) = mList[1] /\ 1 \in DOMAIN mList /\ mList[1] \in Units
      BY ONLY SMT, SMTT(30), <1>0, <2>3
    <3>2. owner[mList[1]] = Listed
      BY ZenonT(30), <3>1 DEF IInv, Ownership
    <3> QED BY ZenonT(30), <2>2, <3>1, <3>2, QueueAssumption
  <2>4. ASSUME mList # <<>>
        PROVE  tvAbsolute[Head(mList)] <= tvAbsolute'[Head(mList)]
    <3>1. tvAbsolute'[Head(mList)] = tvAbsolute[Head(mList)]
      BY ONLY ZenonT(30), <1>0, <2>2, <2>3, <2>4
    <3>2. tvAbsolute[Head(mList)] \in Nat
      BY ONLY ZenonT(30), <1>0, <2>3, <2>4
    <3> QED BY ONLY SMT, SMTT(30), <3>1, <3>2
  <2> QED BY ZenonT(30), <2>2, <2>4 DEF FirstNoEarlier
<1>3. CASE DiscardEvent(c)
  <2>1. PICK token \in Tokens : delTimedEvent(c, token)
    BY ZenonT(30), <1>3 DEF DiscardEvent
  <2>2. tvAbsolute' = tvAbsolute
    BY ZenonT(30), <2>1 DEF delTimedEvent, fields
  <2>3. CASE mList' = mList
    BY ZenonT(30), <1>01, <2>2, <2>3
  <2>4. ASSUME NEW i \in 1 .. Len(mList), mList' = RemoveAt(mList, i)
        PROVE  FirstNoEarlier
    <3>1. /\ mList' \in Seq(Units) /\ Len(mList') = Len(mList) - 1
          /\ \A k \in 1 .. i - 1 : mList'[k] = mList[k]
          /\ \A k \in i .. Len(mList) - 1 : mList'[k] = mList[k + 1]
      BY ONLY ZenonT(30), <1>0, <2>4, UnitRemove
    <3>2. ASSUME mList' # <<>>
          PROVE  \E k \in DOMAIN mList : Head(mList') = mList[k]
      <4>1. Head(mList') = mList'[1] /\ Len(mList) >= 2
        BY ONLY SMT, SMTT(30), <1>0, <3>1, <3>2
      <4>2. CASE i = 1
        <5>1. mList'[1] = mList[2] /\ 2 \in DOMAIN mList
          BY ONLY SMT, SMTT(30), <1>0, <3>1, <4>1, <4>2
        <5> QED BY ZenonT(30), <4>1, <5>1
      <4>3. CASE i > 1
        <5>1. mList'[1] = mList[1] /\ 1 \in DOMAIN mList
          BY ONLY SMT, SMTT(30), <1>0, <3>1, <4>1, <4>3, <2>4
        <5> QED BY ZenonT(30), <4>1, <5>1
      <4> QED BY ONLY SMT, SMTT(30), <4>2, <4>3, <2>4
    <3>3. \A k \in DOMAIN mList : tvAbsolute[mList[1]] <= tvAbsolute[mList[k]]
      <4>1. DeadlineOrder
        BY ZenonT(30) DEF IInv
      <4> QED BY ONLY SMT, SMTT(30), <1>0, <4>1 DEF DeadlineOrder
    <3>4. Head(mList) = mList[1] /\ mList # <<>>
      BY ONLY SMT, SMTT(30), <1>0, <2>4
    <3> QED BY ZenonT(30), <2>2, <3>2, <3>3, <3>4 DEF FirstNoEarlier
  <2> QED BY ZenonT(30), <2>1, <2>3, <2>4 DEF delTimedEvent
<1> QED BY ZenonT(30), <1>1, <1>2, <1>3

\* Whatever happens, the thread has the first deadline in mind or is about to
\* be woken.
LEMMA AttentiveStep == LoopInv /\ [LoopNext]_allVars => Attentive'
<1> SUFFICES ASSUME LoopInv, [LoopNext]_allVars,
                    loop' \in {"clock", "enter", "wait"}, mList' # <<>>
             PROVE  WakeComing' \/ (next' # Forever /\ next' <= tvAbsolute'[Head(mList')])
  BY ZenonT(30) DEF Attentive
<1>0. /\ mList \in Seq(Units) /\ tvAbsolute \in [Units -> Nat] /\ LoopTypes
      /\ mList' \in Seq(Units) /\ tvAbsolute' \in [Units -> Nat]
      /\ pc \in [Clients -> {"idle", "insert", "number", "insertNumbered", "return"}]
  BY ZenonT(30), QueueStep, NextIInv DEF LoopInv, IInv, TypeOK
<1>1. ASSUME loop' = loop, next' = next, FirstNoEarlier, WakeComing => WakeComing'
      PROVE  WakeComing' \/ (next' # Forever /\ next' <= tvAbsolute'[Head(mList')])
  <2>1. mList # <<>> /\ tvAbsolute[Head(mList)] <= tvAbsolute'[Head(mList')]
    BY ZenonT(30), <1>1 DEF FirstNoEarlier
  <2>2. tvAbsolute[Head(mList)] \in Nat /\ tvAbsolute'[Head(mList')] \in Nat
    BY ONLY SMT, SMTT(30), <1>0, <2>1, mList' # <<>>
  <2>3. WakeComing \/ (next # Forever /\ next <= tvAbsolute[Head(mList)])
    BY ZenonT(30), <1>1, <2>1 DEF LoopInv, Attentive
  <2>4. next \in Nat \cup {Forever} /\ Forever \in Int
    BY ZenonT(30), <1>0, ForeverInt DEF LoopTypes
  <2>5. next <= tvAbsolute[Head(mList)] => next <= tvAbsolute'[Head(mList')]
    BY ONLY SMT, SMTT(30), <2>1, <2>2, <2>4
  <2> QED BY ZenonT(30), <1>1, <2>3, <2>5
<1>2. ASSUME NEW c \in Clients, AddTimed(c) \/ DiscardEvent(c)
      PROVE  WakeComing' \/ (next' # Forever /\ next' <= tvAbsolute'[Head(mList')])
  <2>1. FirstNoEarlier
    BY ZenonT(30), <1>2, ClientKeepsFirst DEF LoopInv
  <2>2. loop' = loop /\ next' = next /\ pipe' = pipe /\ waking' = waking
    BY ZenonT(30), <1>2 DEF AddTimed, DiscardEvent, loopVars
  <2>3. pc[c] = "idle" /\ \A d \in Clients \ {c} : pc'[d] = pc[d]
    BY ZenonT(30), <1>0, <1>2
    DEF AddTimed, DiscardEvent, addLaterEvent, addPeriodEvent, NewUnit, delTimedEvent
  <2>4. WakeComing => WakeComing'
    BY ZenonT(30), <2>2, <2>3 DEF WakeComing
  <2> QED BY ZenonT(30), <1>1, <2>1, <2>2, <2>4
<1>3. ASSUME NEW c \in Clients, ClientSteps(c)
      PROVE  WakeComing' \/ (next' # Forever /\ next' <= tvAbsolute'[Head(mList')])
  <2>1. CASE Insert(c) /\ UNCHANGED <<waking, loopVars>>
    BY ZenonT(30), <1>0, <2>1 DEF Insert, WakeComing
  <2>2. CASE Number(c) /\ UNCHANGED <<waking, loopVars>>
    BY ZenonT(30), <1>0, <2>2 DEF Number, WakeComing
  <2>3. CASE AddReturns(c)
    BY ZenonT(30), <1>0, <2>3 DEF AddReturns, LoopTypes, WakeComing
  <2>4. CASE Wake(c)
    <3>1. pipe' > 0
      <4>1. pipe \in 0 .. PipeCap /\ pipe' = IF pipe < PipeCap THEN pipe + 1 ELSE pipe
        BY ZenonT(30), <1>0, <2>4 DEF Wake, LoopTypes
      <4> QED BY ONLY SMT, SMTT(30), <4>1, LoopAssumption
    <3> QED BY ZenonT(30), <3>1 DEF WakeComing
  <2> QED BY ZenonT(30), <1>3, <2>1, <2>2, <2>3, <2>4 DEF ClientSteps, AddSteps
<1>4. CASE Ask
  <2>1. mList' = mList /\ tvAbsolute' = tvAbsolute /\ next' = tvAbsolute[Head(mList)]
    BY ZenonT(30), <1>4 DEF Ask, vars, fields
  <2>2. tvAbsolute[Head(mList)] \in Nat
    BY ONLY SMT, SMTT(30), <1>0, <2>1, mList' # <<>>
  <2>3. next' # Forever /\ next' <= tvAbsolute[Head(mList)]
    BY ONLY SMT, SMTT(30), <2>1, <2>2, ForeverInt
  <2> QED BY ZenonT(30), <2>1, <2>3
<1>5. CASE ReadClock \/ EnterWait \/ LoopTick \/ UNCHANGED allVars
  <2>1. UNCHANGED <<mList, tvAbsolute, pc, waking, pipe, next>>
        /\ loop \in {"clock", "enter", "wait"}
    BY <1>5, ZenonT(30)
    DEF ReadClock, EnterWait, LoopTick, Tick, vars, fields, clientVars, allVars, loopVars
  <2> QED BY ZenonT(30), <2>1 DEF LoopInv, Attentive, WakeComing
<1>6. CASE WakeUp \/ Traffic \/ AlarmNone \/ HandleEvents
           \/ \E p \in Pollers : AlarmCollect(p) \/ AlarmHandle(p) \/ AlarmDone(p)
  BY ZenonT(30), <1>6
  DEF WakeUp, Traffic, AlarmNone, HandleEvents, AlarmCollect, AlarmHandle, AlarmDone, loopVars
<1> QED BY ZenonT(30), <1>2, <1>3, <1>4, <1>5, <1>6 DEF LoopNext, ThreadSteps

LEMMA PlannedStep == LoopInv /\ [LoopNext]_allVars => Planned'
<1> SUFFICES ASSUME LoopInv, [LoopNext]_allVars, loop' = "enter", next' # Forever
             PROVE  plan' # Forever /\ (plan' <= next' \/ timeOut' = 0)
  BY ZenonT(30) DEF Planned
<1>1. CASE ReadClock
  <2>1. clock \in Nat /\ next \in Nat
    <3>1. next \in Nat \cup {Forever} /\ next # Forever
      BY ZenonT(30), <1>1 DEF LoopInv, LoopTypes, ReadClock
    <3> QED BY ZenonT(30), <3>1, QueueTypes DEF LoopInv
  <2>2. timeOut' \in Nat /\ (clock + timeOut' <= next \/ timeOut' = 0)
    BY ZenonT(30), <1>1, <2>1, WaitForFacts DEF ReadClock
  <2>3. plan' = clock + timeOut' /\ next' = next
    <3>1. timeOut' # Forever
      BY ZenonT(30), <2>2, ForeverInt
    <3> QED BY ZenonT(30), <1>1, <3>1 DEF ReadClock
  <2>4. clock + timeOut' \in Nat
    BY <2>1, <2>2, NatSum, ZenonT(30)
  <2>5. plan' # Forever
    BY ZenonT(30), <2>3, <2>4, ForeverInt
  <2> QED BY ZenonT(30), <2>2, <2>3, <2>5
<1>2. ASSUME UNCHANGED <<loop, next, plan, timeOut>>
      PROVE  plan' # Forever /\ (plan' <= next' \/ timeOut' = 0)
  BY ZenonT(30), <1>2 DEF LoopInv, Planned
<1>3. ASSUME NEW c \in Clients, AddTimed(c) \/ ClientSteps(c) \/ DiscardEvent(c)
      PROVE  UNCHANGED <<loop, next, plan, timeOut>>
  BY ZenonT(30), <1>3 DEF AddTimed, ClientSteps, AddSteps, AddReturns, Wake, DiscardEvent, loopVars
<1>4. CASE LoopTick \/ UNCHANGED allVars
  BY ZenonT(30), <1>2, <1>4 DEF LoopTick, allVars, loopVars
<1>5. CASE Ask \/ EnterWait \/ WakeUp \/ Traffic \/ AlarmNone \/ HandleEvents
           \/ \E p \in Pollers : AlarmCollect(p) \/ AlarmHandle(p) \/ AlarmDone(p)
  BY ZenonT(30), <1>5
  DEF Ask, EnterWait, WakeUp, Traffic, AlarmNone, HandleEvents, AlarmCollect,
      AlarmHandle, AlarmDone, loopVars
<1> QED BY ZenonT(30), <1>1, <1>2, <1>3, <1>4, <1>5 DEF LoopNext, ThreadSteps

-----------------------------------------------------------------------------
\* The inductive invariant of the loop and its queue.
THEOREM LoopInvariance == LoopSpec => []LoopInv
<1>1. LoopInit => LoopInv
  <2> SUFFICES ASSUME LoopInit PROVE LoopInv
    OBVIOUS
  <2>1. IInv
    BY ZenonT(30), InitIInv DEF LoopInit
  <2>2. LoopTypes /\ Attentive /\ Planned
    <3>1. LoopTypes
      <4>1. ready \in BOOLEAN
        BY ZenonT(30) DEF LoopInit
      <4>2. waking \in [Clients -> BOOLEAN]
        BY ZenonT(30) DEF LoopInit
      <4>3. 0 \in 0 .. PipeCap
        BY ONLY SMT, SMTT(30), LoopAssumption
      <4> QED BY ZenonT(30), <4>1, <4>2, <4>3 DEF LoopInit, LoopTypes
    <3> QED BY ZenonT(30), <3>1 DEF LoopInit, Init, Attentive, Planned
  <2> QED BY ZenonT(30), <2>1, <2>2 DEF LoopInv
<1>2. LoopInv /\ [LoopNext]_allVars => LoopInv'
  BY ZenonT(30), QueueStep, NextIInv, TypesStep, AttentiveStep, PlannedStep DEF LoopInv
<1> QED BY <1>1, <1>2, PTL DEF LoopSpec

\* Type correctness of the loop and its queue, the pipe's capacity included.
THEOREM LoopTyped == LoopSpec => []LoopTypeOK
<1>1. LoopInv => LoopTypeOK
  BY ZenonT(30) DEF LoopInv, IInv, LoopTypes, LoopTypeOK
<1> QED BY <1>1, LoopInvariance, PTL

\* Whatever clients do between the look at the queue and the end of the sleep,
\* the thread has a deadline in mind that is not later than the first one, or
\* a wake-up is in the pipe or on its way there.
THEOREM AttentiveHolds == LoopSpec => []Attentive
<1>1. LoopInv => Attentive
  BY ZenonT(30) DEF LoopInv
<1> QED BY <1>1, LoopInvariance, PTL

\* The timeout computed from it does not reach past the first deadline.
THEOREM NoOversleepHolds == LoopSpec => []NoOversleep
<1>1. LoopInv => NoOversleep
  <2> SUFFICES ASSUME LoopInv, loop = "enter", mList # <<>>, ~WakeComing
               PROVE  plan # Forever /\ (plan <= tvAbsolute[Head(mList)] \/ timeOut = 0)
    BY ZenonT(30) DEF NoOversleep
  <2>1. next # Forever /\ next <= tvAbsolute[Head(mList)]
    BY ZenonT(30) DEF LoopInv, Attentive
  <2>2. plan # Forever /\ (plan <= next \/ timeOut = 0)
    BY ZenonT(30), <2>1 DEF LoopInv, Planned
  <2>3. plan \in Int /\ next \in Int /\ tvAbsolute[Head(mList)] \in Int
    <3>1. /\ plan \in Nat \cup {Forever} /\ next \in Nat \cup {Forever}
          /\ mList \in Seq(Units) /\ tvAbsolute \in [Units -> Nat]
      BY ZenonT(30), QueueTypes DEF LoopInv, LoopTypes
    <3> QED BY ONLY SMT, SMTT(30), <3>1, ForeverInt, mList # <<>>
  <2>4. plan <= next => plan <= tvAbsolute[Head(mList)]
    BY ONLY SMT, SMTT(30), <2>1, <2>3
  <2> QED BY ZenonT(30), <2>2, <2>4
<1> QED BY <1>1, LoopInvariance, PTL
=============================================================================
