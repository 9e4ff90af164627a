-------------------------- MODULE SocketCoreProofs --------------------------
(***************************************************************************)
(* Proofs about SocketCore for any number of transports, descriptors and   *)
(* events.  The holder's list is ordered (QueueInv) and every variable has *)
(* its type (TypeInv) whatever fails.  The life of the objects is right    *)
(* when every transport is held by an sp<> before it is registered         *)
(* (RawCreated = {}): CoreInv.                                             *)
(***************************************************************************)
EXTENDS SocketCore, ListLemmas

AnyItem == [socket_fd : Int, socket_inst : Trans]

\* RemoveAtFacts for lists of items.
LEMMA ItemRemove ==
    \A s \in Seq(AnyItem) : \A i \in 1 .. Len(s) :
        /\ RemoveAt(s, i) \in Seq(AnyItem)
        /\ Len(RemoveAt(s, i)) = Len(s) - 1
        /\ \A k \in 1 .. i - 1 : RemoveAt(s, i)[k] = s[k]
        /\ \A k \in i .. Len(s) - 1 : RemoveAt(s, i)[k] = s[k + 1]
  BY ONLY RemoveAtFacts, ZenonT(30)

-----------------------------------------------------------------------------
(***************************************************************************)
(* The list.                                                               *)
(***************************************************************************)
\* What a step may do to the list: nothing, cut an item out, put one in where
\* its descriptor belongs, or replace the item of the same descriptor.
QueueStep ==
    \/ mQueue' = mQueue
    \/ \E i \in 1 .. Len(mQueue) : mQueue' = RemoveAt(mQueue, i)
    \/ \E t \in Trans, i \in 1 .. Len(mQueue) + 1 :
          /\ PlaceOf(sock[t], i) /\ Missing(sock[t])
          /\ pc[t] = "insert" /\ life[t] = "live" /\ life'[t] = "live"
          /\ mQueue' = InsertAt(mQueue, i, Item(sock[t], t))
    \/ \E t \in Trans, i \in 1 .. Len(mQueue) :
          /\ IsAt(sock[t], i)
          /\ pc[t] = "insert" /\ life[t] = "live"
          /\ mQueue' = [mQueue EXCEPT ![i] = Item(sock[t], t)]

QueueInv ==
    /\ mQueue \in Seq(AnyItem)
    /\ sock \in [Trans -> Int]
    /\ QueueSorted

\* Every step changes the list in one of these ways.
LEMMA NextQueue == [Next]_vars => QueueStep
<1> SUFFICES ASSUME [Next]_vars PROVE QueueStep
  OBVIOUS
<1>1. ASSUME NEW t \in Trans, Owner(t) PROVE QueueStep
  <2>1. CASE insert(t)
    BY ZenonT(30), <2>1 DEF insert, QueueStep, objects
  <2>2. CASE ~insert(t)
    BY <1>1, <2>2, ZenonT(30) DEF Owner, Create, EpollAdd, InitFailed, DeleteSelf, Own, Release, QueueStep
  <2> QED BY <2>1, <2>2
<1>2. ASSUME NEW x \in Threads, CloseTransport(x) PROVE QueueStep
  BY <1>2, ZenonT(30) DEF CloseTransport, remove, EpollDel, Close, QueueStep
<1>3. CASE threadLoop
  <2>1. CASE fetch \/ FetchStale \/ HupRemove
    BY <2>1, ZenonT(30) DEF fetch, FetchStale, HupRemove, QueueStep
  <2>2. CASE epoll_wait \/ FetchAssign \/ HandleRead \/ HupClose \/ HupDone \/ EndBatch
    BY <2>2, ZenonT(30) DEF epoll_wait, FetchAssign, HandleRead, HupClose, HupDone, EndBatch, QueueStep
  <2> QED BY <1>3, <2>1, <2>2 DEF threadLoop
<1>4. CASE UNCHANGED vars
  BY <1>4 DEF vars, QueueStep
<1> QED BY <1>1, <1>2, <1>3, <1>4 DEF Next

\* The ordered list stays ordered.
LEMMA QueueStepSorted == QueueInv /\ QueueStep => mQueue' \in Seq(AnyItem) /\ QueueSorted'
<1> SUFFICES ASSUME QueueInv, QueueStep PROVE mQueue' \in Seq(AnyItem) /\ QueueSorted'
  OBVIOUS
<1>q. mQueue \in Seq(AnyItem) /\ DOMAIN mQueue = 1 .. Len(mQueue) /\ Len(mQueue) \in Nat
  BY SMT, SMTT(30) DEF QueueInv
<1>f. \A k \in 1 .. Len(mQueue) : mQueue[k] \in AnyItem /\ mQueue[k].socket_fd \in Int
  <2>1. \A k \in 1 .. Len(mQueue) : mQueue[k] \in AnyItem
    BY SMT, SMTT(30), <1>q
  <2> QED BY <2>1 DEF AnyItem
<1>s. \A j, k \in 1 .. Len(mQueue) : j < k => mQueue[j].socket_fd < mQueue[k].socket_fd
  BY <1>q DEF QueueInv, QueueSorted
<1>i. \A t \in Trans : Item(sock[t], t) \in AnyItem /\ Item(sock[t], t).socket_fd = sock[t] /\ sock[t] \in Int
  BY DEF QueueInv, Item, AnyItem
<1>1. CASE mQueue' = mQueue
  BY <1>1, <1>q DEF QueueInv, QueueSorted
<1>2. ASSUME NEW i \in 1 .. Len(mQueue), mQueue' = RemoveAt(mQueue, i)
      PROVE  mQueue' \in Seq(AnyItem) /\ QueueSorted'
  <2>1. /\ mQueue' \in Seq(AnyItem) /\ Len(mQueue') = Len(mQueue) - 1
        /\ \A k \in 1 .. i - 1 : mQueue'[k] = mQueue[k]
        /\ \A k \in i .. Len(mQueue) - 1 : mQueue'[k] = mQueue[k + 1]
    BY ONLY <1>q, <1>2, ItemRemove, ZenonT(30)
  <2>2. ASSUME NEW j \in 1 .. Len(mQueue'), NEW k \in 1 .. Len(mQueue'), j < k
        PROVE  mQueue'[j].socket_fd < mQueue'[k].socket_fd
    <3>1. CASE k < i
      <4>1. /\ mQueue'[j] = mQueue[j] /\ mQueue'[k] = mQueue[k]
            /\ j \in 1 .. Len(mQueue) /\ k \in 1 .. Len(mQueue)
        BY ONLY SMT, SMTT(30), <2>1, <2>2, <3>1, <1>q, <1>2
      <4> QED BY ONLY ZenonT(30), <2>2, <4>1, <1>s
    <3>2. CASE j < i /\ i <= k
      <4>1. /\ mQueue'[j] = mQueue[j] /\ mQueue'[k] = mQueue[k + 1]
            /\ j \in 1 .. Len(mQueue) /\ k + 1 \in 1 .. Len(mQueue) /\ j < k + 1
        BY ONLY SMT, SMTT(30), <2>1, <2>2, <3>2, <1>q, <1>2
      <4> QED BY <4>1, <1>s
    <3>3. CASE i <= j
      <4>1. /\ mQueue'[j] = mQueue[j + 1] /\ mQueue'[k] = mQueue[k + 1]
            /\ j + 1 \in 1 .. Len(mQueue) /\ k + 1 \in 1 .. Len(mQueue) /\ j + 1 < k + 1
        BY ONLY SMT, SMTT(30), <2>1, <2>2, <3>3, <1>q
      <4> QED BY <4>1, <1>s
    <3> QED BY ONLY SMT, SMTT(30), <3>1, <3>2, <3>3, <1>q, <2>1
  <2>3. QueueSorted'
    <3>0. mQueue' \in Seq(AnyItem)
      BY ZenonT(30), <2>1
    <3>1. DOMAIN mQueue' = 1 .. Len(mQueue')
      BY ONLY SMT, SMTT(30), <3>0
    <3> QED BY ZenonT(30), <2>2, <3>1 DEF QueueSorted
  <2> QED BY ZenonT(30), <2>1, <2>3
<1>3. ASSUME NEW t \in Trans, NEW i \in 1 .. Len(mQueue) + 1, PlaceOf(sock[t], i),
             Missing(sock[t]), mQueue' = InsertAt(mQueue, i, Item(sock[t], t))
      PROVE  mQueue' \in Seq(AnyItem) /\ QueueSorted'
  <2>1. /\ mQueue' \in Seq(AnyItem) /\ Len(mQueue') = Len(mQueue) + 1
        /\ \A k \in 1 .. i - 1 : mQueue'[k] = mQueue[k]
        /\ mQueue'[i] = Item(sock[t], t)
        /\ \A k \in i + 1 .. Len(mQueue) + 1 : mQueue'[k] = mQueue[k - 1]
    <3>1. Item(sock[t], t) \in AnyItem
      BY <1>i
    <3>2. InsertedAt(AnyItem, mQueue, i, Item(sock[t], t), mQueue')
      BY ZenonT(30), <3>1, <1>q, <1>3, InsertAtInserts
    <3> QED BY ONLY ZenonT(30), <3>2 DEF InsertedAt
  <2>2. /\ \A k \in 1 .. i - 1 : mQueue[k].socket_fd < sock[t]
        /\ \A k \in i .. Len(mQueue) : sock[t] < mQueue[k].socket_fd
    BY SMT, SMTT(30), <1>3, <1>q, <1>f, <1>s, <1>i DEF PlaceOf, Missing, IsAt
  <2>3. ASSUME NEW j \in 1 .. Len(mQueue'), NEW k \in 1 .. Len(mQueue'), j < k
        PROVE  mQueue'[j].socket_fd < mQueue'[k].socket_fd
    <3>1. CASE k < i
      <4>1. /\ mQueue'[j] = mQueue[j] /\ mQueue'[k] = mQueue[k]
            /\ j \in 1 .. Len(mQueue) /\ k \in 1 .. Len(mQueue)
        BY ONLY SMT, SMTT(30), <2>1, <2>3, <3>1, <1>q, <1>3
      <4> QED BY ONLY ZenonT(30), <2>3, <4>1, <1>s
    <3>2. CASE k = i
      BY ONLY SMT, SMTT(30), <2>1, <2>2, <2>3, <3>2, <1>q, <1>i
    <3>3. CASE j < i /\ i < k
      <4>1. /\ mQueue'[j] = mQueue[j] /\ mQueue'[k] = mQueue[k - 1]
            /\ j \in 1 .. Len(mQueue) /\ k - 1 \in 1 .. Len(mQueue) /\ j < k - 1
        BY ONLY SMT, SMTT(30), <2>1, <2>3, <3>3, <1>q, i \in 1 .. Len(mQueue) + 1
      <4> QED BY ZenonT(30), <4>1, <1>s
    <3>4. CASE j = i
      <4>1. /\ mQueue'[j] = Item(sock[t], t) /\ mQueue'[k] = mQueue[k - 1]
            /\ k - 1 \in i .. Len(mQueue)
        BY ONLY SMT, SMTT(30), <2>1, <2>3, <3>4, <1>q, i \in 1 .. Len(mQueue) + 1
      <4> QED BY ONLY ZenonT(30), <2>2, <4>1, <1>i, <1>3
    <3>5. CASE i < j
      <4>1. /\ mQueue'[j] = mQueue[j - 1] /\ mQueue'[k] = mQueue[k - 1]
            /\ j - 1 \in 1 .. Len(mQueue) /\ k - 1 \in 1 .. Len(mQueue) /\ j - 1 < k - 1
        BY ONLY SMT, SMTT(30), <2>1, <2>3, <3>5, <1>q, i \in 1 .. Len(mQueue) + 1
      <4> QED BY <4>1, <1>s
    <3> QED BY SMT, SMTT(30), <3>1, <3>2, <3>3, <3>4, <3>5, <1>q, <2>1
  <2>4. QueueSorted'
    <3>0. mQueue' \in Seq(AnyItem)
      BY ZenonT(30), <2>1
    <3>1. DOMAIN mQueue' = 1 .. Len(mQueue')
      BY ONLY SMT, SMTT(30), <3>0
    <3> QED BY ZenonT(30), <2>3, <3>1 DEF QueueSorted
  <2> QED BY <2>1, <2>4
<1>4. ASSUME NEW t \in Trans, NEW i \in 1 .. Len(mQueue), IsAt(sock[t], i),
             mQueue' = [mQueue EXCEPT ![i] = Item(sock[t], t)]
      PROVE  mQueue' \in Seq(AnyItem) /\ QueueSorted'
  <2>1. /\ mQueue' \in Seq(AnyItem) /\ Len(mQueue') = Len(mQueue)
        /\ \A k \in 1 .. Len(mQueue) : mQueue'[k] = IF k = i THEN Item(sock[t], t) ELSE mQueue[k]
    BY ONLY SMT, SMTT(30), <1>q, <1>4, <1>i
  <2>2. \A k \in 1 .. Len(mQueue) : mQueue'[k].socket_fd = mQueue[k].socket_fd
    BY ZenonT(30), <2>1, <1>4, <1>i DEF IsAt
  <2>3. QueueSorted'
    BY ONLY SMT, SMTT(30), <2>1, <2>2, <1>s, <1>q DEF QueueSorted
  <2> QED BY <2>1, <2>3
<1> QED BY <1>1, <1>2, <1>3, <1>4 DEF QueueStep

\* A function stays in its type when one value of the type is put in.
LEMMA ExceptType ==
    ASSUME NEW D, NEW R, NEW f \in [D -> R], NEW t, NEW v \in R
    PROVE  [f EXCEPT ![t] = v] \in [D -> R]
  BY ZenonT(30)

\* An assignment outside the domain has no effect.
LEMMA ExceptAt ==
    ASSUME NEW D, NEW R, NEW f \in [D -> R], NEW d, NEW v, d \in D => v \in R
    PROVE  [f EXCEPT ![d] = v] \in [D -> R]
  BY ZenonT(30)

\* A sock field is always a descriptor or -1.
LEMMA NextSock == sock \in [Trans -> Int] /\ [Next]_vars => sock' \in [Trans -> Int]
<1> SUFFICES ASSUME sock \in [Trans -> Int], [Next]_vars PROVE sock' \in [Trans -> Int]
  OBVIOUS
<1> DEFINE G == sock' \in [Trans -> Int]
<1>u. sock' = sock => G
  OBVIOUS
<1>c. \A t : sock' = [sock EXCEPT ![t] = Closed] => G
  <2>1. Closed \in Int
    BY SMT, SMTT(30) DEF Closed
  <2> QED BY <2>1, ExceptType
<1>f. \A t, v : v \in Fds /\ sock' = [sock EXCEPT ![t] = v] => G
  <2>1. \A v \in Fds : v \in Int
    BY SMT, SMTT(30), CoreAssumption
  <2> QED BY <2>1, ExceptType
<1> SUFFICES G
  BY ZenonT(30)
<1> HIDE DEF G
<1>s. \A x, t, r, next : decStrong(x, t, r, next) => G
  BY SMT, SMTT(30), <1>u, <1>c DEF decStrong, EnterDtor, FreeClosed
<1>w. \A x, o, next : decWeak(x, o, next) => G
  BY <1>u, <1>c, ZenonT(30) DEF decWeak, EnterDtor, FreeClosed
<1>1. ASSUME NEW t \in Trans, Owner(t) PROVE G
  <2>1. CASE Create(t)
    BY <2>1, <1>f, ZenonT(30) DEF Create
  <2>2. CASE insert(t)
    BY <2>2, <1>u, <1>w, ZenonT(30) DEF insert
  <2>3. CASE DeleteSelf(t)
    BY <2>3, <1>c, ZenonT(30) DEF DeleteSelf, EnterDtor
  <2>4. CASE Release(t)
    BY <2>4, <1>s, ZenonT(30) DEF Release
  <2>5. CASE EpollAdd(t) \/ InitFailed(t) \/ Own(t)
    BY <2>5, <1>u, ZenonT(30) DEF EpollAdd, InitFailed, Own
  <2> QED BY <1>1, <2>1, <2>2, <2>3, <2>4, <2>5, ZenonT(30) DEF Owner
<1>2. ASSUME NEW x \in Threads, CloseTransport(x) PROVE G
  BY <1>2, <1>u, <1>w, ZenonT(30) DEF CloseTransport, remove, EpollDel, Close
<1>3. CASE threadLoop
  <2>1. CASE epoll_wait \/ fetch \/ HandleRead \/ HupClose
    BY <2>1, <1>u, ZenonT(30) DEF epoll_wait, fetch, HandleRead, HupClose
  <2>2. CASE FetchStale
    BY <2>2, <1>u, ZenonT(30) DEF FetchStale, FreeClosed
  <2>3. CASE FetchAssign
    BY <2>3, <1>u, <1>c, ZenonT(30) DEF FetchAssign, EnterDtor, FreeClosed
  <2>4. CASE HupRemove
    BY <2>4, <1>u, <1>w, ZenonT(30) DEF HupRemove
  <2>5. CASE HupDone
    BY <2>5, <1>c, ZenonT(30) DEF HupDone
  <2>6. CASE EndBatch
    BY <2>6, <1>u, <1>s, ZenonT(30) DEF EndBatch
  <2> QED BY <1>3, <2>1, <2>2, <2>3, <2>4, <2>5, <2>6, ZenonT(30) DEF threadLoop
<1>4. CASE UNCHANGED vars
  BY <1>4, <1>u, ZenonT(30) DEF vars
<1> QED BY ZenonT(30), <1>1, <1>2, <1>3, <1>4 DEF Next

LEMMA InitQueue == Init => QueueInv
  BY SMT, SMTT(30) DEF Init, QueueInv, QueueSorted, Closed

\* The holder's list is strictly ordered by descriptor in every reachable state,
\* whatever fails, hangs up or is destroyed: SocketHolder::insert, fetch and
\* remove search it correctly.
THEOREM QueueSortedHolds == Spec => []QueueSorted
<1>1. QueueInv /\ [Next]_vars => QueueInv'
  <2>1. ASSUME QueueInv, [Next]_vars PROVE QueueInv'
    <3>1. mQueue' \in Seq(AnyItem) /\ QueueSorted'
      BY ZenonT(30), <2>1, NextQueue, QueueStepSorted
    <3>2. sock' \in [Trans -> Int]
      BY <2>1, NextSock DEF QueueInv
    <3> QED BY <3>1, <3>2 DEF QueueInv
  <2> QED BY <2>1
<1>2. QueueInv => QueueSorted
  BY DEF QueueInv
<1> QED BY InitQueue, <1>1, <1>2, PTL DEF Spec

-----------------------------------------------------------------------------
(***************************************************************************)
(* The life of the objects, when no transport comes from create.           *)
(***************************************************************************)
LifeTypes ==
    /\ life \in [Trans -> Lives]
    /\ ndtor \in [Trans -> Nat]
    /\ refs \in [Trans -> SUBSET Holders]
    /\ initial \in [Trans -> BOOLEAN]
    /\ pc \in [Threads -> Places]
    /\ victim \in [Threads -> Trans \cup {NoTrans}]
    /\ trans \in Trans \cup {NoTrans}
    /\ found \in Trans \cup {NoTrans}

\* An object with a strong reference is alive, one with none yet does not exist,
\* and the destructors that ran can be read off the object.
ObjectInv ==
    \A t \in Trans :
        /\ initial[t] => life[t] = "none"
        /\ refs[t] # {} => life[t] = "live"
        /\ ndtor[t] = IF life[t] \in {"dying", "freed"} THEN 1 ELSE 0
        /\ pc[t] = "new" => life[t] = "none"
        /\ pc[t] # "delete"

\* What the poller points at it has a reference of.
PointerInv ==
    /\ found # NoTrans => "temp" \in refs[found]
    /\ trans # NoTrans => "trans" \in refs[trans]
    /\ pc[Poller] = "check" => found # NoTrans

\* What is listed exists.
ListedInv ==
    \A i \in 1 .. Len(mQueue) :
        mQueue[i].socket_inst \in Trans /\ life[mQueue[i].socket_inst] # "none"

\* An object in its destructor is in that of one thread.
DestructorInv ==
    /\ \A x \in Threads : victim[x] # NoTrans => life[victim[x]] = "dying"
    /\ \A x \in Threads : pc[x] \in {"remove", "del", "close"} => victim[x] # NoTrans
    /\ \A x, y \in Threads : victim[x] = victim[y] /\ x # y => victim[x] = NoTrans

LifeInv == LifeTypes /\ ObjectInv /\ PointerInv /\ DestructorInv

LEMMA InitLife == Init => LifeInv
<1> SUFFICES ASSUME Init PROVE LifeInv
  OBVIOUS
<1>1. LifeTypes
  BY DEF Init, LifeTypes, Lives, Holders, Places, Threads
<1>2. ObjectInv
  BY ZenonT(30), CoreAssumption DEF Init, ObjectInv, Threads
<1>3. PointerInv
  BY ZenonT(30) DEF Init, PointerInv, Threads
<1>4. DestructorInv
  BY ZenonT(30), CoreAssumption DEF Init, DestructorInv, Threads
<1> QED BY ZenonT(30), <1>1, <1>2, <1>3, <1>4 DEF LifeInv

\* A step of thread x in which t loses its last reference: its destructor begins
\* (CloseTransport has something to do) or is over at once.
Dies(x, t, p) ==
    /\ refs[t] # {} /\ refs'[t] = {}
    /\ refs' \in [Trans -> SUBSET Holders]
    /\ \A u \in Trans : refs'[u] # {} => refs[u] # {}
    /\ pc' = [pc EXCEPT ![x] = p]
    /\ UNCHANGED <<initial, mQueue>>
    /\ \/ p = "remove" /\ EnterDtor(x, t)
       \/ p \in {"gone", "wait", "fetch", "handle"} /\ FreeClosed(t)

\* A step of thread x in which no object is made or destroyed.
Lives_on(x, p) ==
    /\ refs' \in [Trans -> SUBSET Holders]
    /\ \A u \in Trans : refs'[u] # {} => refs[u] # {}
    /\ pc' = [pc EXCEPT ![x] = p]
    /\ p \in {"gone", "wait", "fetch", "handle", "check"}
    /\ initial' \in [Trans -> BOOLEAN] /\ \A u \in Trans : initial'[u] => initial[u]
    /\ UNCHANGED <<life, ndtor, victim>>

\* The objects are right after either.
LEMMA DiesLife ==
    ASSUME LifeInv, NEW x \in Threads, NEW t \in Trans, NEW p, Dies(x, t, p)
    PROVE  /\ life' \in [Trans -> Lives] /\ ndtor' \in [Trans -> Nat]
           /\ refs' \in [Trans -> SUBSET Holders] /\ initial' \in [Trans -> BOOLEAN]
           /\ pc' \in [Threads -> Places]
           /\ victim' \in [Threads -> Trans \cup {NoTrans}]
           /\ ObjectInv' /\ DestructorInv'
           /\ \A u \in Trans : life[u] # "none" => life'[u] # "none"
<1>t. /\ life \in [Trans -> Lives] /\ ndtor \in [Trans -> Nat] /\ initial \in [Trans -> BOOLEAN]
      /\ pc \in [Threads -> Places] /\ victim \in [Threads -> Trans \cup {NoTrans}]
      /\ life[t] = "live" /\ ndtor[t] = 0
  BY ZenonT(30) DEF LifeInv, LifeTypes, ObjectInv, Dies
<1>p. p \in Places /\ p \notin {"new", "delete"}
  BY ZenonT(30) DEF Dies, Places
<1>w. PICK w \in {"dying", "freed"} : life' = [life EXCEPT ![t] = w]
  BY ZenonT(30) DEF Dies, EnterDtor, FreeClosed
<1>n. ndtor' = [ndtor EXCEPT ![t] = ndtor[t] + 1]
  BY DEF Dies, EnterDtor, FreeClosed
<1>v. victim' = victim \/ victim' = [victim EXCEPT ![x] = t]
  BY ZenonT(30) DEF Dies, EnterDtor, FreeClosed, dtor
<1>1. life' \in [Trans -> Lives] /\ ndtor' \in [Trans -> Nat]
  BY ONLY SMT, SMTT(30), <1>t, <1>w, <1>n DEF Lives
<1>2. pc' \in [Threads -> Places] /\ victim' \in [Threads -> Trans \cup {NoTrans}]
  BY ZenonT(30), <1>t, <1>p, <1>v DEF Dies
<1>3. \A u \in Trans : life'[u] = IF u = t THEN w ELSE life[u]
  BY ZenonT(30), <1>t, <1>w
<1>4. \A u \in Trans : ndtor'[u] = IF u = t THEN 1 ELSE ndtor[u]
  BY ONLY SMT, SMTT(30), <1>t, <1>n
<1>5. \A y \in Threads : pc'[y] = IF y = x THEN p ELSE pc[y]
  BY ZenonT(30), <1>t DEF Dies
<1>6. Trans \subseteq Threads
  BY ZenonT(30) DEF Threads
<1>7. ObjectInv'
  <2> SUFFICES ASSUME NEW u \in Trans
               PROVE  /\ initial'[u] => life'[u] = "none"
                      /\ refs'[u] # {} => life'[u] = "live"
                      /\ ndtor'[u] = IF life'[u] \in {"dying", "freed"} THEN 1 ELSE 0
                      /\ pc'[u] = "new" => life'[u] = "none"
                      /\ pc'[u] # "delete"
    BY ZenonT(30) DEF ObjectInv
  <2>1. /\ initial[u] => life[u] = "none"
        /\ refs[u] # {} => life[u] = "live"
        /\ ndtor[u] = IF life[u] \in {"dying", "freed"} THEN 1 ELSE 0
        /\ pc[u] = "new" => life[u] = "none"
        /\ pc[u] # "delete"
    BY ZenonT(30) DEF LifeInv, ObjectInv
  <2>2. /\ initial'[u] => initial[u] /\ u # t
        /\ refs'[u] # {} => refs[u] # {} /\ u # t
    BY ZenonT(30), <1>t, <2>1 DEF Dies
  <2>3. pc'[u] \in {"new", "delete"} => pc'[u] = pc[u]
    BY ZenonT(30), <1>5, <1>6, <1>p
  <2>4. u = t => life'[u] = w /\ ndtor'[u] = 1 /\ w \in {"dying", "freed"}
    BY ONLY ZenonT(30), <1>3, <1>4, u \in Trans, w \in {"dying", "freed"}
  <2>5. u # t => life'[u] = life[u] /\ ndtor'[u] = ndtor[u]
    BY ONLY ZenonT(30), <1>3, <1>4, u \in Trans
  <2>6. u = t => pc'[u] # "new"
    BY ZenonT(30), <1>t, <2>1, <2>3
  <2> QED BY ONLY ZenonT(30), <2>1, <2>2, <2>3, <2>4, <2>5, <2>6
<1>8. DestructorInv'
  <2>1. CASE p = "remove" /\ EnterDtor(x, t)
    <3>1. \A y \in Threads : victim'[y] = IF y = x THEN t ELSE victim[y]
      BY ZenonT(30), <1>t, <2>1 DEF EnterDtor
    <3>2. life' = [life EXCEPT ![t] = "dying"]
      BY <2>1 DEF EnterDtor
    <3>3. \A u \in Trans : life'[u] = IF u = t THEN "dying" ELSE life[u]
      BY ZenonT(30), <1>t, <3>2
    <3>4. t # NoTrans
      BY ZenonT(30), CoreAssumption
    <3> QED BY SMT, SMTT(30), <3>1, <3>3, <3>4, <1>5, <1>t DEF LifeInv, DestructorInv
  <2>2. CASE p \in {"gone", "wait", "fetch", "handle"} /\ FreeClosed(t)
    <3>1. victim' = victim
      BY ZenonT(30), <2>2 DEF FreeClosed, dtor
    <3> QED BY SMT, SMTT(30), <3>1, <2>2, <1>3, <1>5, <1>t DEF LifeInv, DestructorInv
  <2> QED BY ZenonT(30), <2>1, <2>2 DEF Dies
<1>9. \A u \in Trans : life[u] # "none" => life'[u] # "none"
  BY ZenonT(30), <1>3
<1> QED BY ZenonT(30), <1>1, <1>2, <1>7, <1>8, <1>9, <1>t DEF Dies

LEMMA LivesOnLife ==
    ASSUME LifeInv, NEW x \in Threads, NEW p, Lives_on(x, p)
    PROVE  /\ life' \in [Trans -> Lives] /\ ndtor' \in [Trans -> Nat]
           /\ refs' \in [Trans -> SUBSET Holders] /\ initial' \in [Trans -> BOOLEAN]
           /\ pc' \in [Threads -> Places]
           /\ victim' \in [Threads -> Trans \cup {NoTrans}]
           /\ ObjectInv' /\ DestructorInv'
           /\ \A u \in Trans : life[u] # "none" => life'[u] # "none"
<1>1. pc' \in [Threads -> Places] /\ \A y \in Threads : pc'[y] = IF y = x THEN p ELSE pc[y]
  BY ZenonT(30) DEF Lives_on, LifeInv, LifeTypes, Places
<1>2. Trans \subseteq Threads
  BY ZenonT(30) DEF Threads
<1>3. ObjectInv'
  BY ZenonT(30), <1>1, <1>2 DEF LifeInv, LifeTypes, ObjectInv, Lives_on
<1>4. DestructorInv'
  BY ZenonT(30), <1>1 DEF LifeInv, LifeTypes, DestructorInv, Lives_on
<1> QED BY ZenonT(30), <1>1, <1>3, <1>4 DEF LifeInv, LifeTypes, Lives_on

\* A thread moves on to a place that nothing is claimed of, and takes no reference
\* away.
Moves(x, p) ==
    /\ pc' = [pc EXCEPT ![x] = p]
    /\ p \in {"created", "failed", "owned", "fetch", "hupRemove"}
    /\ refs' \in [Trans -> SUBSET Holders]
    /\ \A u \in Trans : refs[u] \subseteq refs'[u] /\ (refs'[u] # {} => life[u] = "live")
    /\ initial' \in [Trans -> BOOLEAN] /\ \A u \in Trans : initial'[u] => initial[u]
    /\ UNCHANGED <<life, ndtor, victim, trans, found>>

LEMMA MovesLife ==
    ASSUME LifeInv, NEW x \in Threads, NEW p, Moves(x, p)
    PROVE  LifeInv'
<1>1. pc' \in [Threads -> Places] /\ \A y \in Threads : pc'[y] = IF y = x THEN p ELSE pc[y]
  BY ZenonT(30) DEF Moves, LifeInv, LifeTypes, Places
<1>2. p \notin {"new", "delete", "check", "remove", "del", "close"}
  BY ZenonT(30) DEF Moves
<1>3. Trans \subseteq Threads /\ Poller \in Threads
  BY ZenonT(30) DEF Threads
<1>4. LifeTypes'
  BY ZenonT(30), <1>1 DEF LifeInv, LifeTypes, Moves
<1>5. ObjectInv'
  BY ZenonT(30), <1>1, <1>2, <1>3 DEF LifeInv, ObjectInv, Moves
<1>6. PointerInv'
  <2>1. found \in Trans \cup {NoTrans} /\ trans \in Trans \cup {NoTrans}
    BY ZenonT(30) DEF LifeInv, LifeTypes
  <2>2. found' = found /\ trans' = trans /\ \A u \in Trans : refs[u] \subseteq refs'[u]
    BY ZenonT(30) DEF Moves
  <2>3. PointerInv
    BY ZenonT(30) DEF LifeInv
  <2> QED BY ONLY ZenonT(30), <1>1, <1>2, <1>3, <2>1, <2>2, <2>3 DEF PointerInv
<1>7. DestructorInv'
  BY ZenonT(30), <1>1, <1>2 DEF LifeInv, DestructorInv, Moves
<1> QED BY ZenonT(30), <1>4, <1>5, <1>6, <1>7 DEF LifeInv

\* Each action preserves the invariant.
LEMMA LifeAdd ==
    ASSUME RawCreated = {}, LifeInv, NEW t \in Trans, EpollAdd(t) \/ InitFailed(t)
    PROVE  LifeInv'
<1>1. \E p \in {"created", "failed", "owned"} : pc' = [pc EXCEPT ![t] = p]
  BY ZenonT(30) DEF EpollAdd, InitFailed
<1>2. UNCHANGED <<life, ndtor, refs, initial, victim, trans, found>>
  BY ZenonT(30) DEF EpollAdd, InitFailed, objects, dtor, poller
<1>3. \E p : Moves(t, p)
  BY ZenonT(30), <1>1, <1>2 DEF Moves, LifeInv, LifeTypes, ObjectInv
<1> QED BY ZenonT(30), <1>3, MovesLife DEF Threads

LEMMA LifeOwn ==
    ASSUME RawCreated = {}, LifeInv, NEW t \in Trans, Own(t)
    PROVE  LifeInv'
<1>1. /\ refs' = [refs EXCEPT ![t] = refs[t] \cup {"owner"}] /\ initial' = [initial EXCEPT ![t] = FALSE]
      /\ life[t] = "live" /\ UNCHANGED <<life, ndtor, victim, trans, found>>
  BY ZenonT(30) DEF Own, dtor, poller
<1>2. refs \in [Trans -> SUBSET Holders] /\ initial \in [Trans -> BOOLEAN] /\ "owner" \in Holders
  BY ZenonT(30) DEF LifeInv, LifeTypes, Holders
<1>3. refs' \in [Trans -> SUBSET Holders] /\ initial' \in [Trans -> BOOLEAN]
  BY ONLY ZenonT(30), <1>1, <1>2
<1>4. \A u \in Trans : refs[u] # {} => life[u] = "live"
  BY ZenonT(30) DEF LifeInv, ObjectInv
<1>5. \A u \in Trans : refs[u] \subseteq refs'[u] /\ (refs'[u] # {} => life[u] = "live")
  BY ONLY ZenonT(30), <1>1, <1>2, <1>4
<1>6. \A u \in Trans : initial'[u] => initial[u]
  BY ONLY ZenonT(30), <1>1, <1>2
<1>7. Moves(t, "owned")
  BY ZenonT(30), <1>1, <1>3, <1>5, <1>6 DEF Moves, Own
<1> QED BY ZenonT(30), <1>7, MovesLife DEF Threads

LEMMA LifePlain ==
    ASSUME RawCreated = {}, LifeInv, epoll_wait \/ HandleRead \/ HupClose \/ HupDone
    PROVE  LifeInv'
<1>1. \E p \in {"fetch", "hupRemove"} : pc' = [pc EXCEPT ![Poller] = p]
  BY ZenonT(30) DEF epoll_wait, HandleRead, HupClose, HupDone
<1>2. UNCHANGED <<life, ndtor, refs, initial, victim, trans, found>>
  BY ZenonT(30) DEF epoll_wait, HandleRead, HupClose, HupDone, objects, dtor, poller
<1>3. \E p : Moves(Poller, p)
  BY ZenonT(30), <1>1, <1>2 DEF Moves, LifeInv, LifeTypes, ObjectInv
<1> QED BY ZenonT(30), <1>3, MovesLife DEF Threads

LEMMA LifeCreate ==
    ASSUME RawCreated = {}, LifeInv, NEW t \in Trans, Create(t)
    PROVE  LifeInv'
<1>1. LifeTypes'
  <2>1. life' \in [Trans -> Lives] /\ pc' \in [Threads -> Places] /\ ndtor' \in [Trans -> Nat]
    BY ZenonT(30) DEF LifeInv, LifeTypes, Create, Lives, Places
  <2>2. refs' \in [Trans -> SUBSET Holders] /\ initial' \in [Trans -> BOOLEAN]
    <3>1. /\ refs' = [refs EXCEPT ![t] = IF t \in RawCreated THEN {} ELSE {"owner"}]
          /\ initial' = [initial EXCEPT ![t] = t \in RawCreated]
      BY ZenonT(30) DEF Create
    <3>2. (IF t \in RawCreated THEN {} ELSE {"owner"}) \in SUBSET Holders
      BY ZenonT(30) DEF Holders
    <3>3. refs \in [Trans -> SUBSET Holders] /\ initial \in [Trans -> BOOLEAN]
      BY ZenonT(30) DEF LifeInv, LifeTypes
    <3>4. refs' \in [Trans -> SUBSET Holders]
      BY ZenonT(30), <3>1, <3>2, <3>3
    <3>5. initial' \in [Trans -> BOOLEAN]
      BY ONLY SMT, SMTT(30), <3>1, <3>3
    <3> QED BY ZenonT(30), <3>4, <3>5
  <2>3. UNCHANGED <<victim, trans, found>>
    BY ZenonT(30) DEF Create, dtor, poller
  <2> QED BY ZenonT(30), <2>1, <2>2, <2>3 DEF LifeInv, LifeTypes
<1>2. ObjectInv'
  <2>1. \A u \in Trans : IF u = t THEN life'[u] = "live" /\ pc'[u] = "insert"
                           ELSE life'[u] = life[u] /\ pc'[u] = pc[u] /\ refs'[u] = refs[u]
    BY ZenonT(30) DEF LifeInv, LifeTypes, Create, Threads
  <2>3. \A u \in Trans : IF u = t THEN ~initial'[u] ELSE initial'[u] => initial[u]
    <3>1. initial' = [initial EXCEPT ![t] = t \in RawCreated] /\ t \notin RawCreated
      BY ZenonT(30) DEF Create
    <3>2. initial \in [Trans -> BOOLEAN]
      BY ZenonT(30) DEF LifeInv, LifeTypes
    <3> QED BY ZenonT(30), <3>1, <3>2
  <2>2. life[t] = "none" /\ ndtor' = ndtor
    BY ZenonT(30) DEF LifeInv, ObjectInv, Create
  <2> QED BY ZenonT(30), <2>1, <2>2, <2>3 DEF LifeInv, ObjectInv
<1>3. PointerInv'
  BY ZenonT(30), CoreAssumption DEF LifeInv, LifeTypes, PointerInv, ObjectInv, Create, Threads, poller
<1>4. DestructorInv'
  BY ZenonT(30), CoreAssumption DEF LifeInv, LifeTypes, DestructorInv, ObjectInv, Create, Threads, dtor
<1> QED BY ZenonT(30), <1>1, <1>2, <1>3, <1>4 DEF LifeInv

\* decStrong is one of the two kinds of step.
Dropped(x, t, r, next) ==
    /\ \A u \in Trans : refs'[u] = IF u = t THEN refs[t] \ {r} ELSE refs[u]
    /\ LifeTypes
    /\ (\E p : Dies(x, t, p)) \/ Lives_on(x, next)

LEMMA Drop ==
    ASSUME LifeInv, NEW x \in Threads, NEW t \in Trans, NEW r \in Holders,
           NEW next \in {"gone", "wait"}, decStrong(x, t, r, next), UNCHANGED <<initial, mQueue>>
    PROVE  Dropped(x, t, r, next)
<1>t. LifeTypes
  BY ZenonT(30) DEF LifeInv
<1>1. refs' = [refs EXCEPT ![t] = refs[t] \ {r}]
  BY ZenonT(30) DEF decStrong
<1>2. /\ refs' \in [Trans -> SUBSET Holders]
      /\ \A u \in Trans : refs'[u] = IF u = t THEN refs[t] \ {r} ELSE refs[u]
  BY ZenonT(30), <1>t, <1>1 DEF LifeTypes
<1>3. \A u \in Trans : refs'[u] # {} => refs[u] # {}
  BY ZenonT(30), <1>2
<1>4. CASE refs[t] # {r}
  <2>1. Lives_on(x, next)
    BY ZenonT(30), <1>t, <1>2, <1>3, <1>4 DEF decStrong, Lives_on, LifeTypes, dtor
  <2> QED BY ZenonT(30), <2>1, <1>2, <1>t DEF Dropped
<1>5. CASE refs[t] = {r}
  <2>1. refs[t] # {} /\ refs'[t] = {}
    BY ZenonT(30), <1>2, <1>5
  <2>2. Dies(x, t, "remove") \/ Dies(x, t, next)
    BY ZenonT(30), <1>2, <1>3, <1>5, <2>1 DEF decStrong, Dies
  <2> QED BY ZenonT(30), <2>2, <1>2, <1>t DEF Dropped
<1> QED BY <1>4, <1>5

LEMMA LifeRelease ==
    ASSUME RawCreated = {}, LifeInv, NEW t \in Trans, Release(t)
    PROVE  LifeInv'
<1>1. t \in Threads /\ "owner" \in Holders /\ Poller \in Threads
  BY ZenonT(30) DEF Threads, Holders
<1>2. /\ decStrong(t, t, "owner", "gone") /\ UNCHANGED <<initial, mQueue>>
      /\ trans' = trans /\ found' = found
  BY ZenonT(30) DEF Release, poller
<1>3. /\ \A u \in Trans : refs'[u] = IF u = t THEN refs[t] \ {"owner"} ELSE refs[u]
      /\ LifeTypes
      /\ (\E p : Dies(t, t, p)) \/ Lives_on(t, "gone")
  <2>1. Dropped(t, t, "owner", "gone")
    BY <1>1, <1>2, Drop, ZenonT(30)
  <2> QED BY ZenonT(30), <2>1 DEF Dropped
<1>4. /\ LifeTypes' /\ ObjectInv' /\ DestructorInv'
      /\ \A u \in Trans : life[u] # "none" => life'[u] # "none"
  BY ZenonT(30), <1>1, <1>2, <1>3, DiesLife, LivesOnLife DEF LifeTypes
<1>5. pc'[Poller] = pc[Poller]
  BY ZenonT(30), <1>1, <1>3, CoreAssumption DEF Dies, Lives_on, LifeTypes
<1>6. PointerInv'
  BY ZenonT(30), <1>2, <1>3, <1>4, <1>5 DEF LifeInv, LifeTypes, PointerInv
<1> QED BY ZenonT(30), <1>4, <1>6 DEF LifeInv

LEMMA LifeEndBatch ==
    ASSUME RawCreated = {}, LifeInv, EndBatch
    PROVE  LifeInv'
<1>1. Poller \in Threads /\ "trans" \in Holders /\ LifeTypes
  BY ZenonT(30) DEF Threads, Holders, LifeInv
<1>2. UNCHANGED <<initial, mQueue>> /\ trans' = NoTrans /\ found' = found
  BY ZenonT(30) DEF EndBatch
<1>3. CASE trans = NoTrans
  <2>1. Lives_on(Poller, "wait") /\ refs' = refs
    BY ZenonT(30), <1>1, <1>2, <1>3 DEF EndBatch, decStrong, Lives_on, LifeTypes, dtor
  <2>2. /\ LifeTypes' /\ ObjectInv' /\ DestructorInv'
        /\ \A u \in Trans : life[u] # "none" => life'[u] # "none"
    BY ZenonT(30), <1>1, <1>2, <2>1, LivesOnLife DEF LifeTypes
  <2>3. pc'[Poller] = "wait"
    BY ZenonT(30), <1>1, <2>1 DEF Lives_on, LifeTypes
  <2>4. PointerInv'
    BY ZenonT(30), <1>2, <2>1, <2>2, <2>3 DEF LifeInv, LifeTypes, PointerInv
  <2> QED BY ZenonT(30), <2>2, <2>4 DEF LifeInv
<1>4. CASE trans # NoTrans
  <2>1. trans \in Trans /\ decStrong(Poller, trans, "trans", "wait")
    BY ZenonT(30), <1>1, <1>4 DEF EndBatch, LifeTypes
  <2>2. /\ \A u \in Trans : refs'[u] = IF u = trans THEN refs[trans] \ {"trans"} ELSE refs[u]
        /\ (\E p : Dies(Poller, trans, p)) \/ Lives_on(Poller, "wait")
    <3>1. Dropped(Poller, trans, "trans", "wait")
      BY ZenonT(30), <1>1, <1>2, <2>1, Drop
    <3> QED BY ZenonT(30), <3>1 DEF Dropped
  <2>3. /\ LifeTypes' /\ ObjectInv' /\ DestructorInv'
        /\ \A u \in Trans : life[u] # "none" => life'[u] # "none"
    BY ZenonT(30), <1>1, <1>2, <2>1, <2>2, DiesLife, LivesOnLife DEF LifeTypes
  <2>4. pc'[Poller] # "check"
    BY ZenonT(30), <1>1, <2>2 DEF Dies, Lives_on, LifeTypes
  <2>5. PointerInv'
    BY ZenonT(30), <1>2, <2>2, <2>3, <2>4 DEF LifeInv, LifeTypes, PointerInv
  <2> QED BY <2>3, <2>5 DEF LifeInv
<1> QED BY <1>3, <1>4

LEMMA LifeClose ==
    ASSUME RawCreated = {}, LifeInv, NEW x \in Threads, EpollDel(x) \/ Close(x)
    PROVE  LifeInv'
<1>t. LifeTypes /\ trans' = trans /\ found' = found /\ refs' = refs /\ initial' = initial /\ ndtor' = ndtor
  BY ZenonT(30) DEF LifeInv, EpollDel, Close, poller
<1>d. ObjectInv /\ PointerInv /\ DestructorInv
  BY ZenonT(30) DEF LifeInv
<1>v. victim[x] \in Trans /\ life[victim[x]] = "dying" /\ refs[victim[x]] = {}
  BY SMT, SMTT(30), <1>t DEF LifeInv, LifeTypes, EpollDel, Close, DestructorInv, ObjectInv
<1>1. CASE pc' = [pc EXCEPT ![x] = "close"] /\ UNCHANGED <<life, victim>>
  <2>1. LifeTypes' /\ \A y \in Threads : pc'[y] = IF y = x THEN "close" ELSE pc[y]
    BY ZenonT(30), <1>t, <1>1 DEF LifeTypes, Places
  <2>2. ObjectInv' /\ PointerInv' /\ DestructorInv'
    <3>1. ObjectInv'
      BY ONLY SMT, SMTT(30), <1>d, <1>t, <1>1, <2>1 DEF ObjectInv, Threads
    <3>2. PointerInv'
      BY ONLY ZenonT(30), <1>d, <1>t, <2>1 DEF PointerInv, Threads
    <3>3. DestructorInv'
      BY ONLY ZenonT(30), <1>d, <1>v, <1>1, <2>1, CoreAssumption DEF DestructorInv
    <3> QED BY ZenonT(30), <3>1, <3>2, <3>3
  <2> QED BY ZenonT(30), <2>1, <2>2 DEF LifeInv
<1>2. CASE /\ life' = [life EXCEPT ![victim[x]] = "freed"]
           /\ pc' = [pc EXCEPT ![x] = After(x)]
           /\ victim' = [victim EXCEPT ![x] = NoTrans]
  <2>1. /\ \A y \in Threads : pc'[y] = IF y = x THEN After(x) ELSE pc[y]
        /\ \A y \in Threads : victim'[y] = IF y = x THEN NoTrans ELSE victim[y]
        /\ \A u \in Trans : life'[u] = IF u = victim[x] THEN "freed" ELSE life[u]
        /\ After(x) \in {"wait", "gone"}
    BY ZenonT(30), <1>t, <1>v, <1>2 DEF LifeTypes, After
  <2>2. LifeTypes'
    BY ZenonT(30), <1>t, <1>v, <1>2, <2>1 DEF LifeTypes, Places, Lives
  <2>3. ObjectInv'
    BY ZenonT(30), <1>t, <1>v, <2>1 DEF LifeInv, ObjectInv, Threads
  <2>4. PointerInv'
    BY ZenonT(30), <1>t, <2>1 DEF LifeInv, PointerInv, Threads
  <2>5. DestructorInv'
    <3>0. victim \in [Threads -> Trans \cup {NoTrans}]
      BY <1>t, ZenonT(30) DEF LifeTypes
    <3>1. \A y \in Threads : victim'[y] # NoTrans => life'[victim'[y]] = "dying"
      BY ONLY SMT, SMTT(30), x \in Threads, <1>d, <1>v, <2>1, <3>0 DEF DestructorInv
    <3>2. \A y \in Threads : pc'[y] \in {"remove", "del", "close"} => victim'[y] # NoTrans
      BY ONLY ZenonT(30), <1>d, <2>1 DEF DestructorInv
    <3>3. \A y, z \in Threads : victim'[y] = victim'[z] /\ y # z => victim'[y] = NoTrans
      BY ONLY SMT, SMTT(30), <1>d, <2>1 DEF DestructorInv
    <3> QED BY ONLY <3>1, <3>2, <3>3, ZenonT(30) DEF DestructorInv
  <2> QED BY ZenonT(30), <2>2, <2>3, <2>4, <2>5 DEF LifeInv
<1> QED BY ZenonT(30), <1>1, <1>2 DEF EpollDel, Close, dtor

LEMMA LifeFetch ==
    ASSUME RawCreated = {}, LifeInv, ListedInv, fetch
    PROVE  LifeInv'
<1>t. LifeTypes /\ Poller \in Threads /\ trans' = trans /\ UNCHANGED <<life, ndtor, victim>>
  BY ZenonT(30) DEF LifeInv, fetch, Threads, dtor
<1>1. CASE UNCHANGED <<refs, initial, pc, found>>
  BY ZenonT(30), <1>t, <1>1 DEF LifeInv, LifeTypes, ObjectInv, PointerInv, DestructorInv
<1>2. ASSUME NEW i \in 1 .. Len(mQueue), NEW t, t = mQueue[i].socket_inst,
             refs[t] # {} \/ initial[t],
             refs' = [refs EXCEPT ![t] = @ \cup {"temp"}],
             initial' = [initial EXCEPT ![t] = FALSE],
             found' = t, pc' = [pc EXCEPT ![Poller] = "check"]
      PROVE  LifeInv'
  <2>1. t \in Trans /\ life[t] # "none" /\ t # NoTrans
    BY ZenonT(30), <1>2, CoreAssumption DEF ListedInv
  <2>2. refs[t] # {} /\ life[t] = "live"
    BY ZenonT(30), <1>2, <2>1 DEF LifeInv, ObjectInv
  <2>3. /\ refs' \in [Trans -> SUBSET Holders]
        /\ \A u \in Trans : refs'[u] = IF u = t THEN refs[t] \cup {"temp"} ELSE refs[u]
    BY ZenonT(30), <1>t, <1>2, <2>1 DEF LifeTypes, Holders
  <2>4. initial' \in [Trans -> BOOLEAN] /\ \A u \in Trans : initial'[u] => initial[u]
    BY ZenonT(30), <1>t, <1>2, <2>1 DEF LifeTypes
  <2>5. Lives_on(Poller, "check")
    BY ZenonT(30), <1>t, <1>2, <2>2, <2>3, <2>4 DEF Lives_on
  <2>6. LifeTypes' /\ ObjectInv' /\ DestructorInv'
    BY ZenonT(30), <1>t, <1>2, <2>1, <2>5, LivesOnLife DEF LifeTypes
  <2>7. PointerInv'
    BY ZenonT(30), <1>t, <1>2, <2>1, <2>3 DEF LifeInv, LifeTypes, PointerInv
  <2> QED BY ZenonT(30), <2>6, <2>7 DEF LifeInv
<1> QED BY ZenonT(30), <1>1, <1>2 DEF fetch

LEMMA LifeFetchStale ==
    ASSUME RawCreated = {}, LifeInv, FetchStale
    PROVE  LifeInv'
<1>t. LifeTypes /\ Poller \in Threads /\ trans' = trans /\ initial' = initial
  BY ZenonT(30) DEF LifeInv, FetchStale, Threads
<1>f. found \in Trans /\ "temp" \in refs[found] /\ found' = NoTrans
  BY ZenonT(30), <1>t DEF LifeInv, LifeTypes, PointerInv, FetchStale
<1>1. /\ refs' = [refs EXCEPT ![found] = refs[found] \ {"temp"}]
      /\ pc' = [pc EXCEPT ![Poller] = "fetch"]
  BY ZenonT(30) DEF FetchStale
<1>2. /\ refs' \in [Trans -> SUBSET Holders]
      /\ \A u \in Trans : refs'[u] = IF u = found THEN refs[found] \ {"temp"} ELSE refs[u]
      /\ pc' \in [Threads -> Places]
      /\ \A y \in Threads : pc'[y] = IF y = Poller THEN "fetch" ELSE pc[y]
  BY ZenonT(30), <1>t, <1>f, <1>1 DEF LifeTypes, Places
<1>p. PointerInv'
  BY ZenonT(30), <1>t, <1>f, <1>2 DEF LifeInv, LifeTypes, PointerInv
<1>3. CASE refs[found] = {"temp"}
  <2>1. FreeClosed(found)
    BY ZenonT(30), <1>3 DEF FetchStale
  <2>2. refs'[found] = {} /\ \A u \in Trans : u # found => refs'[u] = refs[u]
    BY ZenonT(30), <1>2, <1>3, <1>f
  <2>3. /\ life' = [life EXCEPT ![found] = "freed"]
        /\ ndtor' = [ndtor EXCEPT ![found] = ndtor[found] + 1]
        /\ victim' = victim
    BY ZenonT(30), <2>1 DEF FreeClosed, dtor
  <2>4. life[found] = "live" /\ ndtor[found] = 0
    BY ZenonT(30), <1>f DEF LifeInv, ObjectInv
  <2>5. /\ life' \in [Trans -> Lives] /\ ndtor' \in [Trans -> Nat]
        /\ \A u \in Trans : life'[u] = IF u = found THEN "freed" ELSE life[u]
        /\ \A u \in Trans : ndtor'[u] = IF u = found THEN 1 ELSE ndtor[u]
    BY ONLY SMT, SMTT(30), <1>t, <1>f, <2>3, <2>4 DEF LifeTypes, Lives
  <2>6. LifeTypes'
    BY ZenonT(30), <1>t, <1>f, <1>2, <2>3, <2>5 DEF LifeTypes
  <2>7. ObjectInv'
    <3>1. \A u \in Trans : pc'[u] = pc[u] \/ pc'[u] = "fetch"
      BY ZenonT(30), <1>2 DEF Threads
    <3> QED BY SMT, SMTT(30), <1>t, <1>f, <3>1, <2>2, <2>4, <2>5 DEF LifeInv, ObjectInv
  <2>8. DestructorInv'
    BY SMT, SMTT(30), <1>t, <1>2, <2>3, <2>4, <2>5 DEF LifeInv, LifeTypes, DestructorInv
  <2> QED BY ZenonT(30), <2>6, <2>7, <2>8, <1>p DEF LifeInv
<1>4. CASE refs[found] # {"temp"}
  <2>1. UNCHANGED <<life, ndtor, victim>>
    BY ZenonT(30), <1>4 DEF FetchStale, dtor
  <2>2. \A u \in Trans : refs'[u] # {} => refs[u] # {}
    BY ZenonT(30), <1>2
  <2>3. Lives_on(Poller, "fetch")
    BY ZenonT(30), <1>t, <1>1, <1>2, <2>1, <2>2 DEF Lives_on, LifeTypes
  <2>4. LifeTypes' /\ ObjectInv' /\ DestructorInv'
    BY ZenonT(30), <1>t, <1>f, <2>3, LivesOnLife DEF LifeTypes
  <2> QED BY ZenonT(30), <2>4, <1>p DEF LifeInv
<1> QED BY ZenonT(30), <1>3, <1>4

LEMMA LifeFetchAssign ==
    ASSUME RawCreated = {}, LifeInv, FetchAssign
    PROVE  LifeInv'
<1> DEFINE taken == [refs EXCEPT ![found] = (refs[found] \ {"temp"}) \cup {"trans"}]
           last == trans \notin {NoTrans, found} /\ refs[trans] = {"trans"}
<1>t. LifeTypes /\ Poller \in Threads /\ UNCHANGED <<initial, mQueue>>
  BY ZenonT(30) DEF LifeInv, FetchAssign, Threads
<1>f. /\ found \in Trans /\ found # NoTrans /\ "temp" \in refs[found]
      /\ trans' = found /\ found' = NoTrans
  BY ZenonT(30), <1>t, CoreAssumption DEF LifeInv, LifeTypes, PointerInv, FetchAssign
<1>1. /\ taken \in [Trans -> SUBSET Holders]
      /\ \A u \in Trans : taken[u] = IF u = found THEN (refs[found] \ {"temp"}) \cup {"trans"} ELSE refs[u]
  BY ZenonT(30), <1>t, <1>f DEF LifeTypes, Holders
<1>2. CASE ~last
  <2>1. /\ refs' = [t \in Trans |-> IF t = trans /\ t # found THEN taken[t] \ {"trans"} ELSE taken[t]]
        /\ pc' = [pc EXCEPT ![Poller] = "handle"] /\ UNCHANGED <<life, ndtor, victim>>
    BY <1>2, ZenonT(30) DEF FetchAssign, dtor
  <2> HIDE DEF taken
  <2>2. refs' \in [Trans -> SUBSET Holders] /\ "trans" \in refs'[found]
    BY ZenonT(30), <2>1, <1>1, <1>f DEF Holders
  <2>3. \A u \in Trans : refs'[u] # {} => refs[u] # {}
    BY ZenonT(30), <2>1, <1>1, <1>f
  <2>4. Lives_on(Poller, "handle")
    BY ZenonT(30), <1>t, <2>1, <2>2, <2>3 DEF Lives_on, LifeTypes
  <2>5. LifeTypes' /\ ObjectInv' /\ DestructorInv'
    BY ZenonT(30), <1>t, <1>f, <2>4, LivesOnLife DEF LifeTypes
  <2>6. PointerInv'
    BY ZenonT(30), <1>t, <1>f, <2>1, <2>2 DEF PointerInv, LifeTypes
  <2> QED BY ZenonT(30), <2>5, <2>6 DEF LifeInv
<1>3. CASE last
  <2>1. trans \in Trans /\ trans # found /\ refs[trans] # {}
    BY ZenonT(30), <1>t, <1>3 DEF LifeTypes
  <2>2. refs' = [taken EXCEPT ![trans] = {}]
    BY ZenonT(30), <1>3 DEF FetchAssign
  <2>3. \E p \in {"remove", "handle"} :
          /\ pc' = [pc EXCEPT ![Poller] = p]
          /\ \/ p = "remove" /\ EnterDtor(Poller, trans)
             \/ p = "handle" /\ FreeClosed(trans)
    BY ZenonT(30), <1>3 DEF FetchAssign
  <2> HIDE DEF taken, last
  <2>4. /\ refs' \in [Trans -> SUBSET Holders] /\ refs'[trans] = {}
        /\ "trans" \in refs'[found]
        /\ \A u \in Trans : refs'[u] # {} => refs[u] # {}
    BY ZenonT(30), <1>1, <1>f, <2>1, <2>2
  <2>5. \E p : Dies(Poller, trans, p)
    BY <1>t, <2>1, <2>3, <2>4, ZenonT(30) DEF Dies
  <2>6. LifeTypes' /\ ObjectInv' /\ DestructorInv'
    BY ZenonT(30), <1>t, <1>f, <2>1, <2>5, DiesLife DEF LifeTypes
  <2>7. pc'[Poller] # "check"
    BY ZenonT(30), <1>t, <2>3 DEF LifeTypes
  <2>8. PointerInv'
    BY ZenonT(30), <1>f, <2>4, <2>7 DEF PointerInv
  <2> QED BY <2>6, <2>8 DEF LifeInv
<1> QED BY ZenonT(30), <1>2, <1>3

\* Dropping the weak reference of an item destroys nothing: its object has had a
\* strong one.
LEMMA LifeWeak ==
    ASSUME LifeInv, ListedInv, NEW x \in Threads, NEW next \in {"add", "del", "hupDone"},
           NEW i \in 1 .. Len(mQueue), decWeak(x, mQueue[i].socket_inst, next)
    PROVE  UNCHANGED <<life, ndtor, victim>> /\ pc' = [pc EXCEPT ![x] = next]
<1>1. mQueue[i].socket_inst \in Trans /\ ~initial[mQueue[i].socket_inst]
  BY ZenonT(30) DEF ListedInv, LifeInv, ObjectInv
<1> QED BY <1>1, ZenonT(30) DEF decWeak, dtor

LEMMA LifeList ==
    ASSUME RawCreated = {}, LifeInv, ListedInv,
           (\E t \in Trans : insert(t)) \/ (\E x \in Threads : remove(x)) \/ HupRemove
    PROVE  LifeInv'
<1>t. LifeTypes /\ UNCHANGED <<refs, initial, trans, found>>
  BY ZenonT(30) DEF LifeInv, insert, remove, HupRemove, objects, poller
<1>1. \E x \in Threads, p \in {"add", "del", "hupDone"} :
         /\ UNCHANGED <<life, ndtor, victim>> /\ pc' = [pc EXCEPT ![x] = p]
         /\ p = "del" => pc[x] = "remove"
  <2>1. ASSUME NEW t \in Trans, insert(t)
        PROVE  UNCHANGED <<life, ndtor, victim>> /\ pc' = [pc EXCEPT ![t] = "add"]
    BY <2>1, LifeWeak, ZenonT(30) DEF insert, objects, dtor, Threads
  <2>2. ASSUME NEW x \in Threads, remove(x)
        PROVE  UNCHANGED <<life, ndtor, victim>> /\ pc' = [pc EXCEPT ![x] = "del"] /\ pc[x] = "remove"
    BY <2>2, LifeWeak, ZenonT(30) DEF remove, objects, dtor
  <2>3. ASSUME HupRemove PROVE UNCHANGED <<life, ndtor, victim>> /\ pc' = [pc EXCEPT ![Poller] = "hupDone"]
    BY ZenonT(30), <2>3, LifeWeak DEF HupRemove, objects, dtor, Threads
  <2>4. Poller \in Threads /\ Trans \subseteq Threads
    BY DEF Threads
  <2> QED BY ZenonT(30), <2>1, <2>2, <2>3, <2>4
<1>2. PICK x \in Threads, p \in {"add", "del", "hupDone"} :
         /\ UNCHANGED <<life, ndtor, victim>> /\ pc' = [pc EXCEPT ![x] = p]
         /\ p = "del" => pc[x] = "remove"
  BY <1>1, ZenonT(30)
<1>3. pc' \in [Threads -> Places] /\ \A y \in Threads : pc'[y] = IF y = x THEN p ELSE pc[y]
  BY ZenonT(30), <1>t, <1>2 DEF LifeTypes, Places
<1>0. ObjectInv /\ PointerInv /\ DestructorInv
  BY ZenonT(30) DEF LifeInv
<1>4. LifeTypes' /\ ObjectInv' /\ PointerInv'
  <2>1. LifeTypes'
    BY ONLY ZenonT(30), <1>t, <1>2, <1>3 DEF LifeTypes
  <2>2. ObjectInv'
    BY ONLY SMT, SMTT(30), <1>0, <1>t, <1>2 DEF ObjectInv
  <2>3. PointerInv'
    BY ONLY ZenonT(30), <1>0, <1>t, <1>2, <1>3 DEF LifeTypes, PointerInv, Threads
  <2> QED BY ZenonT(30), <2>1, <2>2, <2>3
<1>5. DestructorInv'
  BY <1>0, <1>t, <1>2, <1>3, ZenonT(30) DEF DestructorInv
<1> QED BY <1>4, <1>5, ZenonT(30) DEF LifeInv

LEMMA LifeNext ==
    ASSUME RawCreated = {}, LifeInv, ListedInv, [Next]_vars
    PROVE  LifeInv'
<1>1. ASSUME NEW t \in Trans, Owner(t) PROVE LifeInv'
  <2>1. ~DeleteSelf(t)
    BY ZenonT(30) DEF LifeInv, ObjectInv, DeleteSelf
  <2> QED BY ZenonT(30), <1>1, <2>1, LifeCreate, LifeAdd, LifeOwn, LifeRelease, LifeList DEF Owner
<1>2. ASSUME NEW x \in Threads, CloseTransport(x) PROVE LifeInv'
  BY ZenonT(30), <1>2, LifeClose, LifeList DEF CloseTransport
<1>3. CASE threadLoop
  BY ZenonT(30), <1>3, LifeFetch, LifeFetchStale, LifeFetchAssign, LifePlain, LifeList, LifeEndBatch
    DEF threadLoop
<1>4. CASE UNCHANGED vars
  BY ZenonT(30), <1>4
    DEF vars, objects, dtor, poller, LifeInv, LifeTypes, ObjectInv, PointerInv, DestructorInv
<1> QED BY ZenonT(30), <1>1, <1>2, <1>3, <1>4 DEF Next

\* An object that exists never becomes one that was not made yet.
LEMMA NoneStays ==
    ASSUME LifeTypes, [Next]_vars
    PROVE  \A u \in Trans : life[u] # "none" => life'[u] # "none"
<1> DEFINE G == \A u \in Trans : life[u] # "none" => life'[u] # "none"
<1>u. life' = life => G
  OBVIOUS
<1>w. \A t, w : w \in {"live", "dying", "freed"} /\ life' = [life EXCEPT ![t] = w] => G
  BY ZenonT(30) DEF LifeTypes
<1> SUFFICES G
  OBVIOUS
<1> HIDE DEF G
<1>e. \A x, t : EnterDtor(x, t) => G
  BY <1>w, ZenonT(30) DEF EnterDtor
<1>f. \A t : FreeClosed(t) => G
  BY <1>w, ZenonT(30) DEF FreeClosed
<1>s. \A x, t, r, next : decStrong(x, t, r, next) => G
  BY <1>u, <1>e, <1>f, ZenonT(30) DEF decStrong
<1>d. \A x, o, next : decWeak(x, o, next) => G
  BY <1>u, <1>e, <1>f, ZenonT(30) DEF decWeak
<1>1. ASSUME NEW t \in Trans, Owner(t) PROVE G
  <2>1. CASE Create(t)
    BY <2>1, <1>w, ZenonT(30) DEF Create
  <2>2. CASE insert(t)
    BY <2>2, <1>u, <1>d, ZenonT(30) DEF insert, objects
  <2>3. CASE DeleteSelf(t) \/ Release(t)
    BY <2>3, <1>e, <1>s, ZenonT(30) DEF DeleteSelf, Release
  <2>4. CASE EpollAdd(t) \/ InitFailed(t) \/ Own(t)
    BY <2>4, <1>u, ZenonT(30) DEF EpollAdd, InitFailed, Own, objects
  <2> QED BY <1>1, <2>1, <2>2, <2>3, <2>4, ZenonT(30) DEF Owner
<1>2. ASSUME NEW x \in Threads, CloseTransport(x) PROVE G
  <2>1. CASE remove(x)
    BY <2>1, <1>u, <1>d, ZenonT(30) DEF remove, objects
  <2>2. CASE EpollDel(x) \/ Close(x)
    BY ZenonT(30), <2>2, <1>u, <1>w DEF EpollDel, Close
  <2> QED BY ZenonT(30), <1>2, <2>1, <2>2 DEF CloseTransport
<1>3. CASE threadLoop
  <2>1. CASE epoll_wait \/ fetch \/ HandleRead \/ HupClose \/ HupDone
    BY <2>1, <1>u, ZenonT(30) DEF epoll_wait, fetch, HandleRead, HupClose, HupDone, objects
  <2>2. CASE FetchStale \/ FetchAssign
    BY <2>2, <1>u, <1>e, <1>f, ZenonT(30) DEF FetchStale, FetchAssign
  <2>3. CASE HupRemove \/ EndBatch
    BY <2>3, <1>u, <1>s, <1>d, ZenonT(30) DEF HupRemove, EndBatch, objects
  <2> QED BY <1>3, <2>1, <2>2, <2>3, ZenonT(30) DEF threadLoop
<1>4. CASE UNCHANGED vars
  BY ZenonT(30), <1>4, <1>u DEF vars, objects
<1> QED BY ZenonT(30), <1>1, <1>2, <1>3, <1>4 DEF Next

LEMMA ListedNext ==
    ASSUME QueueInv, LifeTypes, ListedInv, [Next]_vars
    PROVE  ListedInv'
<1>n. \A u \in Trans : life[u] # "none" => life'[u] # "none"
  BY ZenonT(30), NoneStays
<1>q. mQueue \in Seq(AnyItem) /\ Len(mQueue) \in Nat /\ QueueStep
  BY SMT, SMTT(30), NextQueue DEF QueueInv
<1>i. \A t \in Trans : Item(sock[t], t) \in AnyItem /\ Item(sock[t], t).socket_inst = t
  BY ZenonT(30) DEF QueueInv, Item, AnyItem
<1>1. CASE mQueue' = mQueue
  BY ZenonT(30), <1>1, <1>n DEF ListedInv
<1>2. ASSUME NEW i \in 1 .. Len(mQueue), mQueue' = RemoveAt(mQueue, i) PROVE ListedInv'
  <2>1. /\ Len(mQueue') = Len(mQueue) - 1
        /\ \A k \in 1 .. i - 1 : mQueue'[k] = mQueue[k]
        /\ \A k \in i .. Len(mQueue) - 1 : mQueue'[k] = mQueue[k + 1]
    BY ONLY ZenonT(30), <1>q, <1>2, ItemRemove
  <2>2. \A k \in 1 .. Len(mQueue') : \E j \in 1 .. Len(mQueue) : mQueue'[k] = mQueue[j]
    <3> SUFFICES ASSUME NEW k \in 1 .. Len(mQueue') PROVE \E j \in 1 .. Len(mQueue) : mQueue'[k] = mQueue[j]
      OBVIOUS
    <3>1. CASE k < i
      BY ONLY SMT, SMTT(30), <3>1, <2>1, <1>q
    <3>2. CASE k >= i
      <4>1. k + 1 \in 1 .. Len(mQueue) /\ mQueue'[k] = mQueue[k + 1]
        BY ONLY SMT, SMTT(30), <3>2, <2>1, <1>q
      <4> QED BY ZenonT(30), <4>1
    <3> QED BY SMT, SMTT(30), <3>1, <3>2
  <2> QED BY ZenonT(30), <2>2, <1>n DEF ListedInv
<1>3. ASSUME NEW t \in Trans, NEW i \in 1 .. Len(mQueue) + 1, life[t] = "live",
             mQueue' = InsertAt(mQueue, i, Item(sock[t], t))
      PROVE  ListedInv'
  <2>1. /\ Len(mQueue') = Len(mQueue) + 1
        /\ \A k \in 1 .. i - 1 : mQueue'[k] = mQueue[k]
        /\ mQueue'[i] = Item(sock[t], t)
        /\ \A k \in i + 1 .. Len(mQueue) + 1 : mQueue'[k] = mQueue[k - 1]
    <3>1. Item(sock[t], t) \in AnyItem
      BY ZenonT(30), <1>i
    <3>2. InsertedAt(AnyItem, mQueue, i, Item(sock[t], t), mQueue')
      BY ZenonT(30), <3>1, <1>q, <1>3, InsertAtInserts
    <3> QED BY ONLY ZenonT(30), <3>2 DEF InsertedAt
  <2>2. \A k \in 1 .. Len(mQueue') : k = i \/ \E j \in 1 .. Len(mQueue) : mQueue'[k] = mQueue[j]
    <3> SUFFICES ASSUME NEW k \in 1 .. Len(mQueue'), k # i
                 PROVE  \E j \in 1 .. Len(mQueue) : mQueue'[k] = mQueue[j]
      BY ZenonT(30)
    <3>1. CASE k < i
      BY ONLY SMT, SMTT(30), <3>1, <2>1, <1>q
    <3>2. CASE k > i
      <4>1. k - 1 \in 1 .. Len(mQueue) /\ mQueue'[k] = mQueue[k - 1]
        BY ONLY SMT, SMTT(30), <3>2, <2>1, <1>q
      <4> QED BY ZenonT(30), <4>1
    <3> QED BY SMT, SMTT(30), <3>1, <3>2
  <2> QED BY SMT, SMTT(30), <2>1, <2>2, <1>n, <1>i, <1>3 DEF ListedInv
<1>4. ASSUME NEW t \in Trans, NEW i \in 1 .. Len(mQueue), life[t] = "live",
             mQueue' = [mQueue EXCEPT ![i] = Item(sock[t], t)]
      PROVE  ListedInv'
  <2>1. /\ Len(mQueue') = Len(mQueue)
        /\ \A k \in 1 .. Len(mQueue) : mQueue'[k] = IF k = i THEN Item(sock[t], t) ELSE mQueue[k]
    BY SMT, SMTT(30), <1>q, <1>4, <1>i
  <2> QED BY SMT, SMTT(30), <2>1, <1>n, <1>i, <1>4 DEF ListedInv
<1> QED BY ZenonT(30), <1>q, <1>1, <1>2, <1>3, <1>4 DEF QueueStep

CoreInv == QueueInv /\ LifeInv /\ ListedInv

\* When every transport is held by an sp<> before it is registered, an object
\* with a reference is alive and a destructor belongs to one thread, in every
\* reachable state, whatever hangs up, fails or is reused.
THEOREM CoreInvariance == ASSUME RawCreated = {} PROVE Spec => []CoreInv
<1>1. Init => CoreInv
  <2>1. Init => ListedInv
    BY SMT, SMTT(30) DEF Init, ListedInv
  <2> QED BY ZenonT(30), <2>1, InitQueue, InitLife DEF CoreInv
<1>2. CoreInv /\ [Next]_vars => CoreInv'
  <2> SUFFICES ASSUME CoreInv, [Next]_vars PROVE CoreInv'
    OBVIOUS
  <2>1. QueueInv'
    <3>1. mQueue' \in Seq(AnyItem) /\ QueueSorted'
      BY ZenonT(30), NextQueue, QueueStepSorted DEF CoreInv
    <3>2. sock' \in [Trans -> Int]
      BY ZenonT(30), NextSock DEF CoreInv, QueueInv
    <3> QED BY ZenonT(30), <3>1, <3>2 DEF QueueInv
  <2>2. LifeInv'
    BY ZenonT(30), LifeNext DEF CoreInv
  <2>3. ListedInv'
    BY ZenonT(30), ListedNext DEF CoreInv, LifeInv
  <2> QED BY ZenonT(30), <2>1, <2>2, <2>3 DEF CoreInv
<1> QED BY <1>1, <1>2, PTL DEF Spec

\* The poller never touches an object in its destructor or freed: fetch and the
\* event handling of threadLoop work on objects kept alive by _trans.
THEOREM FetchedAliveHolds == ASSUME RawCreated = {} PROVE Spec => []FetchedAlive
<1>1. CoreInv => FetchedAlive
  BY ZenonT(30) DEF CoreInv, LifeInv, LifeTypes, ObjectInv, PointerInv, FetchedAlive
<1> QED BY <1>1, CoreInvariance, PTL

\* No destructor is entered twice, and no two threads run one destructor.
THEOREM DestroyedOnceHolds == ASSUME RawCreated = {} PROVE Spec => []DestroyedOnce
<1>1. CoreInv => DestroyedOnce
  <2>1. CoreInv => ObjectInv /\ DestructorInv
    BY ZenonT(30) DEF CoreInv, LifeInv
  <2> QED BY SMT, SMTT(30), <2>1 DEF ObjectInv, DestructorInv, DestroyedOnce
<1> QED BY <1>1, CoreInvariance, PTL

-----------------------------------------------------------------------------
(***************************************************************************)
(* Type correctness, whatever fails.  That a listed item has a descriptor  *)
(* needs FreshInv: nobody but its own thread knows a transport before      *)
(* SocketHolder::insert, so nobody closes its sock until then.             *)
(***************************************************************************)
FdTypes ==
    /\ sock \in [Trans -> Fds \cup {Closed}]
    /\ mSocket \in [Trans -> Fds \cup {Closed}]
    /\ descr \in [Fds -> Trans \cup {NoTrans}]
    /\ interest \subseteq Fds
    /\ mLock \in Threads \cup {Nobody}
    /\ _sock \in [Threads -> Fds \cup {Closed}]

ListTypes ==
    /\ mQueue \in Seq(Items) /\ Len(mQueue) <= Limit
    /\ events \in Seq(Events)

FreshInv ==
    /\ \A t \in Trans : pc[t] = "insert" => sock[t] \in Fds
    /\ \A t \in Trans : pc[t] \in {"new", "insert"} =>
          found # t /\ trans # t /\ \A e \in Elements(mQueue) : e.socket_inst # t

\* The event the poller handles is still there.
BatchInv == pc[Poller] \in {"check", "handle", "hupRemove", "hupDone"} => events # <<>>

LEMMA DropTypes ==
    ASSUME LifeTypes, FdTypes, NEW x \in Threads, NEW t \in Trans, NEW r, NEW next \in Places,
           decStrong(x, t, r, next)
    PROVE  /\ life' \in [Trans -> Lives] /\ ndtor' \in [Trans -> Nat]
           /\ refs' \in [Trans -> SUBSET Holders] /\ pc' \in [Threads -> Places]
           /\ victim' \in [Threads -> Trans \cup {NoTrans}]
           /\ sock' \in [Trans -> Fds \cup {Closed}] /\ _sock' \in [Threads -> Fds \cup {Closed}]
<1>1. refs' \in [Trans -> SUBSET Holders]
  BY ZenonT(30) DEF LifeTypes, decStrong
<1>2. CASE refs[t] # {r}
  BY ZenonT(30), <1>1, <1>2 DEF LifeTypes, FdTypes, decStrong, dtor
<1>3. CASE refs[t] = {r} /\ sock[t] # Closed
  BY SMT, SMTT(30), <1>1, <1>3 DEF LifeTypes, FdTypes, decStrong, EnterDtor, Lives, Places
<1>4. CASE refs[t] = {r} /\ sock[t] = Closed
  BY SMT, SMTT(30), <1>1, <1>4 DEF LifeTypes, FdTypes, decStrong, FreeClosed, Lives, Places, dtor
<1> QED BY <1>2, <1>3, <1>4, ZenonT(30)

LEMMA WeakTypes ==
    ASSUME LifeTypes, FdTypes, NEW x \in Threads, NEW t \in Trans, NEW next \in Places,
           decWeak(x, t, next)
    PROVE  /\ life' \in [Trans -> Lives] /\ ndtor' \in [Trans -> Nat]
           /\ pc' \in [Threads -> Places]
           /\ victim' \in [Threads -> Trans \cup {NoTrans}] /\ mLock' \in Threads \cup {Nobody}
           /\ sock' \in [Trans -> Fds \cup {Closed}] /\ _sock' \in [Threads -> Fds \cup {Closed}]
<1>1. CASE UNCHANGED <<life, ndtor, sock, dtor>> /\ pc' = [pc EXCEPT ![x] = next] /\ mLock' = Nobody
  BY ZenonT(30), <1>1 DEF LifeTypes, FdTypes, dtor
<1>2. CASE EnterDtor(x, t) /\ pc' = [pc EXCEPT ![x] = "remove"] /\ mLock' = x
  BY SMT, SMTT(30), <1>2 DEF LifeTypes, FdTypes, EnterDtor, Lives, Places
<1>3. CASE FreeClosed(t) /\ pc' = [pc EXCEPT ![x] = next] /\ mLock' = Nobody
  BY SMT, SMTT(30), <1>3 DEF LifeTypes, FdTypes, FreeClosed, Lives, Places, dtor
<1> QED BY <1>1, <1>2, <1>3, ZenonT(30) DEF decWeak

LEMMA OwnerTypes ==
    ASSUME LifeTypes, FdTypes, ListTypes, NEW t \in Trans, Owner(t)
    PROVE  LifeTypes' /\ FdTypes'
<1>0. t \in Threads
  BY DEF Threads
<1>1. CASE Create(t)
  <2>1. LifeTypes'
    BY SMT, SMTT(30), <1>0, <1>1 DEF LifeTypes, Create, Lives, Holders, Places, dtor, poller
  <2>2. FdTypes'
    BY SMT, SMTT(30), <1>1 DEF FdTypes, Create, dtor
  <2> QED BY ZenonT(30), <2>1, <2>2
<1>2. CASE insert(t)
  <2>1. CASE UNCHANGED <<objects, sock, dtor, mLock>> /\ pc' = [pc EXCEPT ![t] = "add"]
    <3>1. UNCHANGED <<life, ndtor, refs, initial, sock, mSocket, descr, interest,
                      mLock, victim, _sock, trans, found>>
      BY <1>2, <2>1, ZenonT(30) DEF insert, objects, dtor, kernel, poller
    <3>2. pc' \in [Threads -> Places]
      BY ZenonT(30), <1>0, <2>1 DEF LifeTypes, Places
    <3> QED BY <3>1, <3>2, ZenonT(30) DEF LifeTypes, FdTypes
  <2>2. ASSUME NEW i \in 1 .. Len(mQueue), decWeak(t, mQueue[i].socket_inst, "add"),
               UNCHANGED <<refs, initial>>
        PROVE  LifeTypes' /\ FdTypes'
    <3>1. mQueue[i].socket_inst \in Trans /\ "add" \in Places
      <4>1. mQueue[i] \in Items
        BY SMT, SMTT(30) DEF ListTypes
      <4> QED BY <4>1 DEF Items, Places
    <3>2. UNCHANGED <<mSocket, descr, interest, trans, found>>
      BY <1>2, ZenonT(30) DEF insert, kernel, poller
    <3> QED BY ZenonT(30), <1>0, <2>2, <3>1, <3>2, WeakTypes DEF LifeTypes, FdTypes
  <2> QED BY <1>2, <2>1, <2>2, ZenonT(30) DEF insert
<1>3. CASE EpollAdd(t) \/ InitFailed(t)
  <2>1. UNCHANGED <<life, ndtor, refs, initial, sock, mLock, victim, _sock, trans, found>>
    BY <1>3, ZenonT(30) DEF EpollAdd, InitFailed, objects, dtor, poller
  <2>2. pc' \in [Threads -> Places]
    <3>1. /\ EpollAdd(t) => \/ pc' = [pc EXCEPT ![t] = "created"]
                           \/ pc' = [pc EXCEPT ![t] = "failed"]
          /\ InitFailed(t) => pc' = [pc EXCEPT ![t] = IF t \in RawCreated THEN "delete" ELSE "owned"]
      BY ZenonT(30) DEF EpollAdd, InitFailed
    <3>2. {"created", "failed", "delete", "owned"} \subseteq Places
      BY ZenonT(30) DEF Places
    <3>3. (IF t \in RawCreated THEN "delete" ELSE "owned") \in Places
      BY <3>2, ZenonT(30)
    <3>4. \A p \in Places : [pc EXCEPT ![t] = p] \in [Threads -> Places]
      BY ExceptType, ZenonT(30) DEF LifeTypes
    <3> QED BY <1>3, <3>1, <3>2, <3>3, <3>4, ZenonT(30)
  <2>3. interest' \subseteq Fds
    <3>1. \/ UNCHANGED interest
          \/ interest' = interest \cup {sock[t]} /\ descr[sock[t]] # NoTrans /\ sock[t] # Closed
          \/ interest' = interest \ {mSocket[t]}
      BY <1>3, ZenonT(30) DEF EpollAdd, InitFailed, CloseDescr
    <3>2. interest \subseteq Fds /\ sock[t] \in Fds \cup {Closed}
      BY ZenonT(30) DEF FdTypes
    <3> QED BY <3>1, <3>2, ZenonT(30)
  <2>4. mSocket' \in [Trans -> Fds \cup {Closed}] /\ descr' \in [Fds -> Trans \cup {NoTrans}]
    <3>1. CASE EpollAdd(t)
      BY <3>1, ZenonT(30) DEF EpollAdd, FdTypes
    <3>2. CASE InitFailed(t)
      <4>1. /\ descr' = [descr EXCEPT ![mSocket[t]] = NoTrans]
            /\ mSocket' = [mSocket EXCEPT ![t] = Closed]
        BY <3>2, ZenonT(30) DEF InitFailed, CloseDescr
      <4> QED BY <4>1, ExceptType, ZenonT(30) DEF FdTypes
    <3> QED BY <1>3, <3>1, <3>2
  <2> QED BY <2>1, <2>2, <2>3, <2>4, ZenonT(30) DEF LifeTypes, FdTypes
<1>4. CASE DeleteSelf(t)
  BY SMT, SMTT(30), <1>0, <1>4 DEF DeleteSelf, EnterDtor, LifeTypes, FdTypes, Lives, Places, kernel, poller
<1>5. CASE Own(t)
  BY ZenonT(30), <1>0, <1>5 DEF Own, LifeTypes, FdTypes, Holders, Places, kernel, poller, dtor
<1>6. CASE Release(t)
  <2>1. /\ decStrong(t, t, "owner", "gone")
        /\ UNCHANGED <<initial, mSocket, descr, interest, mLock, trans, found>>
    BY <1>6, ZenonT(30) DEF Release, kernel, poller
  <2>2. "gone" \in Places
    BY DEF Places
  <2> QED BY <1>0, <2>1, <2>2, DropTypes DEF LifeTypes, FdTypes
<1> QED BY <1>1, <1>2, <1>3, <1>4, <1>5, <1>6, ZenonT(30) DEF Owner

LEMMA CloseTypes ==
    ASSUME LifeTypes, FdTypes, ListTypes, NEW x \in Threads, CloseTransport(x)
    PROVE  LifeTypes' /\ FdTypes'
<1>1. CASE remove(x)
  <2>1. CASE UNCHANGED <<objects, sock, dtor, mLock>> /\ pc' = [pc EXCEPT ![x] = "del"]
    <3>1. UNCHANGED <<life, ndtor, refs, initial, sock, mSocket, descr, interest,
                      mLock, victim, _sock, trans, found>>
      BY <1>1, <2>1, ZenonT(30) DEF remove, objects, dtor, kernel, poller
    <3>2. pc' \in [Threads -> Places]
      <4>1. "del" \in Places
        BY ZenonT(30) DEF Places
      <4> QED BY <2>1, <4>1, ExceptType, ZenonT(30) DEF LifeTypes
    <3> QED BY <3>1, <3>2, ZenonT(30) DEF LifeTypes, FdTypes
  <2>2. ASSUME NEW i \in 1 .. Len(mQueue), decWeak(x, mQueue[i].socket_inst, "del"),
               UNCHANGED <<refs, initial>>
        PROVE  LifeTypes' /\ FdTypes'
    <3>1. mQueue[i].socket_inst \in Trans /\ "del" \in Places
      <4>1. mQueue[i] \in Items
        BY SMT, SMTT(30) DEF ListTypes
      <4> QED BY <4>1 DEF Items, Places
    <3>2. UNCHANGED <<mSocket, descr, interest, trans, found>>
      BY <1>1, ZenonT(30) DEF remove, kernel, poller
    <3> QED BY ZenonT(30), <2>2, <3>1, <3>2, WeakTypes DEF LifeTypes, FdTypes
  <2> QED BY <1>1, <2>1, <2>2, ZenonT(30) DEF remove
<1>2. CASE EpollDel(x) \/ Close(x)
  <2>1. UNCHANGED <<ndtor, refs, initial, sock, mSocket, mLock, trans, found>>
    BY <1>2, ZenonT(30) DEF EpollDel, Close, poller
  <2>2. /\ life' = life \/ life' = [life EXCEPT ![victim[x]] = "freed"]
        /\ pc' = [pc EXCEPT ![x] = "close"] \/ pc' = [pc EXCEPT ![x] = After(x)]
        /\ victim' = victim \/ victim' = [victim EXCEPT ![x] = NoTrans]
        /\ _sock' = _sock \/ _sock' = [_sock EXCEPT ![x] = Closed]
        /\ interest' = interest \/ interest' = interest \ {_sock[x]}
        /\ descr' = descr \/ descr' = [descr EXCEPT ![_sock[x]] = NoTrans]
    BY <1>2, ZenonT(30) DEF EpollDel, Close, CloseDescr, dtor
  <2>3. "freed" \in Lives /\ "close" \in Places /\ After(x) \in Places
    BY ZenonT(30) DEF Lives, Places, After
  <2>4. LifeTypes'
    <3>1. life' \in [Trans -> Lives]
      BY <2>2, <2>3, ExceptType, ZenonT(30) DEF LifeTypes
    <3>2. pc' \in [Threads -> Places]
      BY <2>2, <2>3, ExceptType, ZenonT(30) DEF LifeTypes
    <3>3. victim' \in [Threads -> Trans \cup {NoTrans}]
      BY <2>2, ExceptType, ZenonT(30) DEF LifeTypes
    <3> QED BY <2>1, <3>1, <3>2, <3>3, ZenonT(30) DEF LifeTypes
  <2>5. FdTypes'
    <3>1. _sock' \in [Threads -> Fds \cup {Closed}]
      BY <2>2, ExceptType, ZenonT(30) DEF FdTypes
    <3>2. interest' \subseteq Fds
      BY <2>2, ZenonT(30) DEF FdTypes
    <3>3. descr' \in [Fds -> Trans \cup {NoTrans}]
      BY <2>2, ExceptType, ZenonT(30) DEF FdTypes
    <3> QED BY <2>1, <3>1, <3>2, <3>3, ZenonT(30) DEF FdTypes
  <2> QED BY <2>4, <2>5, ZenonT(30)
<1> QED BY <1>1, <1>2, ZenonT(30) DEF CloseTransport

LEMMA LoopTypes ==
    ASSUME LifeTypes, FdTypes, ListTypes, threadLoop
    PROVE  LifeTypes' /\ FdTypes'
<1>0. Poller \in Threads
  BY DEF Threads
<1>i. \A i \in 1 .. Len(mQueue) : mQueue[i].socket_inst \in Trans
  <2>1. \A i \in 1 .. Len(mQueue) : mQueue[i] \in Items
    BY SMT, SMTT(30) DEF ListTypes
  <2> QED BY <2>1 DEF Items
<1>1. CASE epoll_wait \/ HandleRead \/ HupClose
  <2>1. UNCHANGED <<life, ndtor, refs, initial, sock, mSocket, mLock, victim, _sock, trans, found>>
    BY <1>1, ZenonT(30) DEF epoll_wait, HandleRead, HupClose, objects, dtor, poller
  <2>2. pc' \in [Threads -> Places]
    <3>1. \/ pc' = [pc EXCEPT ![Poller] = "fetch"]
          \/ pc' = [pc EXCEPT ![Poller] = "hupRemove"]
      BY <1>1, ZenonT(30) DEF epoll_wait, HandleRead, HupClose
    <3>2. "fetch" \in Places /\ "hupRemove" \in Places /\ pc \in [Threads -> Places]
      BY ZenonT(30) DEF Places, LifeTypes
    <3>3. /\ [pc EXCEPT ![Poller] = "fetch"] \in [Threads -> Places]
          /\ [pc EXCEPT ![Poller] = "hupRemove"] \in [Threads -> Places]
      BY ONLY <3>2, ExceptType, ZenonT(30)
    <3> QED BY ONLY <3>1, <3>3, ZenonT(30)
  <2>3. interest' \subseteq Fds
    BY ZenonT(30), <1>1 DEF FdTypes, epoll_wait, HandleRead, HupClose, CloseDescr, kernel
  <2>4. descr' \in [Fds -> Trans \cup {NoTrans}]
    <3>1. CASE HupClose
      <4>1. descr' = [descr EXCEPT ![sock[trans]] = NoTrans]
        BY <3>1, ZenonT(30) DEF HupClose, CloseDescr
      <4> QED BY <4>1, ExceptType, ZenonT(30) DEF FdTypes
    <3> QED BY <1>1, <3>1, ZenonT(30) DEF epoll_wait, HandleRead, FdTypes, kernel
  <2> QED BY <2>1, <2>2, <2>3, <2>4, ZenonT(30) DEF LifeTypes, FdTypes
<1>2. CASE fetch
  <2>1. UNCHANGED <<life, ndtor, sock, mSocket, descr, interest, victim, _sock, trans>>
    BY <1>2, ZenonT(30) DEF fetch, kernel, dtor
  <2>2. CASE UNCHANGED <<refs, initial, mLock, pc, found>>
    BY <2>1, <2>2, ZenonT(30) DEF LifeTypes, FdTypes
  <2>3. ASSUME NEW i \in 1 .. Len(mQueue),
               refs' = [refs EXCEPT ![mQueue[i].socket_inst] = @ \cup {"temp"}],
               initial' = [initial EXCEPT ![mQueue[i].socket_inst] = FALSE],
               found' = mQueue[i].socket_inst, mLock' = Poller, pc' = [pc EXCEPT ![Poller] = "check"]
        PROVE  LifeTypes' /\ FdTypes'
    <3>1. refs' \in [Trans -> SUBSET Holders]
      <4>1. \A t \in Trans : refs[t] \cup {"temp"} \in SUBSET Holders
        BY ZenonT(30) DEF LifeTypes, Holders
      <4> QED BY <1>i, <2>3, <4>1, ExceptType, ZenonT(30) DEF LifeTypes
    <3>2. pc' \in [Threads -> Places] /\ found' \in Trans /\ mLock' \in Threads
      BY ZenonT(30), <1>0, <1>i, <2>3 DEF LifeTypes, Places
    <3>3. initial' \in [Trans -> BOOLEAN]
      BY <1>i, <2>3, ExceptType, ZenonT(30) DEF LifeTypes
    <3> QED BY <2>1, <3>1, <3>2, <3>3, ZenonT(30) DEF LifeTypes, FdTypes
  <2> QED BY <1>2, <2>2, <2>3, ZenonT(30) DEF fetch
<1>3. CASE FetchStale
  <2>1. UNCHANGED <<initial, mSocket, descr, interest, trans>> /\ mLock' = Nobody /\ found' = NoTrans
    BY <1>3, ZenonT(30) DEF FetchStale, kernel
  <2>2. refs' \in [Trans -> SUBSET Holders] /\ pc' \in [Threads -> Places]
    <3>1. \A t \in Trans : refs[t] \ {"temp"} \in SUBSET Holders
      BY DEF LifeTypes
    <3>2. "fetch" \in Places
      BY DEF Places
    <3>3. refs' = [refs EXCEPT ![found] = refs[found] \ {"temp"}] /\ pc' = [pc EXCEPT ![Poller] = "fetch"]
      BY <1>3, ZenonT(30) DEF FetchStale
    <3>4. refs' \in [Trans -> SUBSET Holders]
      BY <3>1, <3>3, ExceptAt, ZenonT(30) DEF LifeTypes
    <3>5. pc' \in [Threads -> Places]
      BY <3>2, <3>3, ExceptType, ZenonT(30) DEF LifeTypes
    <3> QED BY <3>4, <3>5
  <2>3. UNCHANGED <<sock, victim, _sock>>
    BY <1>3, ZenonT(30) DEF FetchStale, FreeClosed, dtor
  <2>4. life' \in [Trans -> Lives] /\ ndtor' \in [Trans -> Nat]
    <3>1. \/ UNCHANGED <<life, ndtor>>
          \/ life' = [life EXCEPT ![found] = "freed"] /\ ndtor' = [ndtor EXCEPT ![found] = ndtor[found] + 1]
      BY <1>3, ZenonT(30) DEF FetchStale, FreeClosed
    <3>2. "freed" \in Lives /\ \A t \in Trans : ndtor[t] + 1 \in Nat
      BY SMT, SMTT(30) DEF Lives, LifeTypes
    <3>3. CASE UNCHANGED <<life, ndtor>>
      BY <3>3, ZenonT(30) DEF LifeTypes
    <3>4. CASE life' = [life EXCEPT ![found] = "freed"] /\ ndtor' = [ndtor EXCEPT ![found] = ndtor[found] + 1]
      <4>1. life' \in [Trans -> Lives]
        BY <3>2, <3>4, ExceptType, ZenonT(30) DEF LifeTypes
      <4>2. ndtor' \in [Trans -> Nat]
        BY <3>2, <3>4, ExceptAt, ZenonT(30) DEF LifeTypes
      <4> QED BY <4>1, <4>2
    <3> QED BY <3>1, <3>3, <3>4
  <2> QED BY <2>1, <2>2, <2>3, <2>4, ZenonT(30) DEF LifeTypes, FdTypes
<1>4. CASE FetchAssign
  <2>1. UNCHANGED <<initial, mSocket, descr, interest>> /\ trans' = found /\ found' = NoTrans
    BY <1>4, ZenonT(30) DEF FetchAssign, kernel
  <2>2. refs' \in [Trans -> SUBSET Holders]
    BY SMT, SMTT(30), <1>4 DEF FetchAssign, LifeTypes, Holders
  <2>3. pc' \in [Threads -> Places] /\ mLock' \in Threads \cup {Nobody}
    BY ZenonT(30), <1>0, <1>4 DEF FetchAssign, LifeTypes, FdTypes, Places
  <2>4. \/ UNCHANGED <<life, ndtor, sock, dtor>>
        \/ trans \in Trans /\ EnterDtor(Poller, trans)
        \/ trans \in Trans /\ FreeClosed(trans)
    BY <1>4, ZenonT(30) DEF FetchAssign, LifeTypes
  <2>5. /\ life' \in [Trans -> Lives] /\ ndtor' \in [Trans -> Nat]
        /\ victim' \in [Threads -> Trans \cup {NoTrans}]
        /\ sock' \in [Trans -> Fds \cup {Closed}] /\ _sock' \in [Threads -> Fds \cup {Closed}]
    <3>1. CASE UNCHANGED <<life, ndtor, sock, dtor>>
      BY <3>1, ZenonT(30) DEF LifeTypes, FdTypes, dtor
    <3>2. CASE trans \in Trans /\ EnterDtor(Poller, trans)
      <4>1. "dying" \in Lives /\ ndtor[trans] + 1 \in Nat /\ sock[trans] \in Fds \cup {Closed}
        BY SMT, SMTT(30), <3>2 DEF Lives, LifeTypes, FdTypes
      <4>2. life' \in [Trans -> Lives] /\ victim' \in [Threads -> Trans \cup {NoTrans}]
        BY <3>2, <4>1, ExceptType, ZenonT(30) DEF EnterDtor, LifeTypes
      <4>3. ndtor' \in [Trans -> Nat]
        BY <3>2, <4>1, ExceptType, ZenonT(30) DEF EnterDtor, LifeTypes
      <4>4. sock' \in [Trans -> Fds \cup {Closed}]
        BY <3>2, ExceptType, ZenonT(30) DEF EnterDtor, FdTypes
      <4>5. _sock' \in [Threads -> Fds \cup {Closed}]
        BY <3>2, <4>1, ExceptType, ZenonT(30) DEF EnterDtor, FdTypes
      <4> QED BY ZenonT(30), <4>2, <4>3, <4>4, <4>5
    <3>3. CASE trans \in Trans /\ FreeClosed(trans)
      BY SMT, SMTT(30), <3>3 DEF FreeClosed, LifeTypes, FdTypes, Lives, dtor
    <3> QED BY <2>4, <3>1, <3>2, <3>3
  <2> QED BY <2>1, <2>2, <2>3, <2>5, ZenonT(30) DEF LifeTypes, FdTypes
<1>5. CASE HupRemove
  <2>0. UNCHANGED <<mSocket, descr, interest, trans, found>>
    BY <1>5, ZenonT(30) DEF HupRemove, kernel, poller
  <2>1. CASE UNCHANGED <<objects, sock, dtor, mLock>> /\ pc' = [pc EXCEPT ![Poller] = "hupDone"]
    <3>1. UNCHANGED <<life, ndtor, refs, initial, sock, mLock, victim, _sock>>
      BY <2>1, ZenonT(30) DEF objects, dtor
    <3>2. pc' \in [Threads -> Places]
      BY ZenonT(30), <1>0, <2>1 DEF LifeTypes, Places
    <3> QED BY <2>0, <3>1, <3>2, ZenonT(30) DEF LifeTypes, FdTypes
  <2>2. ASSUME NEW i \in 1 .. Len(mQueue), decWeak(Poller, mQueue[i].socket_inst, "hupDone"),
               UNCHANGED <<refs, initial>>
        PROVE  LifeTypes' /\ FdTypes'
    <3>1. "hupDone" \in Places
      BY DEF Places
    <3> QED BY ZenonT(30), <1>0, <1>i, <2>0, <2>2, <3>1, WeakTypes DEF LifeTypes, FdTypes
  <2> QED BY <1>5, <2>1, <2>2, ZenonT(30) DEF HupRemove
<1>6. CASE HupDone
  <2>1. UNCHANGED <<life, ndtor, refs, initial, mSocket, descr, interest, mLock, victim, _sock, trans, found>>
    BY <1>6, ZenonT(30) DEF HupDone, objects, dtor, kernel
  <2>2. pc' \in [Threads -> Places] /\ sock' \in [Trans -> Fds \cup {Closed}]
    <3>1. "fetch" \in Places
      BY DEF Places
    <3>2. pc' \in [Threads -> Places]
      BY <1>6, <3>1, ExceptType, ZenonT(30) DEF HupDone, LifeTypes
    <3>3. sock' \in [Trans -> Fds \cup {Closed}]
      BY <1>6, ExceptType, ZenonT(30) DEF HupDone, FdTypes
    <3> QED BY <3>2, <3>3
  <2> QED BY <2>1, <2>2, ZenonT(30) DEF LifeTypes, FdTypes
<1>7. CASE EndBatch
  <2>1. UNCHANGED <<initial, mSocket, descr, interest, mLock, found>> /\ trans' = NoTrans
    BY <1>7, ZenonT(30) DEF EndBatch, kernel
  <2>2. "wait" \in Places
    BY DEF Places
  <2>3. CASE trans = NoTrans
    <3>1. UNCHANGED <<life, ndtor, refs, sock, victim, _sock>>
      BY <1>7, <2>3, ZenonT(30) DEF EndBatch, dtor
    <3>2. pc' \in [Threads -> Places]
      BY ZenonT(30), <1>7, <2>2, <2>3 DEF EndBatch, LifeTypes
    <3> QED BY <2>1, <3>1, <3>2, ZenonT(30) DEF LifeTypes, FdTypes
  <2>4. CASE trans # NoTrans
    <3>1. trans \in Trans /\ decStrong(Poller, trans, "trans", "wait")
      BY <1>7, <2>4, ZenonT(30) DEF EndBatch, LifeTypes
    <3> QED BY <1>0, <2>1, <2>2, <3>1, DropTypes DEF LifeTypes, FdTypes
  <2> QED BY <2>3, <2>4
<1> QED BY <1>1, <1>2, <1>3, <1>4, <1>5, <1>6, <1>7, ZenonT(30) DEF threadLoop

\* What the list's operations do to its items; it has no item twice.
LEMMA ListChange ==
    ASSUME QueueInv, mQueue \in Seq(Items)
    PROVE  /\ \A i \in 1 .. Len(mQueue) : mQueue[i] \in Items /\ mQueue[i] \in Elements(mQueue)
           /\ \A i \in 1 .. Len(mQueue) + 1, e \in Items :
                 /\ InsertAt(mQueue, i, e) \in Seq(Items)
                 /\ Len(InsertAt(mQueue, i, e)) = Len(mQueue) + 1
                 /\ Elements(InsertAt(mQueue, i, e)) = Elements(mQueue) \cup {e}
           /\ \A i \in 1 .. Len(mQueue) :
                 /\ RemoveAt(mQueue, i) \in Seq(Items)
                 /\ Len(RemoveAt(mQueue, i)) = Len(mQueue) - 1
                 /\ Elements(RemoveAt(mQueue, i)) = Elements(mQueue) \ {mQueue[i]}
           /\ \A i \in 1 .. Len(mQueue), e \in Items :
                 /\ [mQueue EXCEPT ![i] = e] \in Seq(Items)
                 /\ Len([mQueue EXCEPT ![i] = e]) = Len(mQueue)
                 /\ Elements([mQueue EXCEPT ![i] = e]) = (Elements(mQueue) \ {mQueue[i]}) \cup {e}
<1>1. \A i \in 1 .. Len(mQueue) : mQueue[i] \in Items /\ mQueue[i] \in Elements(mQueue)
  <2>1. \A i \in 1 .. Len(mQueue) : mQueue[i] \in Items
    BY SMT, SMTT(30)
  <2> QED BY <2>1, ZenonT(30) DEF Elements
<1>2. \A j, k \in 1 .. Len(mQueue) : mQueue[j] = mQueue[k] => j = k
  <2>1. /\ \A j, k \in 1 .. Len(mQueue) : j < k => mQueue[j].socket_fd < mQueue[k].socket_fd
        /\ \A j \in 1 .. Len(mQueue) : mQueue[j].socket_fd \in Int
    <3>1. \A j \in 1 .. Len(mQueue) : mQueue[j] \in AnyItem
      BY SMT, SMTT(30) DEF QueueInv
    <3>2. DOMAIN mQueue = 1 .. Len(mQueue)
      BY ONLY SMT, SMTT(30), mQueue \in Seq(Items)
    <3>3. \A j, k \in 1 .. Len(mQueue) : j < k => mQueue[j].socket_fd < mQueue[k].socket_fd
      BY <3>2, ZenonT(30) DEF QueueInv, QueueSorted
    <3>4. \A j \in 1 .. Len(mQueue) : mQueue[j].socket_fd \in Int
      BY ONLY <3>1 DEF AnyItem
    <3> QED BY <3>3, <3>4, ZenonT(30)
  <2>2. \A j, k \in 1 .. Len(mQueue) : j = k \/ j < k \/ k < j
    BY ONLY SMT, SMTT(30), mQueue \in Seq(Items)
  <2>3. \A a \in Int : ~(a < a)
    BY SMT, SMTT(30)
  <2> QED BY <2>1, <2>2, <2>3, ZenonT(30)
<1>3. ASSUME NEW i \in 1 .. Len(mQueue) + 1, NEW e \in Items
      PROVE  /\ InsertAt(mQueue, i, e) \in Seq(Items)
             /\ Len(InsertAt(mQueue, i, e)) = Len(mQueue) + 1
             /\ Elements(InsertAt(mQueue, i, e)) = Elements(mQueue) \cup {e}
  BY ONLY SMT, SMTT(30), mQueue \in Seq(Items), i \in 1 .. Len(mQueue) + 1, e \in Items, InsertElements
<1>4. ASSUME NEW i \in 1 .. Len(mQueue)
      PROVE  /\ RemoveAt(mQueue, i) \in Seq(Items)
             /\ Len(RemoveAt(mQueue, i)) = Len(mQueue) - 1
             /\ Elements(RemoveAt(mQueue, i)) = Elements(mQueue) \ {mQueue[i]}
  BY ONLY mQueue \in Seq(Items), i \in 1 .. Len(mQueue), <1>2, RemoveElements, ZenonT(30)
<1>5. ASSUME NEW i \in 1 .. Len(mQueue), NEW e \in Items
      PROVE  /\ [mQueue EXCEPT ![i] = e] \in Seq(Items)
             /\ Len([mQueue EXCEPT ![i] = e]) = Len(mQueue)
             /\ Elements([mQueue EXCEPT ![i] = e]) = (Elements(mQueue) \ {mQueue[i]}) \cup {e}
  BY ONLY SMT, SMTT(30), mQueue \in Seq(Items), i \in 1 .. Len(mQueue), e \in Items, <1>2, ReplaceElements
<1> QED BY <1>1, <1>3, <1>4, <1>5, ZenonT(30)

\* A step of thread x leaves alone the transports that only their own threads
\* know.
LEMMA FreshThread ==
    ASSUME LifeTypes, FdTypes, FreshInv, NEW x \in Threads, NEW p, p \notin {"new", "insert"}, NEW o,
           pc' = [pc EXCEPT ![x] = p],
           sock' = sock \/ sock' = [sock EXCEPT ![o] = Closed],
           o \in {x, trans, found} \/ \E e \in Elements(mQueue) : o = e.socket_inst,
           trans' \in {trans, found, NoTrans},
           found' \in {found, NoTrans} \/ \E e \in Elements(mQueue) : found' = e.socket_inst,
           \A e \in Elements(mQueue') : e.socket_inst = x \/ e \in Elements(mQueue)
    PROVE  FreshInv'
<1> SUFFICES ASSUME NEW t \in Trans, pc'[t] \in {"new", "insert"}
             PROVE  /\ pc'[t] = "insert" => sock'[t] \in Fds
                    /\ found' # t /\ trans' # t /\ \A e \in Elements(mQueue') : e.socket_inst # t
  BY ZenonT(30) DEF FreshInv
<1>1. t \in Threads /\ t # NoTrans
  BY CoreAssumption DEF Threads
<1>2. t # x /\ pc'[t] = pc[t]
  BY <1>1, ZenonT(30) DEF LifeTypes
<1>3. found # t /\ trans # t /\ (\A e \in Elements(mQueue) : e.socket_inst # t) /\ (pc[t] = "insert" => sock[t] \in Fds)
  BY <1>2, ZenonT(30) DEF FreshInv
<1>4. o # t
  BY <1>2, <1>3, ZenonT(30)
<1>5. sock'[t] = sock[t]
  BY <1>4, ZenonT(30) DEF FdTypes
<1>6. found' # t
  BY <1>1, <1>3, ZenonT(30)
<1>7. trans' # t
  BY <1>1, <1>3, ZenonT(30)
<1>8. \A e \in Elements(mQueue') : e.socket_inst # t
  BY <1>2, <1>3, ZenonT(30)
<1> QED BY <1>2, <1>3, <1>5, <1>6, <1>7, <1>8, ZenonT(30)

LEMMA FreshCreate ==
    ASSUME LifeTypes, FdTypes, FreshInv, NEW t \in Trans, Create(t)
    PROVE  FreshInv'
<1>1. PICK f \in Fds : sock' = [sock EXCEPT ![t] = f]
  BY ZenonT(30) DEF Create
<1>2. UNCHANGED <<mQueue, trans, found>> /\ pc[t] = "new" /\ pc' = [pc EXCEPT ![t] = "insert"]
  BY ZenonT(30) DEF Create, poller
<1>3. ASSUME NEW u \in Trans, pc'[u] \in {"new", "insert"}
      PROVE  pc[u] \in {"new", "insert"}
  <2>1. u \in Threads
    BY DEF Threads
  <2>2. CASE u = t
    BY <1>2, <2>2, ZenonT(30)
  <2>3. CASE u # t
    BY <1>2, <1>3, <2>1, <2>3, ZenonT(30) DEF LifeTypes
  <2> QED BY <2>2, <2>3
<1>4. ASSUME NEW u \in Trans, pc'[u] = "insert" PROVE sock'[u] \in Fds
  <2>1. CASE u = t
    BY <1>1, <2>1, ZenonT(30) DEF FdTypes
  <2>2. CASE u # t
    <3>1. u \in Threads
      BY DEF Threads
    <3>2. pc[u] = "insert" /\ sock'[u] = sock[u]
      BY <1>1, <1>2, <1>4, <2>2, <3>1, ZenonT(30) DEF LifeTypes, FdTypes
    <3> QED BY <3>2, ZenonT(30) DEF FreshInv
  <2> QED BY <2>1, <2>2
<1>5. ASSUME NEW u \in Trans, pc'[u] \in {"new", "insert"}
      PROVE  found' # u /\ trans' # u /\ \A e \in Elements(mQueue') : e.socket_inst # u
  BY <1>2, <1>3, <1>5, ZenonT(30) DEF FreshInv
<1> QED BY <1>4, <1>5, ZenonT(30) DEF FreshInv

\* The part of FreshThread's hypotheses that decStrong and decWeak give.
LEMMA DropSock ==
    ASSUME NEW x, NEW t, NEW r, NEW next, next \notin {"new", "insert"}, decStrong(x, t, r, next)
    PROVE  /\ sock' = sock \/ sock' = [sock EXCEPT ![t] = Closed]
           /\ \E p : p \notin {"new", "insert"} /\ pc' = [pc EXCEPT ![x] = p]
  BY ZenonT(30) DEF decStrong, EnterDtor, FreeClosed

LEMMA WeakSock ==
    ASSUME NEW x, NEW t, NEW next, next \notin {"new", "insert"}, decWeak(x, t, next)
    PROVE  /\ sock' = sock \/ sock' = [sock EXCEPT ![t] = Closed]
           /\ \E p : p \notin {"new", "insert"} /\ pc' = [pc EXCEPT ![x] = p]
  BY ZenonT(30) DEF decWeak, EnterDtor, FreeClosed

LEMMA FreshOwner ==
    ASSUME LifeTypes, FdTypes, ListTypes, QueueInv, FreshInv, NEW t \in Trans, Owner(t)
    PROVE  FreshInv' /\ mQueue' \in Seq(Items) /\ Len(mQueue') <= Limit
<1>0. t \in Threads /\ mQueue \in Seq(Items)
  BY DEF Threads, ListTypes
<1>1. CASE Create(t)
  <2>1. FreshInv'
    BY <1>1, FreshCreate
  <2> QED BY <1>1, <2>1, ZenonT(30) DEF Create, ListTypes
<1>2. CASE EpollAdd(t) \/ InitFailed(t) \/ DeleteSelf(t) \/ Own(t) \/ Release(t)
  <2>1. UNCHANGED <<mQueue, trans, found>>
    BY <1>2, ZenonT(30) DEF EpollAdd, InitFailed, DeleteSelf, Own, Release, poller
  <2>2. PICK p : p \notin {"new", "insert"} /\ pc' = [pc EXCEPT ![t] = p]
    <3>1. CASE Release(t)
      BY <3>1, DropSock, ZenonT(30) DEF Release
    <3> QED BY <1>2, <3>1, ZenonT(30) DEF EpollAdd, InitFailed, DeleteSelf, Own
  <2>3. sock' = sock \/ sock' = [sock EXCEPT ![t] = Closed]
    <3>1. CASE Release(t)
      BY <3>1, DropSock, ZenonT(30) DEF Release
    <3> QED BY <1>2, <3>1, ZenonT(30) DEF EpollAdd, InitFailed, DeleteSelf, Own, EnterDtor
  <2>4. FreshInv'
    <3>1. \A e \in Elements(mQueue') : e.socket_inst = t \/ e \in Elements(mQueue)
      BY <2>1, ZenonT(30)
    <3>2. t \in {t, trans, found} /\ trans' \in {trans, found, NoTrans} /\ found' \in {found, NoTrans}
      BY <2>1, ZenonT(30)
    <3> QED BY <1>0, <2>2, <2>3, <3>1, <3>2, FreshThread, ZenonT(30)
  <2> QED BY <2>1, <2>4, ZenonT(30) DEF ListTypes
<1>3. CASE insert(t)
  <2>0. /\ UNCHANGED <<trans, found>> /\ trans' \in {trans, found, NoTrans} /\ found' \in {found, NoTrans}
        /\ "add" \notin {"new", "insert"}
    BY <1>3, ZenonT(30) DEF insert, poller
  <2>1. pc[t] = "insert" /\ sock[t] \in Fds
    BY <1>3, ZenonT(30) DEF insert, FreshInv
  <2> DEFINE e0 == Item(sock[t], t)
  <2>2. e0 \in Items /\ e0.socket_inst = t
    BY <2>1 DEF Items, Item
  <2> HIDE DEF e0
  <2>3. CASE pc' = [pc EXCEPT ![t] = "add"] /\ UNCHANGED <<sock, mQueue>>
    <3>1. \A e \in Elements(mQueue') : e.socket_inst = t \/ e \in Elements(mQueue)
      BY <2>3, ZenonT(30)
    <3>2. t \in {t, trans, found}
      BY ZenonT(30)
    <3>3. FreshInv'
      BY <1>0, <2>0, <2>3, <3>1, <3>2, FreshThread, ZenonT(30)
    <3> QED BY <2>3, <3>3, ZenonT(30) DEF ListTypes
  <2>4. ASSUME NEW i \in 1 .. Len(mQueue) + 1, Len(mQueue) < Limit, mQueue' = InsertAt(mQueue, i, e0),
               pc' = [pc EXCEPT ![t] = "add"], UNCHANGED sock
        PROVE  FreshInv' /\ mQueue' \in Seq(Items) /\ Len(mQueue') <= Limit
    <3>1. /\ mQueue' \in Seq(Items) /\ Len(mQueue') = Len(mQueue) + 1
          /\ Elements(mQueue') = Elements(mQueue) \cup {e0}
      BY ONLY <1>0, <2>2, <2>4, QueueInv, ListChange, ZenonT(30)
    <3>2. \A e \in Elements(mQueue') : e.socket_inst = t \/ e \in Elements(mQueue)
      BY <2>2, <3>1, ZenonT(30)
    <3>3. t \in {t, trans, found}
      BY ZenonT(30)
    <3>4. FreshInv'
      BY <1>0, <2>0, <2>4, <3>2, <3>3, FreshThread, ZenonT(30)
    <3>5. Len(mQueue') <= Limit
      BY ONLY SMT, SMTT(30), <1>0, <2>4, <3>1, CoreAssumption
    <3> QED BY <3>1, <3>4, <3>5
  <2>5. ASSUME NEW i \in 1 .. Len(mQueue), mQueue' = [mQueue EXCEPT ![i] = e0],
               decWeak(t, mQueue[i].socket_inst, "add")
        PROVE  FreshInv' /\ mQueue' \in Seq(Items) /\ Len(mQueue') <= Limit
    <3>1. /\ mQueue' \in Seq(Items) /\ Len(mQueue') = Len(mQueue)
          /\ Elements(mQueue') = (Elements(mQueue) \ {mQueue[i]}) \cup {e0}
          /\ mQueue[i] \in Elements(mQueue)
      BY ONLY <1>0, <2>2, <2>5, QueueInv, ListChange, ZenonT(30)
    <3>2. \A e \in Elements(mQueue') : e.socket_inst = t \/ e \in Elements(mQueue)
      BY <2>2, <3>1, ZenonT(30)
    <3> DEFINE o == mQueue[i].socket_inst
    <3>3. \E e \in Elements(mQueue) : o = e.socket_inst
      BY <3>1, ZenonT(30)
    <3>4. PICK p : p \notin {"new", "insert"} /\ pc' = [pc EXCEPT ![t] = p]
      BY <2>0, <2>5, WeakSock, ZenonT(30)
    <3>5. sock' = sock \/ sock' = [sock EXCEPT ![o] = Closed]
      BY <2>0, <2>5, WeakSock, ZenonT(30)
    <3> HIDE DEF o
    <3>6. FreshInv'
      BY <1>0, <2>0, <3>2, <3>3, <3>4, <3>5, FreshThread, ZenonT(30)
    <3> QED BY <3>1, <3>6 DEF ListTypes
  <2> QED BY <1>3, <2>3, <2>4, <2>5, ZenonT(30) DEF insert, e0, objects
<1> QED BY <1>1, <1>2, <1>3, ZenonT(30) DEF Owner

LEMMA FreshClose ==
    ASSUME LifeTypes, FdTypes, ListTypes, QueueInv, FreshInv, NEW x \in Threads, CloseTransport(x)
    PROVE  FreshInv' /\ mQueue' \in Seq(Items) /\ Len(mQueue') <= Limit
<1>0. mQueue \in Seq(Items)
  BY DEF ListTypes
<1>1. UNCHANGED <<trans, found>> /\ trans' \in {trans, found, NoTrans} /\ found' \in {found, NoTrans}
  BY ZenonT(30) DEF CloseTransport, remove, EpollDel, Close, poller
<1>2. ASSUME NEW p, p \notin {"new", "insert"}, pc' = [pc EXCEPT ![x] = p], UNCHANGED <<sock, mQueue>>
      PROVE  FreshInv' /\ mQueue' \in Seq(Items) /\ Len(mQueue') <= Limit
  <2>1. \A e \in Elements(mQueue') : e.socket_inst = x \/ e \in Elements(mQueue)
    BY <1>2, ZenonT(30)
  <2>2. x \in {x, trans, found}
    BY ZenonT(30)
  <2>3. FreshInv'
    BY <1>1, <1>2, <2>1, <2>2, FreshThread, ZenonT(30)
  <2> QED BY <1>2, <2>3, ZenonT(30) DEF ListTypes
<1>3. CASE EpollDel(x) \/ Close(x)
  <2>1. After(x) \notin {"new", "insert"}
    BY DEF After
  <2> QED BY <1>2, <1>3, <2>1, ZenonT(30) DEF EpollDel, Close
<1>4. CASE remove(x)
  <2>1. ASSUME NEW i \in 1 .. Len(mQueue), mQueue' = RemoveAt(mQueue, i),
               decWeak(x, mQueue[i].socket_inst, "del")
        PROVE  FreshInv' /\ mQueue' \in Seq(Items) /\ Len(mQueue') <= Limit
    <3>1. /\ mQueue' \in Seq(Items) /\ Len(mQueue') = Len(mQueue) - 1
          /\ Elements(mQueue') = Elements(mQueue) \ {mQueue[i]}
          /\ mQueue[i] \in Elements(mQueue)
      BY ONLY <1>0, <2>1, QueueInv, ListChange, ZenonT(30)
    <3>2. \A e \in Elements(mQueue') : e.socket_inst = x \/ e \in Elements(mQueue)
      BY <3>1, ZenonT(30)
    <3> DEFINE o == mQueue[i].socket_inst
    <3>3. \E e \in Elements(mQueue) : o = e.socket_inst
      BY <3>1, ZenonT(30)
    <3>0. "del" \notin {"new", "insert"}
      OBVIOUS
    <3>4. PICK p : p \notin {"new", "insert"} /\ pc' = [pc EXCEPT ![x] = p]
      BY <3>0, <2>1, WeakSock, ZenonT(30)
    <3>5. sock' = sock \/ sock' = [sock EXCEPT ![o] = Closed]
      BY <3>0, <2>1, WeakSock, ZenonT(30)
    <3> HIDE DEF o
    <3>6. FreshInv'
      BY <1>1, <3>2, <3>3, <3>4, <3>5, FreshThread, ZenonT(30)
    <3>7. Len(mQueue') <= Limit
      BY ONLY SMT, SMTT(30), <1>0, <3>1, ListTypes, CoreAssumption DEF ListTypes
    <3> QED BY <3>1, <3>6, <3>7
  <2>2. "del" \notin {"new", "insert"}
    OBVIOUS
  <2> QED BY <1>2, <1>4, <2>1, <2>2, ZenonT(30) DEF remove
<1> QED BY <1>3, <1>4, ZenonT(30) DEF CloseTransport

LEMMA FreshLoop ==
    ASSUME LifeTypes, FdTypes, ListTypes, QueueInv, FreshInv, threadLoop
    PROVE  FreshInv' /\ mQueue' \in Seq(Items) /\ Len(mQueue') <= Limit
<1>0. mQueue \in Seq(Items) /\ Len(mQueue) <= Limit /\ Poller \in Threads
  BY DEF ListTypes, Threads
<1>1. trans' \in {trans, found, NoTrans}
  BY ZenonT(30) DEF threadLoop, epoll_wait, fetch, FetchStale, FetchAssign, HandleRead, HupClose, HupRemove,
               HupDone, EndBatch, poller
<1>2. found' \in {found, NoTrans} \/ \E e \in Elements(mQueue) : found' = e.socket_inst
  <2>1. ASSUME NEW i \in 1 .. Len(mQueue), found' = mQueue[i].socket_inst
        PROVE  \E e \in Elements(mQueue) : found' = e.socket_inst
    BY <2>1, ZenonT(30) DEF Elements
  <2> QED BY <2>1, ZenonT(30) DEF threadLoop, epoll_wait, fetch, FetchStale, FetchAssign, HandleRead,
                             HupClose, HupRemove, HupDone, EndBatch, poller
<1>3. \/ mQueue' = mQueue
      \/ \E i \in 1 .. Len(mQueue) : mQueue' = RemoveAt(mQueue, i)
  BY ZenonT(30) DEF threadLoop, epoll_wait, fetch, FetchStale, FetchAssign, HandleRead, HupClose, HupRemove,
               HupDone, EndBatch
<1>4. /\ mQueue' \in Seq(Items) /\ Len(mQueue') <= Limit
      /\ \A e \in Elements(mQueue') : e.socket_inst = Poller \/ e \in Elements(mQueue)
  <2>1. CASE mQueue' = mQueue
    BY <1>0, <2>1, ZenonT(30)
  <2>2. ASSUME NEW i \in 1 .. Len(mQueue), mQueue' = RemoveAt(mQueue, i)
        PROVE  <1>4!1 /\ <1>4!2
    <3>1. /\ mQueue' \in Seq(Items) /\ Len(mQueue') = Len(mQueue) - 1
          /\ Elements(mQueue') = Elements(mQueue) \ {mQueue[i]}
      BY ONLY <1>0, <2>2, QueueInv, ListChange, ZenonT(30)
    <3>2. Len(mQueue') <= Limit
      BY ONLY SMT, SMTT(30), <1>0, <3>1, CoreAssumption
    <3> QED BY <3>1, <3>2, ZenonT(30)
  <2> QED BY <1>3, <2>1, <2>2, ZenonT(30)
<1>5. \E p : p \notin {"new", "insert"} /\ pc' = [pc EXCEPT ![Poller] = p]
  <2>1. CASE fetch
    <3>1. CASE pc' = pc
      <4>1. pc[Poller] = "fetch"
        BY <2>1, ZenonT(30) DEF fetch
      <4>2. pc' = [pc EXCEPT ![Poller] = "fetch"]
        BY ZenonT(30), <1>0, <3>1, <4>1 DEF LifeTypes
      <4> QED BY <4>2, ZenonT(30)
    <3>2. CASE pc' = [pc EXCEPT ![Poller] = "check"]
      BY <3>2, ZenonT(30)
    <3> QED BY <2>1, <3>1, <3>2, ZenonT(30) DEF fetch
  <2>2. CASE HupRemove
    <3>1. "hupDone" \notin {"new", "insert"}
      OBVIOUS
    <3> QED BY <2>2, <3>1, WeakSock, ZenonT(30) DEF HupRemove
  <2>3. CASE EndBatch
    <3>1. "wait" \notin {"new", "insert"}
      OBVIOUS
    <3> QED BY <2>3, <3>1, DropSock, ZenonT(30) DEF EndBatch
  <2>4. CASE epoll_wait \/ FetchStale \/ FetchAssign \/ HandleRead \/ HupClose \/ HupDone
    BY <2>4, ZenonT(30) DEF epoll_wait, FetchStale, FetchAssign, HandleRead, HupClose, HupDone
  <2> QED BY <2>1, <2>2, <2>3, <2>4, ZenonT(30) DEF threadLoop
<1>6. \E o : /\ sock' = sock \/ sock' = [sock EXCEPT ![o] = Closed]
             /\ o \in {Poller, trans, found} \/ \E e \in Elements(mQueue) : o = e.socket_inst
  <2>1. CASE sock' = sock \/ sock' = [sock EXCEPT ![trans] = Closed]
    BY <2>1, ZenonT(30)
  <2>2. CASE HupRemove
    <3>1. "hupDone" \notin {"new", "insert"}
      OBVIOUS
    <3>2. ASSUME NEW i \in 1 .. Len(mQueue), decWeak(Poller, mQueue[i].socket_inst, "hupDone")
          PROVE  <1>6
      <4>1. sock' = sock \/ sock' = [sock EXCEPT ![mQueue[i].socket_inst] = Closed]
        BY <3>1, <3>2, WeakSock, ZenonT(30)
      <4>2. \E e \in Elements(mQueue) : mQueue[i].socket_inst = e.socket_inst
        BY ZenonT(30) DEF Elements
      <4> QED BY <4>1, <4>2, ZenonT(30)
    <3> QED BY <2>1, <2>2, <3>2, ZenonT(30) DEF HupRemove
  <2>3. CASE EndBatch
    <3>1. "wait" \notin {"new", "insert"}
      OBVIOUS
    <3> QED BY <2>1, <2>3, <3>1, DropSock, ZenonT(30) DEF EndBatch
  <2>4. CASE epoll_wait \/ fetch \/ FetchStale \/ FetchAssign \/ HandleRead \/ HupClose \/ HupDone
    <3>1. sock' = sock \/ sock' = [sock EXCEPT ![trans] = Closed]
      BY <2>4, ZenonT(30) DEF epoll_wait, fetch, FetchStale, FetchAssign, HandleRead, HupClose, HupDone,
                         EnterDtor, FreeClosed
    <3> QED BY <2>1, <3>1
  <2> QED BY <2>2, <2>3, <2>4, ZenonT(30) DEF threadLoop
<1>7. PICK p : p \notin {"new", "insert"} /\ pc' = [pc EXCEPT ![Poller] = p]
  BY <1>5, ZenonT(30)
<1>8. PICK o : /\ sock' = sock \/ sock' = [sock EXCEPT ![o] = Closed]
               /\ o \in {Poller, trans, found} \/ \E e \in Elements(mQueue) : o = e.socket_inst
  BY <1>6
<1>9. FreshInv'
  BY <1>0, <1>1, <1>2, <1>4, <1>7, <1>8, FreshThread, ZenonT(30)
<1> QED BY <1>4, <1>9

\* The events still to be handled come from epoll_wait and are taken one by one.
LEMMA EventsNext ==
    ASSUME LifeTypes, ListTypes, BatchInv, [Next]_vars
    PROVE  events' \in Seq(Events) /\ BatchInv'
<1> DEFINE Busy == {"check", "handle", "hupRemove", "hupDone"}
<1>0. events \in Seq(Events) /\ Poller \in Threads
  BY DEF ListTypes, Threads
<1>1. CASE events' = events /\ (pc'[Poller] \in Busy => pc[Poller] \in Busy \/ events # <<>>)
  BY <1>0, <1>1, ZenonT(30) DEF BatchInv
<1>2. CASE epoll_wait
  <2>1. PICK n \in 1 .. MaxEvents : \E e \in [1 .. n -> Events] : events' = e
    BY <1>2, ZenonT(30) DEF epoll_wait
  <2>2. n \in Nat /\ events' \in [1 .. n -> Events]
    BY SMT, SMTT(30), <2>1, CoreAssumption
  <2>3. events' \in Seq(Events)
    BY SMT, SMTT(30), <2>2
  <2>4. pc'[Poller] = "fetch"
    BY <1>0, <1>2, ZenonT(30) DEF epoll_wait, LifeTypes
  <2> QED BY <2>3, <2>4, ZenonT(30) DEF BatchInv
<1>3. CASE events' = Tail(events) /\ events # <<>> /\ pc'[Poller] = "fetch"
  <2>1. events' \in Seq(Events)
    BY SMT, SMTT(30), <1>0, <1>3
  <2> QED BY <1>3, <2>1, ZenonT(30) DEF BatchInv
<1>4. ASSUME NEW t \in Trans, Owner(t) PROVE events' = events /\ pc'[Poller] = pc[Poller]
  <2>1. events' = events
    BY <1>4, ZenonT(30) DEF Owner, Create, insert, EpollAdd, InitFailed, DeleteSelf, Own, Release, poller
  <2>2. \E p : pc' = [pc EXCEPT ![t] = p]
    BY <1>4, ZenonT(30)
      DEF Owner, Create, insert, EpollAdd, InitFailed, DeleteSelf, Own, Release, decStrong, decWeak
  <2>3. t # Poller
    BY CoreAssumption
  <2> QED BY <1>0, <2>1, <2>2, <2>3, ZenonT(30) DEF LifeTypes
<1>5. ASSUME NEW x \in Threads, CloseTransport(x)
      PROVE  events' = events /\ (pc'[Poller] \in Busy => pc[Poller] \in Busy)
  <2>1. events' = events
    BY <1>5, ZenonT(30) DEF CloseTransport, remove, EpollDel, Close, poller
  <2>2. \E p : p \notin Busy /\ pc' = [pc EXCEPT ![x] = p]
    <3>1. After(x) \notin Busy /\ "del" \notin Busy /\ "close" \notin Busy /\ "remove" \notin Busy
      BY DEF After
    <3> QED BY <1>5, <3>1, ZenonT(30) DEF CloseTransport, remove, EpollDel, Close, decWeak
  <2> HIDE DEF Busy
  <2> QED BY <1>0, <2>1, <2>2, ZenonT(30) DEF LifeTypes
<1>6. CASE threadLoop
  <2>1. CASE fetch
    BY <1>1, <1>0, <1>3, <2>1, ZenonT(30) DEF fetch
  <2>2. CASE FetchStale \/ HandleRead \/ HupDone
    <3>1. events' = Tail(events) /\ pc[Poller] \in Busy /\ pc' = [pc EXCEPT ![Poller] = "fetch"]
      BY <2>2, ZenonT(30) DEF FetchStale, HandleRead, HupDone
    <3>2. pc'[Poller] = "fetch"
      BY <1>0, <3>1, ZenonT(30) DEF LifeTypes
    <3> QED BY <1>3, <3>1, <3>2, ZenonT(30) DEF BatchInv
  <2>3. CASE FetchAssign \/ HupClose \/ HupRemove
    <3>1. events' = events /\ pc[Poller] \in Busy
      BY <2>3, ZenonT(30) DEF FetchAssign, HupClose, HupRemove, poller
    <3> QED BY <1>1, <3>1
  <2>4. CASE EndBatch
    <3>1. events' = events
      BY <2>4, ZenonT(30) DEF EndBatch
    <3>2. \E p \in {"wait", "remove"} : pc' = [pc EXCEPT ![Poller] = p]
      BY <2>4, ZenonT(30) DEF EndBatch, decStrong
    <3>3. pc'[Poller] \notin Busy
      BY <1>0, <3>2, ZenonT(30) DEF LifeTypes
    <3> QED BY <1>1, <3>1, <3>3
  <2> QED BY <1>2, <1>6, <2>1, <2>2, <2>3, <2>4, ZenonT(30) DEF threadLoop
<1>7. CASE UNCHANGED vars
  <2>1. events' = events /\ pc' = pc
    BY <1>7, ZenonT(30) DEF vars, poller
  <2> QED BY <1>1, <2>1
<1> QED BY <1>1, <1>4, <1>5, <1>6, <1>7, ZenonT(30) DEF Next

TypeInv == LifeTypes /\ FdTypes /\ ListTypes /\ FreshInv /\ BatchInv

LEMMA TypeStep == QueueInv /\ TypeInv /\ [Next]_vars => TypeInv'
<1> SUFFICES ASSUME QueueInv, TypeInv, [Next]_vars PROVE TypeInv'
  OBVIOUS
<1>0. LifeTypes /\ FdTypes /\ ListTypes /\ FreshInv /\ BatchInv
  BY DEF TypeInv
<1>1. events' \in Seq(Events) /\ BatchInv'
  BY <1>0, EventsNext
<1>2. CASE Next
  <2>1. ASSUME NEW t \in Trans, Owner(t) PROVE TypeInv'
    BY ZenonT(30), <1>0, <1>1, <2>1, OwnerTypes, FreshOwner DEF TypeInv, ListTypes
  <2>2. ASSUME NEW x \in Threads, CloseTransport(x) PROVE TypeInv'
    BY ZenonT(30), <1>0, <1>1, <2>2, CloseTypes, FreshClose DEF TypeInv, ListTypes
  <2>3. CASE threadLoop
    BY <1>0, <1>1, <2>3, LoopTypes, FreshLoop DEF TypeInv, ListTypes
  <2> QED BY <1>2, <2>1, <2>2, <2>3, ZenonT(30) DEF Next
<1>3. CASE UNCHANGED vars
  BY <1>0, <1>1, <1>3, ZenonT(30)
    DEF vars, objects, kernel, dtor, poller, TypeInv, LifeTypes, FdTypes, ListTypes, FreshInv
<1> QED BY <1>2, <1>3

LEMMA InitTypes == Init => TypeInv
<1> SUFFICES ASSUME Init PROVE TypeInv
  OBVIOUS
<1>1. LifeTypes
  BY ZenonT(30), InitLife DEF LifeInv
<1>2. FdTypes
  BY DEF Init, FdTypes
<1>3. ListTypes /\ Elements(mQueue) = {}
  BY SMT, SMTT(30), CoreAssumption DEF Init, ListTypes, Elements
<1>4. FreshInv
  <2>1. \A t \in Trans : t \in Threads /\ t # Poller /\ t # NoTrans
    BY CoreAssumption DEF Threads
  <2>2. \A t \in Trans : pc[t] = "new"
    BY <2>1, ZenonT(30) DEF Init
  <2> QED BY <1>3, <2>1, <2>2, ZenonT(30) DEF FreshInv, Init
<1>5. BatchInv
  <2>1. Poller \in Threads
    BY DEF Threads
  <2>2. pc[Poller] = "wait"
    BY <2>1, ZenonT(30) DEF Init
  <2> QED BY <2>2, ZenonT(30) DEF BatchInv
<1> QED BY <1>1, <1>2, <1>3, <1>4, <1>5 DEF TypeInv

\* The list, the objects, the descriptors and the poller's pointers stay what
\* their types say, and the list within CONTAINER_LIMIT, whatever transports
\* come from create, hang up or fail to be added.
THEOREM TypeOKHolds == Spec => []TypeOK
<1>1. Init => QueueInv /\ TypeInv
  BY InitQueue, InitTypes
<1>2. (QueueInv /\ TypeInv) /\ [Next]_vars => (QueueInv /\ TypeInv)'
  <2> SUFFICES ASSUME QueueInv, TypeInv, [Next]_vars PROVE QueueInv' /\ TypeInv'
    OBVIOUS
  <2>1. QueueInv'
    BY NextQueue, QueueStepSorted, NextSock DEF QueueInv
  <2> QED BY <2>1, TypeStep
<1>3. QueueInv /\ TypeInv => TypeOK
  BY ZenonT(30) DEF TypeInv, LifeTypes, FdTypes, ListTypes, TypeOK
<1> QED BY <1>1, <1>2, <1>3, PTL DEF Spec
=============================================================================
