--------------------------- MODULE SocketFdProofs ---------------------------
(***************************************************************************)
(* SocketCore's descriptors, for any number of transports, descriptors,    *)
(* list slots and events, when every transport has its sp<> first, no      *)
(* socket hangs up and epoll takes every socket (Orderly).  A passive      *)
(* close frees a descriptor while its transport is still registered, so    *)
(* without the second hypothesis the theorems are false.                   *)
(*                                                                         *)
(* The inductive invariant, DescriptorInv, says who has each open          *)
(* descriptor (DescrInv), from when to when it is in the epoll set         *)
(* (EpollInv) and what the holder's items stand for (ItemInv), on top of   *)
(* the order, life and type invariants of SocketCoreProofs (Known).        *)
(***************************************************************************)
EXTENDS SocketCoreProofs

Orderly == RawCreated = {} /\ ~PassiveClose /\ ~AddMayFail

Destroying == {"remove", "del", "close"}
Active == {"new", "insert", "add"} \cup Destroying

\* An owner keeps its reference from Create to Release, so what lives is held.
OwnInv ==
    /\ \A t \in Trans : /\ pc[t] # "failed"
                        /\ pc[t] \in {"insert", "add", "created", "owned"} => "owner" \in refs[t]
                        /\ life[t] = "live" => refs[t] # {}
    /\ pc[Poller] \notin {"hupRemove", "hupDone", "new", "insert", "add"}
    /\ \A i \in 1 .. Len(events) : ~events[i].hup

\* A descriptor is open for the live transport that has it as its sock, or for
\* the destructor that has taken it.
DescrInv ==
    /\ \A t \in Trans : IF life[t] = "live" THEN sock[t] \in Fds /\ descr[sock[t]] = t
                                            ELSE sock[t] = Closed
    /\ \A f \in Fds : descr[f] # NoTrans =>
          \/ life[descr[f]] = "live" /\ sock[descr[f]] = f
          \/ \E x \in Threads : pc[x] \in Destroying /\ victim[x] = descr[f] /\ _sock[x] = f
    /\ \A x \in Threads : pc[x] \in Destroying => _sock[x] \in Fds /\ descr[_sock[x]] = victim[x]

\* The epoll set has the sockets from EpollAdd to EpollDel.
EpollInv ==
    /\ \A x \in Threads : pc[x] \in {"remove", "del"} => _sock[x] \in interest
    /\ \A t \in Trans : pc[t] \in {"insert", "add"} => sock[t] \notin interest
    /\ \A t \in Trans : life[t] = "live" /\ pc[t] \notin {"insert", "add"} => sock[t] \in interest
    /\ \A f \in interest : descr[f] # NoTrans

\* An item names the transport its descriptor is open for, and is gone before
\* the descriptor leaves the epoll set.
ItemInv ==
    /\ \A e \in Elements(mQueue) : descr[e.socket_fd] = e.socket_inst
    /\ \A x \in Threads : pc[x] \in {"del", "close"} => \A e \in Elements(mQueue) : e.socket_fd # _sock[x]

FdInv == DescrInv /\ EpollInv /\ ItemInv

\* What is known before a step, and of the objects after it.
Known == CoreInv /\ TypeInv /\ OwnInv

LEMMA KnownFacts ==
    ASSUME Known
    PROVE  /\ life \in [Trans -> Lives] /\ refs \in [Trans -> SUBSET Holders] /\ pc \in [Threads -> Places]
           /\ victim \in [Threads -> Trans \cup {NoTrans}] /\ _sock \in [Threads -> Fds \cup {Closed}]
           /\ sock \in [Trans -> Fds \cup {Closed}] /\ descr \in [Fds -> Trans \cup {NoTrans}]
           /\ interest \subseteq Fds
           /\ Closed \notin Fds /\ NoTrans \notin Trans /\ Poller \notin Trans
           /\ Trans \subseteq Threads /\ Poller \in Threads /\ Threads = Trans \cup {Poller}
           /\ \A e \in Elements(mQueue) : e.socket_fd \in Fds /\ e.socket_inst \in Trans
                                          /\ life[e.socket_inst] # "none" /\ pc[e.socket_inst] # "insert"
           /\ \A x \in Threads : pc[x] \in Destroying =>
                 victim[x] \in Trans /\ life[victim[x]] = "dying"
           /\ \A x \in Threads : victim[x] # NoTrans => life[victim[x]] = "dying"
           /\ \A x, y \in Threads : pc[x] \in Destroying /\ pc[y] \in Destroying /\ victim[x] = victim[y] => x = y
           /\ \A t \in Trans : pc[t] = "new" => life[t] = "none"
           /\ \A t \in Trans : pc[t] \in {"insert", "add", "created", "owned"} => life[t] = "live"
<1>1. /\ life \in [Trans -> Lives] /\ refs \in [Trans -> SUBSET Holders] /\ pc \in [Threads -> Places]
      /\ victim \in [Threads -> Trans \cup {NoTrans}] /\ _sock \in [Threads -> Fds \cup {Closed}]
      /\ sock \in [Trans -> Fds \cup {Closed}] /\ descr \in [Fds -> Trans \cup {NoTrans}]
      /\ interest \subseteq Fds /\ mQueue \in Seq(Items)
  BY ZenonT(30) DEF Known, TypeInv, LifeTypes, FdTypes, ListTypes
<1>2. /\ Closed \notin Fds /\ NoTrans \notin Trans /\ Poller \notin Trans
      /\ Trans \subseteq Threads /\ Poller \in Threads /\ Threads = Trans \cup {Poller}
  BY SMT, SMTT(30), CoreAssumption DEF Closed, Threads
<1>3. \A e \in Elements(mQueue) : e.socket_fd \in Fds /\ e.socket_inst \in Trans
                                  /\ life[e.socket_inst] # "none" /\ pc[e.socket_inst] # "insert"
  <2>1. ASSUME NEW i \in 1 .. Len(mQueue) PROVE mQueue[i].socket_fd \in Fds /\ mQueue[i].socket_inst \in Trans
    <3>1. mQueue[i] \in Items
      BY SMT, SMTT(30), <1>1
    <3> QED BY <3>1 DEF Items
  <2>2. ASSUME NEW i \in 1 .. Len(mQueue) PROVE life[mQueue[i].socket_inst] # "none"
    BY ZenonT(30) DEF Known, CoreInv, ListedInv
  <2>3. \A e \in Elements(mQueue) : e.socket_inst \in Trans => pc[e.socket_inst] # "insert"
    BY ZenonT(30) DEF Known, TypeInv, FreshInv
  <2> QED BY <2>1, <2>2, <2>3, ZenonT(30) DEF Elements
<1>4. /\ \A x \in Threads : pc[x] \in Destroying => victim[x] # NoTrans
      /\ \A x \in Threads : victim[x] # NoTrans => life[victim[x]] = "dying"
      /\ \A x, y \in Threads : victim[x] = victim[y] /\ x # y => victim[x] = NoTrans
  BY ZenonT(30) DEF Known, CoreInv, LifeInv, DestructorInv, Destroying
<1>5. /\ \A x \in Threads : pc[x] \in Destroying => victim[x] \in Trans /\ life[victim[x]] = "dying"
      /\ \A x, y \in Threads : pc[x] \in Destroying /\ pc[y] \in Destroying /\ victim[x] = victim[y] => x = y
  BY <1>1, <1>4, ZenonT(30)
<1>6. /\ \A t \in Trans : pc[t] = "new" => life[t] = "none"
      /\ \A t \in Trans : refs[t] # {} => life[t] = "live"
  BY ZenonT(30) DEF Known, CoreInv, LifeInv, ObjectInv
<1>7. \A t \in Trans : pc[t] \in {"insert", "add", "created", "owned"} => life[t] = "live"
  BY <1>6, ZenonT(30) DEF Known, OwnInv
<1> QED BY <1>1, <1>2, <1>3, <1>4, <1>5, <1>6, <1>7, ZenonT(30)

\* A step of thread x that neither opens, takes nor closes a descriptor.
PlainStep(x, p) ==
    /\ UNCHANGED <<life, sock, descr, interest, victim, _sock>>
    /\ pc' = [pc EXCEPT ![x] = p]
    /\ pc[x] \notin Active /\ p \notin Active
    /\ Elements(mQueue') \subseteq Elements(mQueue)

LEMMA PlainFds ==
    ASSUME Known, FdInv, NEW x \in Threads, NEW p, PlainStep(x, p)
    PROVE  FdInv'
<1>1. \A y \in Threads : pc[y] \in Active \/ pc'[y] \in Active => pc'[y] = pc[y]
  BY KnownFacts, ZenonT(30) DEF PlainStep
<1>2. \A y \in Threads : /\ pc'[y] \in Destroying <=> pc[y] \in Destroying
                         /\ pc'[y] \in {"remove", "del"} <=> pc[y] \in {"remove", "del"}
                         /\ pc'[y] \in {"del", "close"} <=> pc[y] \in {"del", "close"}
                         /\ pc'[y] \in {"insert", "add"} <=> pc[y] \in {"insert", "add"}
  BY ZenonT(30), <1>1 DEF Active, Destroying
<1>3. UNCHANGED <<life, sock, descr, interest, victim, _sock>> /\ Elements(mQueue') \subseteq Elements(mQueue)
  BY ZenonT(30) DEF PlainStep
<1>4. Trans \subseteq Threads
  BY KnownFacts
<1>5. DescrInv'
  BY <1>2, <1>3, ZenonT(30) DEF FdInv, DescrInv
<1>6. EpollInv'
  BY <1>2, <1>3, <1>4, ZenonT(30) DEF FdInv, EpollInv
<1>7. ItemInv'
  BY <1>2, <1>3, ZenonT(30) DEF FdInv, ItemInv
<1> QED BY ZenonT(30), <1>5, <1>6, <1>7 DEF FdInv

LEMMA CreateFds ==
    ASSUME Known, FdInv, NEW t \in Trans, Create(t)
    PROVE  FdInv'
<1>1. PICK f \in Fds : descr[f] = NoTrans /\ descr' = [descr EXCEPT ![f] = t] /\ sock' = [sock EXCEPT ![t] = f]
  BY ZenonT(30) DEF Create
<1>2. /\ UNCHANGED <<interest, mQueue, victim, _sock>> /\ pc[t] = "new"
      /\ life' = [life EXCEPT ![t] = "live"] /\ pc' = [pc EXCEPT ![t] = "insert"]
  BY ZenonT(30) DEF Create, dtor
<1>3. /\ \A y \in Threads : /\ pc'[y] \in Destroying <=> pc[y] \in Destroying
                            /\ pc'[y] \in {"remove", "del"} <=> pc[y] \in {"remove", "del"}
                            /\ pc'[y] \in {"del", "close"} <=> pc[y] \in {"del", "close"}
      /\ \A u \in Trans : u # t => pc'[u] = pc[u] /\ life'[u] = life[u] /\ sock'[u] = sock[u]
      /\ pc'[t] = "insert" /\ life'[t] = "live" /\ sock'[t] = f /\ life[t] = "none"
      /\ \A g \in Fds : g # f => descr'[g] = descr[g]
      /\ descr'[f] = t
  <2>1. \A y \in Threads : y # t => pc'[y] = pc[y]
    BY <1>2, KnownFacts, ZenonT(30)
  <2>2. pc'[t] = "insert" /\ life'[t] = "live" /\ sock'[t] = f /\ life[t] = "none" /\ descr'[f] = t
    BY <1>1, <1>2, KnownFacts, ZenonT(30)
  <2>3. \A u \in Trans : u # t => pc'[u] = pc[u] /\ life'[u] = life[u] /\ sock'[u] = sock[u]
    <3>1. Trans \subseteq Threads /\ DOMAIN life = Trans /\ DOMAIN sock = Trans
      BY ZenonT(30), KnownFacts
    <3> QED BY ZenonT(30), <1>1, <1>2, <2>1, <3>1
  <2>4. \A g \in Fds : g # f => descr'[g] = descr[g]
    BY <1>1, KnownFacts, ZenonT(30)
  <2>5. ASSUME NEW y \in Threads
        PROVE  /\ pc'[y] \in Destroying <=> pc[y] \in Destroying
               /\ pc'[y] \in {"remove", "del"} <=> pc[y] \in {"remove", "del"}
               /\ pc'[y] \in {"del", "close"} <=> pc[y] \in {"del", "close"}
    BY ZenonT(30), <1>2, <2>1, <2>2 DEF Destroying
  <2> QED BY <2>2, <2>3, <2>4, <2>5, ZenonT(30)
<1>a. \A u \in Trans : IF life[u] = "live" THEN sock[u] \in Fds /\ descr[sock[u]] = u
                                         ELSE sock[u] = Closed
  BY ZenonT(30) DEF FdInv, DescrInv
<1>b. \A g \in Fds : descr[g] # NoTrans =>
         \/ life[descr[g]] = "live" /\ sock[descr[g]] = g
         \/ \E x \in Threads : pc[x] \in Destroying /\ victim[x] = descr[g] /\ _sock[x] = g
  BY ZenonT(30) DEF FdInv, DescrInv
<1>c. \A x \in Threads : pc[x] \in Destroying => _sock[x] \in Fds /\ descr[_sock[x]] = victim[x]
  BY ZenonT(30) DEF FdInv, DescrInv
<1>d. NoTrans \notin Trans
  BY ZenonT(30), KnownFacts
<1>e. \A x \in Threads : pc[x] \in Destroying => victim[x] \in Trans /\ life[victim[x]] = "dying"
  BY ZenonT(30), KnownFacts
<1>4. f \notin interest /\ \A x \in Threads : pc[x] \in Destroying => _sock[x] # f
  <2>1. f \notin interest
    BY ZenonT(30), <1>1 DEF FdInv, EpollInv
  <2>2. ASSUME NEW x \in Threads, pc[x] \in Destroying PROVE _sock[x] # f
    <3>1. descr[_sock[x]] \in Trans
      BY ZenonT(30), <1>c, <1>e, <2>2
    <3> QED BY ZenonT(30), <1>1, <1>d, <3>1
  <2> QED BY ZenonT(30), <2>1, <2>2
<1>5. \A u \in Trans : life[u] = "live" => sock[u] # f
  <2> SUFFICES ASSUME NEW u \in Trans, life[u] = "live" PROVE sock[u] # f
    BY ZenonT(30)
  <2>1. descr[sock[u]] \in Trans
    BY ZenonT(30), <1>a
  <2> QED BY ZenonT(30), <1>1, <1>d, <2>1
<1>6. \A g \in Fds : descr[g] # NoTrans => descr[g] # t
  <2> SUFFICES ASSUME NEW g \in Fds, descr[g] # NoTrans, descr[g] = t PROVE FALSE
    BY ZenonT(30)
  <2>1. life[t] = "none"
    BY ZenonT(30), <1>3
  <2>2. \E x \in Threads : pc[x] \in Destroying /\ victim[x] = t
    BY ZenonT(30), <1>b, <2>1
  <2> QED BY ZenonT(30), <1>e, <2>1, <2>2
<1>7. DescrInv'
  <2>1. ASSUME NEW u \in Trans
        PROVE  IF life'[u] = "live" THEN sock'[u] \in Fds /\ descr'[sock'[u]] = u ELSE sock'[u] = Closed
    <3>1. CASE u = t
      BY ONLY ZenonT(30), <1>3, <3>1, f \in Fds
    <3>2. CASE u # t
      <4>1. life'[u] = life[u] /\ sock'[u] = sock[u]
        BY ONLY ZenonT(30), <1>3, <3>2, u \in Trans
      <4>2. sock[u] \in Fds /\ life[u] = "live" => descr'[sock[u]] = descr[sock[u]]
        BY ONLY ZenonT(30), <1>3, <1>5, u \in Trans
      <4> QED BY ONLY ZenonT(30), <1>a, <4>1, <4>2, u \in Trans
    <3> QED BY ZenonT(30), <3>1, <3>2
  <2>2. ASSUME NEW g \in Fds, descr'[g] # NoTrans
        PROVE  \/ life'[descr'[g]] = "live" /\ sock'[descr'[g]] = g
               \/ \E x \in Threads : pc'[x] \in Destroying /\ victim'[x] = descr'[g] /\ _sock'[x] = g
    <3>1. CASE g = f
      BY <1>3, <3>1, ZenonT(30)
    <3>2. CASE g # f
      <4>1. descr'[g] = descr[g] /\ descr[g] # t /\ descr[g] \in Trans
        <5>1. descr'[g] = descr[g] /\ descr[g] # t
          BY ZenonT(30), <1>3, <1>6, <2>2, <3>2
        <5>2. descr[g] \in Trans \cup {NoTrans}
          BY ZenonT(30), KnownFacts
        <5> QED BY ZenonT(30), <2>2, <5>1, <5>2
      <4>2. CASE life[descr[g]] = "live" /\ sock[descr[g]] = g
        BY ONLY ZenonT(30), <1>3, <4>1, <4>2
      <4>3. CASE \E x \in Threads : pc[x] \in Destroying /\ victim[x] = descr[g] /\ _sock[x] = g
        <5> PICK x \in Threads : pc[x] \in Destroying /\ victim[x] = descr[g] /\ _sock[x] = g
          BY <4>3
        <5>1. pc'[x] \in Destroying /\ victim'[x] = victim[x] /\ _sock'[x] = _sock[x]
          BY ZenonT(30), <1>2, <1>3
        <5> QED BY ZenonT(30), <4>1, <5>1
      <4> QED BY ZenonT(30), <1>b, <2>2, <4>1, <4>2, <4>3
    <3> QED BY ZenonT(30), <3>1, <3>2
  <2>3. ASSUME NEW x \in Threads, pc'[x] \in Destroying
        PROVE  _sock'[x] \in Fds /\ descr'[_sock'[x]] = victim'[x]
    <3>1. pc[x] \in Destroying /\ _sock'[x] = _sock[x] /\ victim'[x] = victim[x]
      BY ZenonT(30), <1>2, <1>3, <2>3
    <3>2. _sock[x] \in Fds /\ descr[_sock[x]] = victim[x] /\ _sock[x] # f
      BY ZenonT(30), <1>c, <1>4, <3>1
    <3> QED BY ZenonT(30), <1>3, <3>1, <3>2
  <2> QED BY <2>1, <2>2, <2>3, ZenonT(30) DEF DescrInv
<1>8. EpollInv'
  <2>1. \A x \in Threads : pc'[x] \in {"remove", "del"} => _sock'[x] \in interest'
    BY <1>2, <1>3, ZenonT(30) DEF FdInv, EpollInv
  <2>2. ASSUME NEW u \in Trans
        PROVE  /\ pc'[u] \in {"insert", "add"} => sock'[u] \notin interest'
               /\ life'[u] = "live" /\ pc'[u] \notin {"insert", "add"} => sock'[u] \in interest'
    BY <1>2, <1>3, <1>4, ZenonT(30) DEF FdInv, EpollInv
  <2>3. \A g \in interest' : descr'[g] # NoTrans
    BY SMT, SMTT(30), <1>2, <1>3, <1>4, KnownFacts DEF FdInv, EpollInv
  <2> QED BY <2>1, <2>2, <2>3, ZenonT(30) DEF EpollInv
<1>9. ItemInv'
  <2>1. \A e \in Elements(mQueue') : descr'[e.socket_fd] = e.socket_inst
    BY SMT, SMTT(30), <1>1, <1>2, <1>3, KnownFacts DEF FdInv, ItemInv
  <2>2. \A x \in Threads : pc'[x] \in {"del", "close"} => \A e \in Elements(mQueue') : e.socket_fd # _sock'[x]
    BY <1>2, <1>3, ZenonT(30) DEF FdInv, ItemInv
  <2> QED BY <2>1, <2>2, ZenonT(30) DEF ItemInv
<1> QED BY ZenonT(30), <1>7, <1>8, <1>9 DEF FdInv

\* Thread x begins the destructor of the registered transport t.
TakeStep(x, t) ==
    /\ life[t] = "live" /\ pc[t] \notin {"insert", "add"}
    /\ pc[x] \notin Active /\ pc' = [pc EXCEPT ![x] = "remove"]
    /\ victim' = [victim EXCEPT ![x] = t] /\ _sock' = [_sock EXCEPT ![x] = sock[t]]
    /\ sock' = [sock EXCEPT ![t] = Closed] /\ life' = [life EXCEPT ![t] = "dying"]
    /\ UNCHANGED <<descr, interest, mQueue>>

LEMMA TakeFds ==
    ASSUME Known, FdInv, NEW x \in Threads, NEW t \in Trans, TakeStep(x, t)
    PROVE  FdInv'
<1>0. life[t] = "live" /\ pc[t] \notin {"insert", "add"} /\ UNCHANGED <<descr, interest, mQueue>>
  BY ZenonT(30) DEF TakeStep
<1>1. /\ \A y \in Threads : y # x => pc'[y] = pc[y] /\ victim'[y] = victim[y] /\ _sock'[y] = _sock[y]
      /\ pc'[x] = "remove" /\ victim'[x] = t /\ _sock'[x] = sock[t]
      /\ \A u \in Trans : u # t => sock'[u] = sock[u] /\ life'[u] = life[u]
      /\ sock'[t] = Closed /\ life'[t] = "dying"
  BY KnownFacts, ZenonT(30) DEF TakeStep
<1>2. pc[x] \notin Destroying /\ pc[x] \notin {"insert", "add"} /\ "remove" \in Destroying
  BY ZenonT(30) DEF TakeStep, Active, Destroying
<1>3. sock[t] \in Fds /\ descr[sock[t]] = t /\ sock[t] \in interest
  BY <1>0, ZenonT(30) DEF FdInv, DescrInv, EpollInv
<1>7. DescrInv'
  <2>1. ASSUME NEW u \in Trans
        PROVE  IF life'[u] = "live" THEN sock'[u] \in Fds /\ descr'[sock'[u]] = u ELSE sock'[u] = Closed
    BY SMT, SMTT(30), <1>0, <1>1 DEF FdInv, DescrInv
  <2>2. ASSUME NEW g \in Fds, descr'[g] # NoTrans
        PROVE  \/ life'[descr'[g]] = "live" /\ sock'[descr'[g]] = g
               \/ \E y \in Threads : pc'[y] \in Destroying /\ victim'[y] = descr'[g] /\ _sock'[y] = g
    <3>1. descr'[g] = descr[g] /\ descr[g] \in Trans
      BY <1>0, <2>2, KnownFacts, ZenonT(30)
    <3>2. CASE life[descr[g]] = "live" /\ sock[descr[g]] = g
      BY <1>1, <1>2, <3>1, <3>2, ZenonT(30)
    <3>3. ASSUME NEW y \in Threads, pc[y] \in Destroying, victim[y] = descr[g], _sock[y] = g
          PROVE  pc'[y] \in Destroying /\ victim'[y] = descr'[g] /\ _sock'[y] = g
      BY <1>1, <1>2, <3>1, <3>3, ZenonT(30)
    <3> QED BY <2>2, <3>1, <3>2, <3>3, ZenonT(30) DEF FdInv, DescrInv
  <2>3. ASSUME NEW y \in Threads, pc'[y] \in Destroying
        PROVE  _sock'[y] \in Fds /\ descr'[_sock'[y]] = victim'[y]
    BY SMT, SMTT(30), <1>0, <1>1, <1>3, <2>3 DEF FdInv, DescrInv
  <2> QED BY <2>1, <2>2, <2>3, ZenonT(30) DEF DescrInv
<1>8. EpollInv'
  <2>1. \A y \in Threads : pc'[y] \in {"remove", "del"} => _sock'[y] \in interest'
    BY <1>0, <1>1, <1>3, ZenonT(30) DEF FdInv, EpollInv
  <2>2. ASSUME NEW u \in Trans
        PROVE  /\ pc'[u] \in {"insert", "add"} => sock'[u] \notin interest'
               /\ life'[u] = "live" /\ pc'[u] \notin {"insert", "add"} => sock'[u] \in interest'
    <3>1. u \in Threads /\ (pc'[u] \in {"insert", "add"} <=> pc[u] \in {"insert", "add"})
      BY <1>1, <1>2, KnownFacts, ZenonT(30)
    <3>2. CASE u = t
      BY <1>0, <1>1, <3>1, <3>2, ZenonT(30)
    <3>3. CASE u # t
      BY <1>0, <1>1, <3>1, <3>3, ZenonT(30) DEF FdInv, EpollInv
    <3> QED BY <3>2, <3>3
  <2> QED BY <1>0, <2>1, <2>2, ZenonT(30) DEF FdInv, EpollInv
<1>9. ItemInv'
  <2>1. pc'[x] \notin {"del", "close"}
    BY <1>1, ZenonT(30)
  <2> QED BY <1>0, <1>1, <2>1, ZenonT(30) DEF FdInv, ItemInv
<1> QED BY <1>7, <1>8, <1>9 DEF FdInv

\* fetch, insert and remove find the item of a descriptor when there is one, and
\* there is only one.
LEMMA SearchFacts ==
    ASSUME QueueInv, mQueue \in Seq(Items), NEW f
    PROVE  /\ Missing(f) => \A e \in Elements(mQueue) : e.socket_fd # f
           /\ \A i \in 1 .. Len(mQueue) : IsAt(f, i) =>
                 \A e \in Elements(mQueue) : e.socket_fd = f => e = mQueue[i]
<1>1. /\ \A j, k \in 1 .. Len(mQueue) : j < k => mQueue[j].socket_fd < mQueue[k].socket_fd
      /\ \A j \in 1 .. Len(mQueue) : mQueue[j].socket_fd \in Int
      /\ Len(mQueue) \in Nat
  <2>1. \A j \in 1 .. Len(mQueue) : mQueue[j] \in AnyItem
    BY SMT, SMTT(30) DEF QueueInv
  <2>2. Len(mQueue) \in Nat
    BY SMT, SMTT(30)
  <2>3. \A j, k \in 1 .. Len(mQueue) : j < k => mQueue[j].socket_fd < mQueue[k].socket_fd
    BY SMT, SMTT(30) DEF QueueInv, QueueSorted
  <2>4. \A j \in 1 .. Len(mQueue) : mQueue[j].socket_fd \in Int
    BY ONLY SMT, SMTT(30), <2>1 DEF AnyItem
  <2> QED BY ONLY ZenonT(30), <2>2, <2>3, <2>4
<1>2. ASSUME Missing(f), NEW j \in 1 .. Len(mQueue) PROVE mQueue[j].socket_fd # f
  <2>1. SUFFICES ASSUME mQueue[j].socket_fd = f PROVE IsAt(f, j)
    BY <1>2, ZenonT(30) DEF Missing
  <2>2. \A k \in 1 .. j - 1 : mQueue[k].socket_fd < f
    BY SMT, SMTT(30), <1>1, <2>1
  <2>3. f <= mQueue[j].socket_fd
    BY SMT, SMTT(30), <1>1, <2>1
  <2> QED BY <2>1, <2>2, <2>3, ZenonT(30) DEF IsAt, PlaceOf
<1>3. ASSUME NEW i \in 1 .. Len(mQueue), IsAt(f, i), NEW j \in 1 .. Len(mQueue), mQueue[j].socket_fd = f
      PROVE  mQueue[j] = mQueue[i]
  <2>1. mQueue[i].socket_fd = f
    BY <1>3, ZenonT(30) DEF IsAt
  <2>2. i = j
    BY SMT, SMTT(30), <1>1, <1>3, <2>1
  <2> QED BY <2>2
<1> QED BY <1>2, <1>3, ZenonT(30) DEF Elements

\* An item whose reference is dropped has had a strong one: only the list changes.
LEMMA WeakPlain ==
    ASSUME Known, NEW x \in Threads, NEW next, NEW i \in 1 .. Len(mQueue),
           decWeak(x, mQueue[i].socket_inst, next)
    PROVE  UNCHANGED <<life, sock, victim, _sock>> /\ pc' = [pc EXCEPT ![x] = next]
<1>1. mQueue[i].socket_inst \in Trans /\ ~initial[mQueue[i].socket_inst]
  BY ZenonT(30) DEF Known, CoreInv, ListedInv, LifeInv, ObjectInv
<1> QED BY <1>1, ZenonT(30) DEF decWeak, dtor

LEMMA InsertFds ==
    ASSUME Known, FdInv, NEW t \in Trans, insert(t)
    PROVE  /\ FdInv' /\ UNCHANGED life
           /\ pc' = [pc EXCEPT ![t] = "add"]
           /\ \/ Len(mQueue) = Limit
              \/ Elements(mQueue') = Elements(mQueue) \cup {Item(sock[t], t)} /\ UNCHANGED sock
<1>0. mQueue \in Seq(Items) /\ QueueInv
  BY ZenonT(30) DEF Known, TypeInv, ListTypes, CoreInv
<1>1. /\ pc[t] = "insert" /\ life[t] = "live" /\ t \in Threads
      /\ sock[t] \in Fds /\ descr[sock[t]] = t
  BY KnownFacts, ZenonT(30) DEF insert, FdInv, DescrInv
<1>2. ASSUME NEW i \in 1 .. Len(mQueue) PROVE ~IsAt(sock[t], i)
  <2>1. mQueue[i] \in Elements(mQueue)
    BY ZenonT(30) DEF Elements
  <2>2. descr[mQueue[i].socket_fd] = mQueue[i].socket_inst /\ pc[mQueue[i].socket_inst] # "insert"
    BY <2>1, KnownFacts, ZenonT(30) DEF FdInv, ItemInv
  <2> QED BY <1>1, <2>2, ZenonT(30) DEF IsAt
<1>3. pc' = [pc EXCEPT ![t] = "add"] /\ UNCHANGED <<life, sock, descr, interest, victim, _sock>>
  BY <1>2, ZenonT(30) DEF insert, objects, dtor, kernel
<1>4. \/ Len(mQueue) = Limit /\ mQueue' = mQueue
      \/ \E i \in 1 .. Len(mQueue) + 1 : mQueue' = InsertAt(mQueue, i, Item(sock[t], t))
  BY <1>2, ZenonT(30) DEF insert
<1>5. \/ Len(mQueue) = Limit /\ mQueue' = mQueue
      \/ Elements(mQueue') = Elements(mQueue) \cup {Item(sock[t], t)}
  <2>1. Item(sock[t], t) \in Items
    BY <1>1 DEF Item, Items
  <2> QED BY <1>0, <1>4, <2>1, ListChange, ZenonT(30)
<1>6. \A e \in Elements(mQueue') : e \in Elements(mQueue) \/ (e.socket_fd = sock[t] /\ e.socket_inst = t)
  <2>1. Item(sock[t], t).socket_fd = sock[t] /\ Item(sock[t], t).socket_inst = t
    BY DEF Item
  <2>2. CASE mQueue' = mQueue
    BY <2>2, ZenonT(30)
  <2>3. CASE Elements(mQueue') = Elements(mQueue) \cup {Item(sock[t], t)}
    BY <2>1, <2>3, ZenonT(30)
  <2> QED BY <1>5, <2>2, <2>3, ZenonT(30)
<1>7. \A y \in Threads : /\ pc'[y] \in Destroying <=> pc[y] \in Destroying
                         /\ pc'[y] \in {"remove", "del"} <=> pc[y] \in {"remove", "del"}
                         /\ pc'[y] \in {"del", "close"} <=> pc[y] \in {"del", "close"}
                         /\ pc'[y] \in {"insert", "add"} <=> pc[y] \in {"insert", "add"}
  <2>1. \A y \in Threads : y # t => pc'[y] = pc[y]
    BY <1>3, KnownFacts, ZenonT(30)
  <2>2. pc'[t] = "add"
    BY <1>1, <1>3, KnownFacts, ZenonT(30)
  <2> QED BY ZenonT(30), <1>1, <2>1, <2>2 DEF Destroying
<1>8. DescrInv'
  BY <1>3, <1>7, ZenonT(30) DEF FdInv, DescrInv
<1>9. EpollInv'
  BY <1>3, <1>7, KnownFacts, ZenonT(30) DEF FdInv, EpollInv
<1>10. ItemInv'
  <2>1. \A e \in Elements(mQueue') : descr'[e.socket_fd] = e.socket_inst
    BY <1>1, <1>3, <1>6, ZenonT(30) DEF FdInv, ItemInv
  <2>2. ASSUME NEW x \in Threads, pc'[x] \in {"del", "close"}, NEW e \in Elements(mQueue')
        PROVE  e.socket_fd # _sock'[x]
    <3>1. pc[x] \in {"del", "close"} /\ pc[x] \in Destroying /\ _sock'[x] = _sock[x]
      BY ZenonT(30), <1>3, <1>7, <2>2 DEF Destroying
    <3>2. descr[_sock[x]] = victim[x] /\ life[victim[x]] = "dying"
      BY <3>1, KnownFacts, ZenonT(30) DEF FdInv, DescrInv
    <3>3. _sock[x] # sock[t]
      BY ZenonT(30), <1>1, <3>2
    <3> QED BY <1>6, <3>1, <3>3, ZenonT(30) DEF FdInv, ItemInv
  <2> QED BY <2>1, <2>2, ZenonT(30) DEF ItemInv
<1> QED BY <1>3, <1>5, <1>8, <1>9, <1>10, ZenonT(30) DEF FdInv

LEMMA AddFds ==
    ASSUME Orderly, Known, FdInv, NEW t \in Trans, EpollAdd(t)
    PROVE  FdInv' /\ pc' = [pc EXCEPT ![t] = "created"]
<1>1. /\ pc[t] = "add" /\ life[t] = "live" /\ t \in Threads /\ ~AddMayFail
      /\ sock[t] \in Fds /\ descr[sock[t]] = t /\ sock[t] \notin interest /\ sock[t] # Closed /\ t # NoTrans
  BY SMT, SMTT(30), KnownFacts DEF EpollAdd, FdInv, DescrInv, EpollInv, Orderly
<1>2. /\ interest' = interest \cup {sock[t]} /\ pc' = [pc EXCEPT ![t] = "created"]
      /\ UNCHANGED <<life, sock, descr, mQueue, victim, _sock>>
  BY ZenonT(30), <1>1 DEF EpollAdd, objects, dtor
<1>3. /\ \A y \in Threads : y # t => pc'[y] = pc[y]
      /\ pc'[t] = "created"
  BY <1>1, <1>2, KnownFacts, ZenonT(30)
<1>4. \A y \in Threads : /\ pc'[y] \in Destroying <=> pc[y] \in Destroying
                         /\ pc'[y] \in {"remove", "del"} <=> pc[y] \in {"remove", "del"}
                         /\ pc'[y] \in {"del", "close"} <=> pc[y] \in {"del", "close"}
  BY ZenonT(30), <1>1, <1>3 DEF Destroying
<1>5. DescrInv'
  BY <1>2, <1>4, ZenonT(30) DEF FdInv, DescrInv
<1>6. ItemInv'
  BY <1>2, <1>4, ZenonT(30) DEF FdInv, ItemInv
<1>7. EpollInv'
  <2>1. \A x \in Threads : pc'[x] \in {"remove", "del"} => _sock'[x] \in interest'
    BY ZenonT(30), <1>2, <1>4 DEF FdInv, EpollInv
  <2>2. ASSUME NEW u \in Trans
        PROVE  /\ pc'[u] \in {"insert", "add"} => sock'[u] \notin interest'
               /\ life'[u] = "live" /\ pc'[u] \notin {"insert", "add"} => sock'[u] \in interest'
    <3>1. CASE u = t
      BY ZenonT(30), <1>2, <1>3, <3>1
    <3>2. CASE u # t
      <4>1. u \in Threads /\ pc'[u] = pc[u] /\ sock'[u] = sock[u] /\ life'[u] = life[u]
        BY <1>2, <1>3, <3>2, KnownFacts, ZenonT(30)
      <4>2. pc[u] \in {"insert", "add"} => sock[u] \notin interest /\ sock[u] # sock[t]
        <5>1. pc[u] \in {"insert", "add"} => life[u] = "live"
          BY ZenonT(30), KnownFacts
        <5>2. life[u] = "live" => descr[sock[u]] = u
          BY ZenonT(30) DEF FdInv, DescrInv
        <5> QED BY ZenonT(30), <1>1, <3>2, <5>1, <5>2 DEF FdInv, EpollInv
      <4>3. life[u] = "live" /\ pc[u] \notin {"insert", "add"} => sock[u] \in interest
        BY ZenonT(30) DEF FdInv, EpollInv
      <4> QED BY ZenonT(30), <1>2, <4>1, <4>2, <4>3
    <3> QED BY ZenonT(30), <3>1, <3>2
  <2>3. \A g \in interest' : descr'[g] # NoTrans
    BY ZenonT(30), <1>1, <1>2 DEF FdInv, EpollInv
  <2> QED BY <2>1, <2>2, <2>3, ZenonT(30) DEF EpollInv
<1> QED BY ZenonT(30), <1>2, <1>5, <1>6, <1>7 DEF FdInv

\* Two destructors hold different descriptors, and none that of a live transport.
LEMMA TakenApart ==
    ASSUME Known, FdInv, NEW x \in Threads, pc[x] \in Destroying
    PROVE  /\ _sock[x] \in Fds /\ victim[x] \in Trans /\ life[victim[x]] = "dying"
           /\ \A y \in Threads : y # x /\ pc[y] \in Destroying => _sock[y] # _sock[x] /\ victim[y] # victim[x]
           /\ \A t \in Trans : life[t] = "live" => sock[t] # _sock[x]
<1>1. /\ _sock[x] \in Fds /\ descr[_sock[x]] = victim[x] /\ victim[x] \in Trans /\ life[victim[x]] = "dying"
  BY KnownFacts, ZenonT(30) DEF FdInv, DescrInv
<1>2. ASSUME NEW y \in Threads, y # x, pc[y] \in Destroying PROVE _sock[y] # _sock[x] /\ victim[y] # victim[x]
  <2>1. descr[_sock[y]] = victim[y]
    BY <1>2, ZenonT(30) DEF FdInv, DescrInv
  <2>2. victim[y] # victim[x]
    BY <1>2, KnownFacts, ZenonT(30)
  <2> QED BY ZenonT(30), <1>1, <2>1, <2>2
<1>3. ASSUME NEW t \in Trans, life[t] = "live" PROVE sock[t] # _sock[x]
  <2>1. descr[sock[t]] = t
    BY <1>3, ZenonT(30) DEF FdInv, DescrInv
  <2> QED BY ZenonT(30), <1>1, <1>3, <2>1
<1> QED BY ZenonT(30), <1>1, <1>2, <1>3

LEMMA RemoveFds ==
    ASSUME Known, FdInv, NEW x \in Threads, remove(x)
    PROVE  /\ FdInv' /\ UNCHANGED <<life, sock>> /\ pc' = [pc EXCEPT ![x] = "del"]
           /\ \A e \in Elements(mQueue) : e.socket_fd # _sock[x] => e \in Elements(mQueue')
<1>0. mQueue \in Seq(Items) /\ QueueInv /\ pc[x] = "remove" /\ UNCHANGED <<descr, interest>>
  BY ZenonT(30) DEF Known, TypeInv, ListTypes, CoreInv, remove, kernel
<1>1. pc' = [pc EXCEPT ![x] = "del"] /\ UNCHANGED <<life, sock, victim, _sock>>
  <2>1. CASE UNCHANGED <<objects, sock, dtor>> /\ pc' = [pc EXCEPT ![x] = "del"]
    BY <2>1, ZenonT(30) DEF objects, dtor
  <2> QED BY <2>1, WeakPlain, ZenonT(30) DEF remove
<1>2. /\ \A e \in Elements(mQueue') : e \in Elements(mQueue) /\ e.socket_fd # _sock[x]
      /\ \A e \in Elements(mQueue) : e.socket_fd # _sock[x] => e \in Elements(mQueue')
  <2>1. CASE Missing(_sock[x]) /\ mQueue' = mQueue
    <3>1. \A e \in Elements(mQueue) : e.socket_fd # _sock[x]
      BY <1>0, <2>1, SearchFacts, ZenonT(30)
    <3> QED BY <2>1, <3>1, ZenonT(30)
  <2>2. ASSUME NEW i \in 1 .. Len(mQueue), IsAt(_sock[x], i), mQueue' = RemoveAt(mQueue, i)
        PROVE  <1>2!1 /\ <1>2!2
    <3>1. Elements(mQueue') = Elements(mQueue) \ {mQueue[i]}
      BY <1>0, <2>2, ListChange, ZenonT(30)
    <3>2. \A e \in Elements(mQueue) : e.socket_fd = _sock[x] => e = mQueue[i]
      BY <1>0, <2>2, SearchFacts, ZenonT(30)
    <3>3. mQueue[i].socket_fd = _sock[x]
      BY <2>2, ZenonT(30) DEF IsAt
    <3> QED BY <3>1, <3>2, <3>3, ZenonT(30)
  <2> QED BY <2>1, <2>2, ZenonT(30) DEF remove
<1>3. /\ \A y \in Threads : y # x => pc'[y] = pc[y]
      /\ pc'[x] = "del"
  BY <1>1, KnownFacts, ZenonT(30)
<1>4. /\ \A y \in Threads : /\ pc'[y] \in Destroying <=> pc[y] \in Destroying
                            /\ pc'[y] \in {"remove", "del"} <=> pc[y] \in {"remove", "del"}
                            /\ pc'[y] \in {"insert", "add"} <=> pc[y] \in {"insert", "add"}
  BY ZenonT(30), <1>0, <1>3 DEF Destroying
<1>5. DescrInv'
  BY <1>0, <1>1, <1>4, ZenonT(30) DEF FdInv, DescrInv
<1>6. EpollInv'
  BY <1>0, <1>1, <1>4, KnownFacts, ZenonT(30) DEF FdInv, EpollInv
<1>7. ItemInv'
  BY <1>0, <1>1, <1>2, <1>3, ZenonT(30) DEF FdInv, ItemInv
<1> QED BY ZenonT(30), <1>1, <1>2, <1>5, <1>6, <1>7 DEF FdInv

LEMMA DelFds ==
    ASSUME Known, FdInv, NEW x \in Threads, EpollDel(x)
    PROVE  FdInv' /\ UNCHANGED <<life, sock, mQueue>> /\ pc' = [pc EXCEPT ![x] = "close"]
<1>0. pc[x] = "del" /\ pc[x] \in Destroying /\ _sock[x] \in interest
  BY ZenonT(30) DEF EpollDel, FdInv, EpollInv, Destroying
<1>1. /\ interest' = interest \ {_sock[x]} /\ pc' = [pc EXCEPT ![x] = "close"]
      /\ UNCHANGED <<life, sock, descr, mQueue, victim, _sock>>
  BY <1>0, ZenonT(30) DEF EpollDel, dtor
<1>3. /\ \A y \in Threads : y # x => pc'[y] = pc[y]
      /\ pc'[x] = "close"
  BY <1>1, KnownFacts, ZenonT(30)
<1>4. /\ \A y \in Threads : /\ pc'[y] \in Destroying <=> pc[y] \in Destroying
                            /\ pc'[y] \in {"del", "close"} <=> pc[y] \in {"del", "close"}
                            /\ pc'[y] \in {"insert", "add"} <=> pc[y] \in {"insert", "add"}
  BY ZenonT(30), <1>0, <1>3 DEF Destroying
<1>5. DescrInv'
  BY <1>0, <1>1, <1>4, ZenonT(30) DEF FdInv, DescrInv
<1>6. EpollInv'
  <2>1. ASSUME NEW y \in Threads, pc'[y] \in {"remove", "del"} PROVE _sock'[y] \in interest'
    <3>1. y # x /\ pc[y] \in {"remove", "del"} /\ pc[y] \in Destroying
      BY ZenonT(30), <1>3, <2>1 DEF Destroying
    <3>2. _sock[y] # _sock[x]
      BY <1>0, <3>1, TakenApart, ZenonT(30)
    <3> QED BY <1>1, <3>1, <3>2, ZenonT(30) DEF FdInv, EpollInv
  <2>2. ASSUME NEW u \in Trans
        PROVE  /\ pc'[u] \in {"insert", "add"} => sock'[u] \notin interest'
               /\ life'[u] = "live" /\ pc'[u] \notin {"insert", "add"} => sock'[u] \in interest'
    <3>1. life[u] = "live" => sock[u] # _sock[x]
      BY <1>0, TakenApart, ZenonT(30)
    <3>2. u \in Threads
      BY KnownFacts
    <3> QED BY <1>1, <1>4, <3>1, <3>2, ZenonT(30) DEF FdInv, EpollInv
  <2>3. \A g \in interest' : descr'[g] # NoTrans
    BY <1>1, ZenonT(30) DEF FdInv, EpollInv
  <2> QED BY <2>1, <2>2, <2>3, ZenonT(30) DEF EpollInv
<1>7. ItemInv'
  BY <1>1, <1>4, ZenonT(30) DEF FdInv, ItemInv
<1> QED BY ZenonT(30), <1>1, <1>5, <1>6, <1>7 DEF FdInv

LEMMA CloseFds ==
    ASSUME Known, FdInv, NEW x \in Threads, Close(x)
    PROVE  /\ FdInv' /\ UNCHANGED <<sock, mQueue>> /\ pc' = [pc EXCEPT ![x] = After(x)]
           /\ \A t \in Trans : life'[t] = "live" => life[t] = "live"
<1>0. pc[x] = "close" /\ pc[x] \in Destroying
  BY ZenonT(30) DEF Close, Destroying
<1>1. /\ _sock[x] \in Fds /\ victim[x] \in Trans /\ life[victim[x]] = "dying"
      /\ \A y \in Threads : y # x /\ pc[y] \in Destroying => _sock[y] # _sock[x] /\ victim[y] # victim[x]
      /\ \A t \in Trans : life[t] = "live" => sock[t] # _sock[x]
  BY <1>0, TakenApart, ZenonT(30)
<1>2. /\ descr' = [descr EXCEPT ![_sock[x]] = NoTrans] /\ interest' = interest \ {_sock[x]}
      /\ life' = [life EXCEPT ![victim[x]] = "freed"] /\ pc' = [pc EXCEPT ![x] = After(x)]
      /\ victim' = [victim EXCEPT ![x] = NoTrans] /\ _sock' = [_sock EXCEPT ![x] = Closed]
      /\ UNCHANGED <<sock, mQueue>>
  BY ZenonT(30) DEF Close, CloseDescr
<1>3. /\ \A y \in Threads : y # x => pc'[y] = pc[y] /\ victim'[y] = victim[y] /\ _sock'[y] = _sock[y]
      /\ pc'[x] = After(x)
      /\ \A g \in Fds : g # _sock[x] => descr'[g] = descr[g]
      /\ descr'[_sock[x]] = NoTrans
      /\ \A t \in Trans : t # victim[x] => life'[t] = life[t]
      /\ life'[victim[x]] = "freed"
  BY <1>1, <1>2, KnownFacts, ZenonT(30)
<1>4. /\ After(x) \notin Destroying /\ After(x) \notin {"insert", "add"}
      /\ After(x) \notin {"remove", "del"} /\ After(x) \notin {"del", "close"}
  BY ZenonT(30) DEF After, Destroying
<1>5. DescrInv'
  <2>1. ASSUME NEW u \in Trans
        PROVE  IF life'[u] = "live" THEN sock'[u] \in Fds /\ descr'[sock'[u]] = u ELSE sock'[u] = Closed
    BY SMT, SMTT(30), <1>1, <1>2, <1>3 DEF FdInv, DescrInv
  <2>2. ASSUME NEW g \in Fds, descr'[g] # NoTrans
        PROVE  \/ life'[descr'[g]] = "live" /\ sock'[descr'[g]] = g
               \/ \E y \in Threads : pc'[y] \in Destroying /\ victim'[y] = descr'[g] /\ _sock'[y] = g
    <3>1. g # _sock[x] /\ descr'[g] = descr[g] /\ descr[g] \in Trans
      BY SMT, SMTT(30), <1>3, <2>2, KnownFacts
    <3>2. CASE life[descr[g]] = "live" /\ sock[descr[g]] = g
      <4>1. descr[g] # victim[x]
        BY ZenonT(30), <1>1, <3>2
      <4>2. life'[descr[g]] = life[descr[g]]
        BY <1>3, <3>1, <4>1, ZenonT(30)
      <4> QED BY <1>2, <3>1, <3>2, <4>2, ZenonT(30)
    <3>3. ASSUME NEW y \in Threads, pc[y] \in Destroying, victim[y] = descr[g], _sock[y] = g
          PROVE  pc'[y] \in Destroying /\ victim'[y] = descr'[g] /\ _sock'[y] = g
      BY <1>3, <3>1, <3>3, ZenonT(30)
    <3> QED BY <2>2, <3>1, <3>2, <3>3, ZenonT(30) DEF FdInv, DescrInv
  <2>3. ASSUME NEW y \in Threads, pc'[y] \in Destroying
        PROVE  _sock'[y] \in Fds /\ descr'[_sock'[y]] = victim'[y]
    <3>1. y # x /\ pc[y] \in Destroying
      BY <1>3, <1>4, <2>3, ZenonT(30)
    <3>2. _sock[y] \in Fds /\ descr[_sock[y]] = victim[y] /\ _sock[y] # _sock[x]
      BY <1>1, <3>1, ZenonT(30) DEF FdInv, DescrInv
    <3> QED BY ZenonT(30), <1>3, <3>1, <3>2
  <2> QED BY <2>1, <2>2, <2>3, ZenonT(30) DEF DescrInv
<1>6. EpollInv'
  <2>1. ASSUME NEW y \in Threads, pc'[y] \in {"remove", "del"} PROVE _sock'[y] \in interest'
    <3>1. y # x
      BY <1>3, <1>4, <2>1, ZenonT(30)
    <3>2. pc[y] \in {"remove", "del"} /\ pc[y] \in Destroying /\ _sock'[y] = _sock[y]
      BY ZenonT(30), <1>3, <2>1, <3>1 DEF Destroying
    <3>3. _sock[y] # _sock[x]
      BY <1>1, <3>1, <3>2, ZenonT(30)
    <3>4. _sock[y] \in interest
      BY <3>2, ZenonT(30) DEF FdInv, EpollInv
    <3> QED BY ONLY SMT, SMTT(30), <1>2, <3>2, <3>3, <3>4
  <2>2. ASSUME NEW u \in Trans
        PROVE  /\ pc'[u] \in {"insert", "add"} => sock'[u] \notin interest'
               /\ life'[u] = "live" /\ pc'[u] \notin {"insert", "add"} => sock'[u] \in interest'
    <3>1. u \in Threads /\ (life'[u] = "live" => life[u] = "live" /\ sock[u] # _sock[x])
      BY SMT, SMTT(30), <1>1, <1>3, KnownFacts
    <3>2. pc'[u] \in {"insert", "add"} => pc[u] \in {"insert", "add"}
      BY <1>3, <1>4, <3>1, ZenonT(30)
    <3>3. pc[u] \in {"insert", "add"} => pc'[u] \in {"insert", "add"}
      BY <1>0, <1>3, <3>1, ZenonT(30)
    <3> QED BY <1>2, <3>1, <3>2, <3>3, ZenonT(30) DEF FdInv, EpollInv
  <2>3. \A g \in interest' : descr'[g] # NoTrans
    BY SMT, SMTT(30), <1>2, <1>3, KnownFacts DEF FdInv, EpollInv
  <2> QED BY <2>1, <2>2, <2>3, ZenonT(30) DEF EpollInv
<1>7. ItemInv'
  <2>1. \A e \in Elements(mQueue) : e.socket_fd # _sock[x] /\ e.socket_fd \in Fds
    BY <1>0, KnownFacts, ZenonT(30) DEF FdInv, ItemInv
  <2>2. \A e \in Elements(mQueue') : descr'[e.socket_fd] = e.socket_inst
    BY SMT, SMTT(30), <1>2, <1>3, <2>1 DEF FdInv, ItemInv
  <2>3. ASSUME NEW y \in Threads, pc'[y] \in {"del", "close"}
        PROVE  \A e \in Elements(mQueue') : e.socket_fd # _sock'[y]
    <3>1. y # x
      BY <1>3, <1>4, <2>3, ZenonT(30)
    <3>2. pc[y] \in {"del", "close"} /\ _sock'[y] = _sock[y] /\ mQueue' = mQueue
      BY <1>2, <1>3, <2>3, <3>1, ZenonT(30)
    <3>3. \A e \in Elements(mQueue) : e.socket_fd # _sock[y]
      BY <3>2, ZenonT(30) DEF FdInv, ItemInv
    <3> QED BY <3>2, <3>3, ZenonT(30)
  <2> QED BY <2>2, <2>3, ZenonT(30) DEF ItemInv
<1>8. \A t \in Trans : life'[t] = "live" => life[t] = "live"
  BY ZenonT(30), <1>3
<1> QED BY ZenonT(30), <1>2, <1>5, <1>6, <1>7, <1>8 DEF FdInv

\* The part of OwnInv about references.
HeldInv ==
    \A t \in Trans : /\ pc[t] \in {"insert", "add", "created", "owned"} => "owner" \in refs[t]
                     /\ life[t] = "live" => refs[t] # {}

LEMMA DropKind ==
    ASSUME Known, FdInv, NEW x \in Threads, NEW t \in Trans, NEW r \in {"owner", "trans"},
           NEW next \in {"gone", "wait"}, decStrong(x, t, r, next), pc[x] \notin Active, refs[t] # {},
           r = "owner" => x = t, UNCHANGED <<descr, interest, mQueue>>
    PROVE  (PlainStep(x, next) \/ TakeStep(x, t)) /\ HeldInv'
<1>1. /\ \A u \in Trans : u # t => refs'[u] = refs[u]
      /\ refs'[t] = refs[t] \ {r}
  BY KnownFacts, ZenonT(30) DEF decStrong
<1>2. next \notin Active /\ next \notin {"insert", "add", "created", "owned"}
  BY ZenonT(30) DEF Active, Destroying
<1>3. life[t] = "live" /\ sock[t] # Closed
  <2>1. life[t] = "live"
    BY ZenonT(30) DEF Known, CoreInv, LifeInv, ObjectInv
  <2> QED BY SMT, SMTT(30), <2>1, KnownFacts DEF FdInv, DescrInv
<1>4. HeldInv
  BY ZenonT(30) DEF Known, OwnInv, HeldInv
<1>5. CASE refs[t] # {r}
  <2>1. pc' = [pc EXCEPT ![x] = next] /\ UNCHANGED <<life, sock, victim, _sock>>
    BY <1>5, ZenonT(30) DEF decStrong, dtor
  <2>2. PlainStep(x, next)
    BY <1>2, <2>1, ZenonT(30) DEF PlainStep
  <2>3. refs'[t] # {}
    BY ZenonT(30), <1>1, <1>5
  <2>4. ASSUME NEW u \in Trans, pc'[u] \in {"insert", "add", "created", "owned"} PROVE "owner" \in refs'[u]
    <3>1. u # x /\ pc'[u] = pc[u]
      BY <1>2, <2>1, <2>4, KnownFacts, ZenonT(30)
    <3>2. "owner" \in refs[u]
      BY <1>4, <2>4, <3>1, ZenonT(30) DEF HeldInv
    <3> QED BY <1>1, <3>1, <3>2, ZenonT(30)
  <2>5. \A u \in Trans : life'[u] = "live" => refs'[u] # {}
    BY ZenonT(30), <1>1, <1>4, <2>1, <2>3 DEF HeldInv
  <2> QED BY <2>2, <2>4, <2>5, ZenonT(30) DEF HeldInv
<1>6. CASE refs[t] = {r}
  <2>1. pc' = [pc EXCEPT ![x] = "remove"] /\ EnterDtor(x, t)
    BY <1>3, <1>6, ZenonT(30) DEF decStrong
  <2>2. pc[t] \notin {"insert", "add"}
    <3>1. CASE r = "owner"
      BY ZenonT(30), <3>1 DEF Active
    <3>2. CASE r = "trans"
      BY ZenonT(30), <1>4, <1>6, <3>2 DEF HeldInv
    <3> QED BY ZenonT(30), <3>1, <3>2
  <2>3. TakeStep(x, t)
    BY <1>3, <2>1, <2>2, ZenonT(30) DEF TakeStep, EnterDtor
  <2>4. ASSUME NEW u \in Trans, pc'[u] \in {"insert", "add", "created", "owned"} PROVE "owner" \in refs'[u]
    <3>1. u # x /\ pc'[u] = pc[u]
      BY <2>1, <2>4, KnownFacts, ZenonT(30)
    <3>2. "owner" \in refs[u]
      BY <1>4, <2>4, <3>1, ZenonT(30) DEF HeldInv
    <3> QED BY <1>1, <3>1, <3>2, ZenonT(30)
  <2>5. ASSUME NEW u \in Trans, life'[u] = "live" PROVE refs'[u] # {}
    <3>1. u # t /\ life[u] = "live"
      BY <2>1, <2>5, KnownFacts, ZenonT(30) DEF EnterDtor
    <3> QED BY ZenonT(30), <1>1, <1>4, <3>1 DEF HeldInv
  <2> QED BY <2>3, <2>4, <2>5, ZenonT(30) DEF HeldInv
<1> QED BY <1>5, <1>6

\* The poller's _trans changes.
LEMMA AssignKind ==
    ASSUME Known, FdInv, FetchAssign
    PROVE  (PlainStep(Poller, "handle") \/ (trans \in Trans /\ TakeStep(Poller, trans))) /\ HeldInv'
<1> DEFINE taken == [refs EXCEPT ![found] = (refs[found] \ {"temp"}) \cup {"trans"}]
           last == trans \notin {NoTrans, found} /\ refs[trans] = {"trans"}
<1>0. /\ Poller \in Threads /\ pc[Poller] = "check" /\ pc[Poller] \notin Active /\ "handle" \notin Active
      /\ UNCHANGED <<descr, interest, mQueue>>
  BY ZenonT(30), KnownFacts DEF FetchAssign, Active, Destroying, kernel
<1>1. found \in Trans /\ trans \in Trans \cup {NoTrans} /\ HeldInv
  BY <1>0, ZenonT(30) DEF Known, CoreInv, LifeInv, LifeTypes, PointerInv, OwnInv, HeldInv
<1>2. /\ taken[found] = (refs[found] \ {"temp"}) \cup {"trans"}
      /\ \A u \in Trans : u # found => taken[u] = refs[u]
      /\ taken \in [Trans -> SUBSET Holders]
  BY ZenonT(30), <1>1, KnownFacts DEF Holders
<1>3. CASE ~last
  <2>1. /\ refs' = [t \in Trans |-> IF t = trans /\ t # found THEN taken[t] \ {"trans"} ELSE taken[t]]
        /\ pc' = [pc EXCEPT ![Poller] = "handle"] /\ UNCHANGED <<life, sock, victim, _sock>>
    BY <1>3, ZenonT(30) DEF FetchAssign, dtor
  <2>2. PlainStep(Poller, "handle")
    BY <1>0, <2>1, ZenonT(30) DEF PlainStep
  <2>3. ASSUME NEW u \in Trans
        PROVE  ("owner" \in refs[u] => "owner" \in refs'[u]) /\ (refs[u] # {} => refs'[u] # {})
    <3>1. CASE u = found
      <4>1. refs'[u] = (refs[found] \ {"temp"}) \cup {"trans"}
        BY <1>2, <2>1, <3>1, ZenonT(30)
      <4> QED BY ZenonT(30), <3>1, <4>1
    <3>2. CASE u # found /\ u = trans
      <4>1. refs'[u] = refs[u] \ {"trans"}
        BY <1>2, <2>1, <3>2, ZenonT(30)
      <4>2. refs[u] # {"trans"}
        BY <1>1, <1>3, <3>2, KnownFacts, ZenonT(30)
      <4> QED BY ZenonT(30), <4>1, <4>2
    <3>3. CASE u # found /\ u # trans
      <4>1. refs'[u] = refs[u]
        BY <1>2, <2>1, <3>3, ZenonT(30)
      <4> QED BY <4>1, ZenonT(30)
    <3> QED BY ZenonT(30), <3>1, <3>2, <3>3
  <2>4. \A u \in Trans : pc'[u] = pc[u] /\ life'[u] = life[u]
    BY <2>1, KnownFacts, ZenonT(30)
  <2>5. HeldInv'
    BY <1>1, <2>3, <2>4, ZenonT(30) DEF HeldInv
  <2> QED BY <2>2, <2>5
<1>4. CASE last
  <2>1. trans \in Trans /\ trans # found /\ refs[trans] = {"trans"}
    BY <1>1, <1>4, ZenonT(30)
  <2>2. life[trans] = "live" /\ pc[trans] \notin {"insert", "add", "created", "owned"}
    <3>1. refs[trans] # {} /\ "owner" \notin refs[trans]
      BY ZenonT(30), <2>1
    <3> QED BY <1>1, <2>1, <3>1, ZenonT(30) DEF Known, CoreInv, LifeInv, ObjectInv, HeldInv
  <2>3. sock[trans] # Closed
    BY SMT, SMTT(30), <2>1, <2>2, KnownFacts DEF FdInv, DescrInv
  <2>4. pc' = [pc EXCEPT ![Poller] = "remove"] /\ EnterDtor(Poller, trans) /\ refs' = [taken EXCEPT ![trans] = {}]
    BY <1>4, <2>3, ZenonT(30) DEF FetchAssign
  <2>5. TakeStep(Poller, trans)
    BY <1>0, <2>2, <2>4, ZenonT(30) DEF TakeStep, EnterDtor
  <2>6. ASSUME NEW u \in Trans, u # trans
        PROVE  ("owner" \in refs[u] => "owner" \in refs'[u]) /\ (refs[u] # {} => refs'[u] # {})
    <3>0. refs'[u] = taken[u]
      BY <1>2, <2>4, <2>6, ZenonT(30)
    <3>1. CASE u = found
      BY ZenonT(30), <1>2, <3>0, <3>1
    <3>2. CASE u # found
      BY <1>2, <3>0, <3>2, ZenonT(30)
    <3> QED BY <3>1, <3>2
  <2>7. \A u \in Trans : /\ pc'[u] = pc[u]
                         /\ life'[u] = "live" => u # trans /\ life[u] = "live"
    BY <2>1, <2>4, KnownFacts, ZenonT(30) DEF EnterDtor
  <2>8. HeldInv'
    BY <1>1, <2>2, <2>6, <2>7, ZenonT(30) DEF HeldInv
  <2> QED BY ZenonT(30), <2>1, <2>5, <2>8
<1> QED BY ZenonT(30), <1>3, <1>4

\* Between attemptIncStrong and the comparison with sock, what fetch has found is
\* the transport of the event's descriptor, so that no item is ever stale.
CheckInv == pc[Poller] = "check" => sock[found] = events[1].fd

LEMMA FetchKind ==
    ASSUME Known, FdInv, fetch
    PROVE  /\ \E p : PlainStep(Poller, p)
           /\ HeldInv' /\ CheckInv'
           /\ \A e \in Elements(mQueue) : life[e.socket_inst] = "live" => e \in Elements(mQueue')
<1>0. /\ Poller \in Threads /\ pc[Poller] = "fetch" /\ "fetch" \notin Active /\ "check" \notin Active
      /\ UNCHANGED <<life, sock, descr, interest, victim, _sock>>
  BY ZenonT(30), KnownFacts DEF fetch, Active, Destroying, kernel, dtor
<1>q. mQueue \in Seq(Items) /\ QueueInv /\ HeldInv
  BY ZenonT(30) DEF Known, TypeInv, ListTypes, CoreInv, OwnInv, HeldInv
<1>1. CASE /\ pc' = pc /\ refs' = refs
           /\ \/ mQueue' = mQueue
              \/ \E i \in 1 .. Len(mQueue) : /\ mQueue' = RemoveAt(mQueue, i)
                                             /\ refs[mQueue[i].socket_inst] = {}
  <2>1. /\ Elements(mQueue') \subseteq Elements(mQueue)
        /\ \A e \in Elements(mQueue) : life[e.socket_inst] = "live" => e \in Elements(mQueue')
    <3>1. CASE mQueue' = mQueue
      BY <3>1, ZenonT(30)
    <3>2. ASSUME NEW i \in 1 .. Len(mQueue), mQueue' = RemoveAt(mQueue, i), refs[mQueue[i].socket_inst] = {}
          PROVE  <2>1
      <4>1. Elements(mQueue') = Elements(mQueue) \ {mQueue[i]} /\ mQueue[i] \in Elements(mQueue)
        BY <1>q, <3>2, ListChange, ZenonT(30)
      <4>2. mQueue[i].socket_inst \in Trans
        BY <4>1, KnownFacts
      <4>3. life[mQueue[i].socket_inst] # "live"
        BY <1>q, <3>2, <4>2, ZenonT(30) DEF HeldInv
      <4> QED BY <4>1, <4>3, ZenonT(30)
    <3> QED BY <1>1, <3>1, <3>2, ZenonT(30)
  <2>2. pc' = [pc EXCEPT ![Poller] = "fetch"]
    BY ZenonT(30), <1>0, <1>1, KnownFacts
  <2>3. PlainStep(Poller, "fetch")
    BY <1>0, <2>1, <2>2, ZenonT(30) DEF PlainStep
  <2>4. CheckInv'
    BY <1>0, <1>1, ZenonT(30) DEF CheckInv
  <2>5. HeldInv'
    BY <1>0, <1>1, <1>q, ZenonT(30) DEF HeldInv
  <2> QED BY ZenonT(30), <2>1, <2>3, <2>4, <2>5
<1>2. ASSUME NEW i \in 1 .. Len(mQueue), IsAt(events[1].fd, i),
             refs[mQueue[i].socket_inst] # {} \/ initial[mQueue[i].socket_inst],
             refs' = [refs EXCEPT ![mQueue[i].socket_inst] = @ \cup {"temp"}],
             found' = mQueue[i].socket_inst, pc' = [pc EXCEPT ![Poller] = "check"],
             UNCHANGED <<mQueue, events>>
      PROVE  /\ \E p : PlainStep(Poller, p)
             /\ HeldInv' /\ CheckInv'
             /\ \A e \in Elements(mQueue) : life[e.socket_inst] = "live" => e \in Elements(mQueue')
  <2>1. PlainStep(Poller, "check")
    BY <1>0, <1>2, ZenonT(30) DEF PlainStep
  <2> DEFINE t == mQueue[i].socket_inst
             f == mQueue[i].socket_fd
  <2>2. t \in Trans /\ f \in Fds /\ descr[f] = t /\ life[t] # "none"
    <3>1. mQueue[i] \in Elements(mQueue)
      BY ZenonT(30) DEF Elements
    <3> QED BY <3>1, KnownFacts, ZenonT(30) DEF FdInv, ItemInv
  <2>3. f = events[1].fd
    BY <1>2, ZenonT(30) DEF IsAt
  <2>4. refs[t] # {} \/ initial[t]
    BY ZenonT(30), <1>2
  <2>5. refs' = [refs EXCEPT ![t] = refs[t] \cup {"temp"}] /\ found' = t
    BY <1>2
  <2> HIDE DEF t, f
  <2>6. life[t] = "live"
    BY <2>2, <2>4, ZenonT(30) DEF Known, CoreInv, LifeInv, ObjectInv
  <2>7. sock[t] = f
    <3>1. t # NoTrans /\ \A x \in Threads : pc[x] \in Destroying => life[victim[x]] = "dying"
      BY <2>2, KnownFacts, ZenonT(30)
    <3> QED BY ZenonT(30), <2>2, <2>6, <3>1 DEF FdInv, DescrInv
  <2>8. CheckInv'
    BY <1>0, <1>2, <2>3, <2>5, <2>7, ZenonT(30) DEF CheckInv
  <2>9. HeldInv'
    <3>1. \A u \in Trans : pc'[u] = pc[u] /\ life'[u] = life[u]
      BY <1>0, <1>2, KnownFacts, ZenonT(30)
    <3>2. \A u \in Trans : ("owner" \in refs[u] => "owner" \in refs'[u]) /\ (refs[u] # {} => refs'[u] # {})
      BY ZenonT(30), <2>2, <2>5, KnownFacts
    <3> QED BY <1>q, <3>1, <3>2, ZenonT(30) DEF HeldInv
  <2> QED BY <1>2, <2>1, <2>8, <2>9, ZenonT(30)
<1> QED BY <1>1, <1>2, ZenonT(30) DEF fetch

\* The events are without hang-ups, and the handlers of the failures and of the
\* passive close are not reached.
LEMMA QuietNext ==
    ASSUME Orderly, Known, FdInv, CheckInv, [Next]_vars
    PROVE  /\ \A t \in Trans : pc'[t] # "failed"
           /\ pc'[Poller] \notin {"hupRemove", "hupDone", "new", "insert", "add"}
           /\ \A i \in 1 .. Len(events') : ~events'[i].hup
<1> DEFINE Bad == {"failed", "hupRemove", "hupDone", "new", "insert", "add"}
<1>0. /\ events \in Seq(Events) /\ pc \in [Threads -> Places] /\ Trans \subseteq Threads /\ Poller \in Threads
      /\ Poller \notin Trans /\ ~PassiveClose
      /\ \A t \in Trans : pc[t] # "failed" /\ pc[t] # "delete"
      /\ pc[Poller] \notin {"hupRemove", "hupDone", "new", "insert", "add"}
      /\ \A i \in 1 .. Len(events) : ~events[i].hup
  BY KnownFacts, ZenonT(30) DEF Known, TypeInv, ListTypes, OwnInv, Orderly, CoreInv, LifeInv, ObjectInv
<1>1. \A i \in 1 .. Len(events') : ~events'[i].hup
  <2>1. CASE events' = events
    BY <1>0, <2>1, ZenonT(30)
  <2>2. CASE events' = Tail(events)
    <3>1. CASE events # <<>>
      <4>1. \A i \in 1 .. Len(events') : i + 1 \in 1 .. Len(events) /\ events'[i] = events[i + 1]
        BY ONLY SMT, SMTT(30), <1>0, <2>2, <3>1
      <4> QED BY <1>0, <4>1, ZenonT(30)
    <3>2. CASE events = <<>>
      <4>1. ~(fetch \/ FetchStale \/ HandleRead \/ HupDone)
        BY <1>0, <3>2, ZenonT(30) DEF Known, TypeInv, BatchInv, fetch, FetchStale, HandleRead, HupDone
      <4>2. events' = events \/ epoll_wait
        BY <4>1, ZenonT(30) DEF Next, Owner, Create, insert, EpollAdd, InitFailed, DeleteSelf, Own, Release,
                           CloseTransport, remove, EpollDel, Close, threadLoop, FetchAssign, HupClose,
                           HupRemove, EndBatch, poller, vars
      <4>3. CASE epoll_wait
        BY SMT, SMTT(30), <1>0, <4>3 DEF epoll_wait
      <4> QED BY <2>1, <4>2, <4>3
    <3> QED BY <3>1, <3>2
  <2>3. CASE epoll_wait
    <3>1. PICK n \in 1 .. MaxEvents : \E e \in [1 .. n -> Events] :
              (\A i \in 1 .. n : e[i].hup => PassiveClose) /\ events' = e
      BY <2>3, ZenonT(30) DEF epoll_wait
    <3>2. n \in Nat /\ events' \in [1 .. n -> Events] /\ \A i \in 1 .. n : events'[i].hup => PassiveClose
      BY SMT, SMTT(30), <3>1, CoreAssumption
    <3>3. Len(events') = n
      BY ONLY SMT, SMTT(30), <3>2
    <3> QED BY <1>0, <3>2, <3>3, ZenonT(30)
  <2> QED BY <2>1, <2>2, <2>3, ZenonT(30) DEF Next, Owner, Create, insert, EpollAdd, InitFailed, DeleteSelf,
             Own, Release, CloseTransport, remove, EpollDel, Close, threadLoop, fetch, FetchStale,
             FetchAssign, HandleRead, HupClose, HupRemove, HupDone, EndBatch, poller, vars
<1>2. ASSUME NEW t \in Trans, Owner(t) PROVE \E p : p # "failed" /\ pc' = [pc EXCEPT ![t] = p]
  <2>1. CASE EpollAdd(t)
    BY <2>1, AddFds, ZenonT(30)
  <2>2. CASE InitFailed(t) \/ DeleteSelf(t)
    BY <1>0, <2>2, ZenonT(30) DEF InitFailed, DeleteSelf
  <2> QED BY <1>2, <2>1, <2>2, ZenonT(30) DEF Owner, Create, insert, Own, Release, decStrong, decWeak
<1>3. ASSUME NEW x \in Threads, CloseTransport(x) PROVE \E p : p \notin Bad /\ pc' = [pc EXCEPT ![x] = p]
  <2>1. After(x) \notin Bad
    BY DEF After
  <2> QED BY <1>3, <2>1, ZenonT(30) DEF CloseTransport, remove, EpollDel, Close, decWeak
<1>4. CASE threadLoop
  <2>1. ~HupClose
    <3>1. ASSUME HupClose PROVE FALSE
      <4>1. pc[Poller] = "handle" /\ events[1].hup
        BY <3>1, ZenonT(30) DEF HupClose
      <4>2. events # <<>>
        BY <4>1, ZenonT(30) DEF Known, TypeInv, BatchInv
      <4>3. 1 \in 1 .. Len(events)
        BY SMT, SMTT(30), <1>0, <4>2
      <4> QED BY <1>0, <4>1, <4>3, ZenonT(30)
    <3> QED BY <3>1
  <2>2. ~HupRemove /\ ~HupDone
    BY <1>0, ZenonT(30) DEF HupRemove, HupDone
  <2>3. pc' = pc \/ \E p : p \notin Bad /\ pc' = [pc EXCEPT ![Poller] = p]
    BY <1>4, <2>1, <2>2, ZenonT(30) DEF threadLoop, epoll_wait, fetch, FetchStale, FetchAssign, HandleRead,
                                   EndBatch, decStrong
  <2> QED BY <1>0, <1>1, <2>3, ZenonT(30)
<1>5. CASE UNCHANGED vars
  BY <1>0, <1>1, <1>5, ZenonT(30) DEF vars
<1> QED BY <1>0, <1>1, <1>2, <1>3, <1>4, <1>5, ZenonT(30) DEF Next

\* The list has an item of every live transport that has been through insert,
\* if insert was never refused for want of room.
SockListed == \A t \in Trans : life[t] = "live" /\ pc[t] # "insert" => Item(sock[t], t) \in Elements(mQueue)
Room == \A t \in Trans : pc[t] = "insert" => Len(mQueue) # Limit

LEMMA PlainListed ==
    ASSUME Known, FdInv, SockListed, NEW x \in Threads, NEW p, PlainStep(x, p),
           \A e \in Elements(mQueue) : life[e.socket_inst] = "live" => e \in Elements(mQueue')
    PROVE  SockListed'
<1>1. /\ UNCHANGED <<life, sock>>
      /\ \A u \in Trans : pc'[u] # "insert" => pc[u] # "insert"
  <2>1. UNCHANGED <<life, sock>> /\ pc[x] # "insert"
    BY ZenonT(30) DEF PlainStep, Active
  <2> QED BY <2>1, KnownFacts, ZenonT(30) DEF PlainStep
<1>2. \A u \in Trans : Item(sock[u], u).socket_inst = u
  BY DEF Item
<1> QED BY <1>1, <1>2, ZenonT(30) DEF SockListed

LEMMA TakeListed ==
    ASSUME Known, FdInv, SockListed, NEW x \in Threads, NEW t \in Trans, TakeStep(x, t)
    PROVE  SockListed'
<1>1. pc[x] # "insert" /\ mQueue' = mQueue
  BY ZenonT(30) DEF TakeStep, Active
<1>2. ASSUME NEW u \in Trans, life'[u] = "live", pc'[u] # "insert"
      PROVE  life[u] = "live" /\ sock'[u] = sock[u] /\ pc[u] # "insert"
  <2>1. u # t
    BY <1>2, KnownFacts, ZenonT(30) DEF TakeStep
  <2> QED BY <1>1, <1>2, <2>1, KnownFacts, ZenonT(30) DEF TakeStep
<1> QED BY <1>1, <1>2, ZenonT(30) DEF SockListed

\* A thread's step that leaves the found transport's sock alone keeps CheckInv;
\* a destructor is never begun on the transport that fetch has found.
LEMMA OtherCheck ==
    ASSUME Known, CoreInv', CheckInv, UNCHANGED <<events, found>>,
           pc'[Poller] = "check" => pc[Poller] = "check",
           \/ sock' = sock
           \/ \E t \in Trans : sock' = [sock EXCEPT ![t] = Closed] /\ life'[t] # "live"
           \/ \E t \in Trans : \E f : sock' = [sock EXCEPT ![t] = f] /\ life[t] = "none"
    PROVE  CheckInv'
<1> SUFFICES ASSUME pc'[Poller] = "check" PROVE sock'[found'] = events'[1].fd
  BY ZenonT(30) DEF CheckInv
<1>1. pc[Poller] = "check" /\ found' = found /\ sock[found] = events[1].fd
  BY ZenonT(30) DEF CheckInv
<1>2. found \in Trans /\ life[found] = "live" /\ life'[found] = "live"
  <2>1. found # NoTrans /\ found \in Trans /\ "temp" \in refs[found]
    BY <1>1, ZenonT(30) DEF Known, CoreInv, LifeInv, PointerInv, LifeTypes
  <2>2. found' # NoTrans /\ "temp" \in refs'[found']
    BY <1>1, <2>1, ZenonT(30) DEF CoreInv, LifeInv, PointerInv
  <2>3. refs[found] # {} /\ refs'[found] # {}
    BY ZenonT(30), <1>1, <2>1, <2>2
  <2> QED BY <2>1, <2>3, ZenonT(30) DEF Known, CoreInv, LifeInv, ObjectInv
<1>3. sock'[found] = sock[found]
  <2>1. CASE sock' = sock
    BY <2>1
  <2>2. ASSUME NEW t \in Trans, NEW f, sock' = [sock EXCEPT ![t] = f], t # found
        PROVE  sock'[found] = sock[found]
    BY <1>2, <2>2, KnownFacts, ZenonT(30)
  <2>3. "none" # "live"
    OBVIOUS
  <2> QED BY <1>2, <2>1, <2>2, <2>3, ZenonT(30)
<1> QED BY <1>1, <1>3, ZenonT(30)

LEMMA OwnerFds ==
    ASSUME Orderly, Known, CoreInv', FdInv, CheckInv, NEW t \in Trans, Owner(t)
    PROVE  FdInv' /\ HeldInv' /\ CheckInv' /\ (SockListed /\ Room => SockListed')
<1>0. /\ t \in Threads /\ HeldInv /\ t \notin RawCreated /\ Poller \in Threads /\ Poller # t
      /\ UNCHANGED <<events, found>>
  <2>1. UNCHANGED <<events, found>>
    BY ZenonT(30) DEF Owner, Create, insert, EpollAdd, InitFailed, DeleteSelf, Own, Release, poller
  <2> QED BY <2>1, KnownFacts, ZenonT(30) DEF Known, OwnInv, HeldInv, Orderly
<1>p. pc'[Poller] = pc[Poller]
  <2>1. \E p : pc' = [pc EXCEPT ![t] = p]
    BY ZenonT(30)
      DEF Owner, Create, insert, EpollAdd, InitFailed, DeleteSelf, Own, Release, decStrong, decWeak
  <2> QED BY ONLY SMT, SMTT(30), <1>0, <2>1, KnownFacts
<1>1. CASE Create(t)
  <2>1. FdInv'
    BY <1>1, CreateFds
  <2>2. PICK f : /\ sock' = [sock EXCEPT ![t] = f] /\ life' = [life EXCEPT ![t] = "live"]
                 /\ refs' = [refs EXCEPT ![t] = {"owner"}] /\ pc' = [pc EXCEPT ![t] = "insert"]
                 /\ pc[t] = "new" /\ mQueue' = mQueue
    BY <1>0, <1>1, ZenonT(30) DEF Create
  <2>3. /\ \A u \in Trans : u # t => sock'[u] = sock[u] /\ life'[u] = life[u] /\ refs'[u] = refs[u] /\ pc'[u] = pc[u]
        /\ refs'[t] = {"owner"} /\ pc'[t] = "insert" /\ life[t] = "none"
    BY <2>2, KnownFacts, ZenonT(30)
  <2>4. HeldInv'
    BY ZenonT(30), <1>0, <2>3 DEF HeldInv
  <2>5. SockListed => SockListed'
    BY <2>2, <2>3, ZenonT(30) DEF SockListed
  <2>6. CheckInv'
    BY <1>0, <1>p, <2>2, <2>3, OtherCheck, ZenonT(30)
  <2> QED BY ZenonT(30), <2>1, <2>4, <2>5, <2>6
<1>2. CASE insert(t)
  <2>1. /\ FdInv' /\ UNCHANGED life /\ pc' = [pc EXCEPT ![t] = "add"]
        /\ \/ Len(mQueue) = Limit
           \/ Elements(mQueue') = Elements(mQueue) \cup {Item(sock[t], t)} /\ UNCHANGED sock
    BY <1>2, InsertFds
  <2>2. pc[t] = "insert" /\ life[t] = "live" /\ refs' = refs
    BY <1>2, ZenonT(30) DEF insert, objects
  <2>3. sock' = sock
    <3>1. \A i \in 1 .. Len(mQueue) : decWeak(t, mQueue[i].socket_inst, "add") => sock' = sock
      BY <1>0, WeakPlain, ZenonT(30)
    <3> QED BY <1>2, <3>1, ZenonT(30) DEF insert
  <2>4. HeldInv'
    BY <1>0, <2>1, <2>2, KnownFacts, ZenonT(30) DEF HeldInv
  <2>5. SockListed /\ Room => SockListed'
    <3> SUFFICES ASSUME SockListed, Room PROVE SockListed'
      OBVIOUS
    <3>1. Elements(mQueue') = Elements(mQueue) \cup {Item(sock[t], t)}
      BY <2>1, <2>2, ZenonT(30) DEF Room
    <3>2. \A u \in Trans : u # t => pc'[u] = pc[u]
      BY <2>1, KnownFacts, ZenonT(30)
    <3> QED BY <2>1, <2>3, <3>1, <3>2, ZenonT(30) DEF SockListed
  <2>6. CheckInv'
    BY <1>0, <1>p, <2>3, OtherCheck, ZenonT(30)
  <2> QED BY ZenonT(30), <2>1, <2>4, <2>5, <2>6
<1>3. CASE EpollAdd(t)
  <2>1. FdInv' /\ pc' = [pc EXCEPT ![t] = "created"]
    BY <1>3, AddFds
  <2>2. UNCHANGED <<life, refs, sock, mQueue>> /\ pc[t] = "add"
    BY <1>3, ZenonT(30) DEF EpollAdd, objects
  <2>3. HeldInv'
    BY <1>0, <2>1, <2>2, KnownFacts, ZenonT(30) DEF HeldInv
  <2>4. SockListed => SockListed'
    BY <2>1, <2>2, KnownFacts, ZenonT(30) DEF SockListed
  <2>5. CheckInv'
    BY <1>0, <1>p, <2>2, OtherCheck, ZenonT(30)
  <2> QED BY ZenonT(30), <2>1, <2>3, <2>4, <2>5
<1>4. CASE Own(t)
  <2>1. /\ UNCHANGED <<life, sock, descr, interest, victim, _sock, mQueue>> /\ pc[t] = "created"
        /\ pc' = [pc EXCEPT ![t] = "owned"] /\ refs' = [refs EXCEPT ![t] = refs[t] \cup {"owner"}]
    BY <1>4, ZenonT(30) DEF Own, kernel, dtor
  <2>2. PlainStep(t, "owned")
    BY ZenonT(30), <2>1 DEF PlainStep, Active, Destroying
  <2>3. \A u \in Trans : /\ u # t => pc'[u] = pc[u] /\ refs'[u] = refs[u]
                         /\ life'[u] = life[u]
    BY <2>1, KnownFacts, ZenonT(30)
  <2>4. "owner" \in refs'[t] /\ refs'[t] # {}
    BY ZenonT(30), <2>1, KnownFacts
  <2>5. HeldInv'
    BY ZenonT(30), <1>0, <2>3, <2>4 DEF HeldInv
  <2>6. SockListed => SockListed'
    BY <1>0, <2>1, <2>2, PlainListed, ZenonT(30)
  <2>7. CheckInv'
    BY <1>0, <1>p, <2>1, OtherCheck, ZenonT(30)
  <2> QED BY ZenonT(30), <1>0, <2>2, <2>5, <2>6, <2>7, PlainFds
<1>5. CASE Release(t)
  <2>1. /\ decStrong(t, t, "owner", "gone") /\ pc[t] = "owned"
        /\ UNCHANGED <<descr, interest, mQueue>>
    BY <1>5, ZenonT(30) DEF Release, kernel
  <2>2. pc[t] \notin Active /\ "gone" \in {"gone", "wait"} /\ "owner" \in {"owner", "trans"} /\ refs[t] # {}
    BY ZenonT(30), <1>0, <2>1 DEF Active, Destroying, HeldInv
  <2>3. (PlainStep(t, "gone") \/ TakeStep(t, t)) /\ HeldInv'
    BY ZenonT(30), <1>0, <2>1, <2>2, DropKind
  <2>4. FdInv'
    BY ZenonT(30), <1>0, <2>3, PlainFds, TakeFds
  <2>5. SockListed => SockListed'
    BY <1>0, <2>1, <2>3, PlainListed, TakeListed, ZenonT(30)
  <2>6. sock' = sock \/ (sock' = [sock EXCEPT ![t] = Closed] /\ life'[t] # "live")
    <3>1. CASE PlainStep(t, "gone")
      BY <3>1, ZenonT(30) DEF PlainStep
    <3>2. CASE TakeStep(t, t)
      BY <3>2, KnownFacts, ZenonT(30) DEF TakeStep
    <3> QED BY <2>3, <3>1, <3>2
  <2>7. CheckInv'
    BY <1>0, <1>p, <2>6, OtherCheck, ZenonT(30)
  <2> QED BY ZenonT(30), <2>3, <2>4, <2>5, <2>7
<1>6. ~InitFailed(t) /\ ~DeleteSelf(t)
  BY ZenonT(30) DEF InitFailed, DeleteSelf, Known, OwnInv, CoreInv, LifeInv, ObjectInv
<1> QED BY <1>1, <1>2, <1>3, <1>4, <1>5, <1>6, ZenonT(30) DEF Owner

LEMMA DestructorFds ==
    ASSUME Orderly, Known, CoreInv', FdInv, CheckInv, NEW x \in Threads, CloseTransport(x)
    PROVE  FdInv' /\ HeldInv' /\ CheckInv' /\ (SockListed => SockListed')
<1>0. /\ HeldInv /\ refs' = refs /\ UNCHANGED <<events, found>> /\ pc[x] \in Destroying
  <2>1. refs' = refs /\ UNCHANGED <<events, found>>
    BY ZenonT(30) DEF CloseTransport, remove, EpollDel, Close, objects, poller
  <2>2. pc[x] \in {"remove", "del", "close"}
    BY ZenonT(30) DEF CloseTransport, remove, EpollDel, Close
  <2> QED BY <2>1, <2>2, ZenonT(30) DEF Known, OwnInv, HeldInv, Destroying
<1>1. FdInv' /\ sock' = sock /\ \A t \in Trans : life'[t] = "live" => life[t] = "live"
  BY RemoveFds, DelFds, CloseFds, ZenonT(30) DEF CloseTransport
<1>2. PICK p \in {"del", "close", "wait", "gone"} : pc' = [pc EXCEPT ![x] = p]
  <2>1. After(x) \in {"del", "close", "wait", "gone"}
    BY DEF After
  <2> QED BY <2>1, RemoveFds, DelFds, CloseFds, ZenonT(30) DEF CloseTransport
<1>3. /\ \A u \in Trans : pc'[u] \in {"insert", "add", "created", "owned"} => pc'[u] = pc[u]
      /\ \A u \in Trans : pc'[u] # "insert" => pc[u] # "insert"
      /\ pc'[Poller] = "check" => pc[Poller] = "check"
  <2>1. \A y \in Threads : IF y = x THEN pc'[y] = p ELSE pc'[y] = pc[y]
    BY <1>2, KnownFacts, ZenonT(30)
  <2>2. pc[x] # "insert"
    BY ZenonT(30), <1>0 DEF Destroying
  <2>3. Trans \subseteq Threads /\ Poller \in Threads
    BY KnownFacts
  <2> QED BY ZenonT(30), <2>1, <2>2, <2>3
<1>4. HeldInv'
  BY <1>0, <1>1, <1>3, ZenonT(30) DEF HeldInv
<1>5. CheckInv'
  BY <1>0, <1>1, <1>3, OtherCheck, ZenonT(30)
<1>6. \A u \in Trans : life[u] = "live" /\ Item(sock[u], u) \in Elements(mQueue) => Item(sock[u], u) \in Elements(mQueue')
  <2>1. CASE remove(x)
    <3>1. ASSUME NEW u \in Trans, life[u] = "live", Item(sock[u], u) \in Elements(mQueue)
          PROVE  Item(sock[u], u) \in Elements(mQueue')
      <4>1. sock[u] # _sock[x]
        BY <1>0, <3>1, TakenApart, ZenonT(30)
      <4>2. Item(sock[u], u).socket_fd = sock[u]
        BY DEF Item
      <4> QED BY <2>1, <3>1, <4>1, <4>2, RemoveFds, ZenonT(30)
    <3> QED BY <3>1
  <2>2. CASE EpollDel(x) \/ Close(x)
    BY <2>2, ZenonT(30) DEF EpollDel, Close
  <2> QED BY <2>1, <2>2, ZenonT(30) DEF CloseTransport
<1>7. SockListed => SockListed'
  BY <1>1, <1>3, <1>6, ZenonT(30) DEF SockListed
<1> QED BY ZenonT(30), <1>1, <1>4, <1>5, <1>7

LEMMA LoopFds ==
    ASSUME Orderly, Known, CoreInv', FdInv, CheckInv, threadLoop
    PROVE  FdInv' /\ HeldInv' /\ CheckInv' /\ (SockListed => SockListed')
<1>0. HeldInv /\ Poller \in Threads /\ Poller \notin Trans
  BY KnownFacts, ZenonT(30) DEF Known, OwnInv, HeldInv
<1>1. CASE fetch
  BY <1>0, <1>1, FetchKind, PlainFds, PlainListed, ZenonT(30)
<1>2. CASE FetchAssign
  <2>1. (PlainStep(Poller, "handle") \/ (trans \in Trans /\ TakeStep(Poller, trans))) /\ HeldInv'
    BY <1>2, AssignKind
  <2>2. mQueue' = mQueue
    BY <1>2, ZenonT(30) DEF FetchAssign
  <2>3. \E p \in {"handle", "remove"} : pc' = [pc EXCEPT ![Poller] = p]
    BY <2>1, ZenonT(30) DEF PlainStep, TakeStep
  <2>4. CheckInv'
    <3>1. pc'[Poller] \in {"handle", "remove"}
      BY SMT, SMTT(30), <1>0, <2>3, KnownFacts
    <3> QED BY <3>1, ZenonT(30) DEF CheckInv
  <2>5. FdInv'
    BY <1>0, <2>1, PlainFds, TakeFds
  <2>6. SockListed => SockListed'
    BY <1>0, <2>1, <2>2, PlainListed, TakeListed, ZenonT(30)
  <2> QED BY ZenonT(30), <2>1, <2>4, <2>5, <2>6
<1>3. CASE EndBatch
  <2>1. UNCHANGED <<descr, interest, mQueue>> /\ pc[Poller] = "fetch" /\ trans \in Trans \cup {NoTrans}
    BY <1>3, ZenonT(30) DEF EndBatch, kernel, Known, TypeInv, LifeTypes
  <2>2. pc[Poller] \notin Active /\ "wait" \notin Active
    BY ZenonT(30), <2>1 DEF Active, Destroying
  <2>3. CASE trans = NoTrans
    <3>1. UNCHANGED <<life, refs, sock, victim, _sock>> /\ pc' = [pc EXCEPT ![Poller] = "wait"]
      BY <1>3, <2>3, ZenonT(30) DEF EndBatch, dtor
    <3>2. PlainStep(Poller, "wait")
      BY <2>1, <2>2, <3>1, ZenonT(30) DEF PlainStep
    <3>3. HeldInv'
      BY <1>0, <3>1, KnownFacts, ZenonT(30) DEF HeldInv
    <3>4. FdInv' /\ (SockListed => SockListed')
      BY <1>0, <2>1, <3>2, PlainFds, PlainListed, ZenonT(30)
    <3>5. CheckInv'
      BY SMT, SMTT(30), <1>0, <3>1, KnownFacts DEF CheckInv
    <3> QED BY ZenonT(30), <3>3, <3>4, <3>5
  <2>4. CASE trans # NoTrans
    <3>1. trans \in Trans /\ decStrong(Poller, trans, "trans", "wait")
      BY <1>3, <2>1, <2>4, ZenonT(30) DEF EndBatch
    <3>2. refs[trans] # {}
      BY <2>4, ZenonT(30) DEF Known, CoreInv, LifeInv, PointerInv
    <3>3. "wait" \in {"gone", "wait"} /\ "trans" \in {"owner", "trans"} /\ "trans" # "owner"
      BY ZenonT(30)
    <3>4. (PlainStep(Poller, "wait") \/ TakeStep(Poller, trans)) /\ HeldInv'
      BY ZenonT(30), <1>0, <2>1, <2>2, <3>1, <3>2, <3>3, DropKind
    <3>5. FdInv'
      BY ZenonT(30), <1>0, <3>1, <3>4, PlainFds, TakeFds
    <3>6. SockListed => SockListed'
      BY <1>0, <2>1, <3>1, <3>4, PlainListed, TakeListed, ZenonT(30)
    <3>7. pc'[Poller] # "check"
      BY SMT, SMTT(30), <1>0, <3>4, KnownFacts DEF PlainStep, TakeStep
    <3> QED BY <3>4, <3>5, <3>6, <3>7, ZenonT(30) DEF CheckInv
  <2> QED BY ZenonT(30), <2>3, <2>4
<1>4. CASE epoll_wait \/ HandleRead
  <2>1. /\ UNCHANGED <<life, refs, sock, descr, interest, victim, _sock, mQueue>>
        /\ pc[Poller] \in {"wait", "handle"} /\ pc' = [pc EXCEPT ![Poller] = "fetch"]
    BY <1>4, ZenonT(30) DEF epoll_wait, HandleRead, objects, kernel, dtor
  <2>2. pc[Poller] \notin Active /\ "fetch" \notin Active
    BY ZenonT(30), <2>1 DEF Active, Destroying
  <2>3. PlainStep(Poller, "fetch")
    BY <2>1, <2>2, ZenonT(30) DEF PlainStep
  <2>4. HeldInv'
    BY <1>0, <2>1, KnownFacts, ZenonT(30) DEF HeldInv
  <2> QED BY <1>0, <2>1, <2>3, <2>4, PlainFds, PlainListed, KnownFacts, ZenonT(30) DEF CheckInv
<1>5. ~FetchStale
  BY ZenonT(30) DEF FetchStale, CheckInv
<1>6. ~HupClose
  <2>1. ASSUME HupClose PROVE FALSE
    <3>1. pc[Poller] = "handle" /\ events[1].hup /\ events \in Seq(Events)
      BY <2>1, ZenonT(30) DEF HupClose, Known, TypeInv, ListTypes
    <3>2. events # <<>>
      BY <3>1, ZenonT(30) DEF Known, TypeInv, BatchInv
    <3>3. 1 \in 1 .. Len(events)
      BY SMT, SMTT(30), <3>1, <3>2
    <3> QED BY <3>1, <3>3, ZenonT(30) DEF Known, OwnInv
  <2> QED BY <2>1
<1>7. ~HupRemove /\ ~HupDone
  BY ZenonT(30) DEF HupRemove, HupDone, Known, OwnInv
<1> QED BY <1>1, <1>2, <1>3, <1>4, <1>5, <1>6, <1>7, ZenonT(30) DEF threadLoop

DescriptorInv == Known /\ FdInv /\ CheckInv

LEMMA DescriptorStep ==
    ASSUME Orderly, DescriptorInv, CoreInv', TypeInv', [Next]_vars
    PROVE  DescriptorInv' /\ (SockListed /\ Room => SockListed')
<1>0. Known /\ FdInv /\ CheckInv /\ HeldInv
  BY ZenonT(30) DEF DescriptorInv, Known, OwnInv, HeldInv
<1>1. FdInv' /\ HeldInv' /\ CheckInv' /\ (SockListed /\ Room => SockListed')
  <2>1. CASE Next
    BY <1>0, <2>1, OwnerFds, DestructorFds, LoopFds, ZenonT(30) DEF Next
  <2>2. CASE UNCHANGED vars
    <3>1. UNCHANGED <<life, refs, sock, descr, interest, mQueue, pc, victim, _sock, events, found>>
      BY <2>2, ZenonT(30) DEF vars, objects, kernel, dtor, poller
    <3>2. FdInv'
      BY <1>0, <3>1, ZenonT(30) DEF FdInv, DescrInv, EpollInv, ItemInv
    <3> QED BY <1>0, <3>1, <3>2, ZenonT(30) DEF HeldInv, CheckInv, SockListed
  <2> QED BY <2>1, <2>2
<1>2. OwnInv'
  BY <1>0, <1>1, QuietNext, ZenonT(30) DEF OwnInv, HeldInv
<1> QED BY <1>1, <1>2 DEF DescriptorInv, Known

LEMMA InitDescriptor == Init => DescriptorInv /\ SockListed
<1> SUFFICES ASSUME Init PROVE DescriptorInv /\ SockListed
  OBVIOUS
<1>1. CoreInv /\ TypeInv
  <2>1. ListedInv
    BY SMT, SMTT(30) DEF Init, ListedInv
  <2> QED BY ZenonT(30), <2>1, InitQueue, InitLife, InitTypes DEF CoreInv
<1>2. /\ \A t \in Trans : pc[t] = "new" /\ life[t] = "none" /\ sock[t] = Closed
      /\ pc[Poller] = "wait" /\ \A x \in Threads : pc[x] \in {"new", "wait"}
      /\ \A f \in Fds : descr[f] = NoTrans
      /\ interest = {} /\ Len(events) = 0 /\ Elements(mQueue) = {}
  <2>1. \A t \in Trans : t \in Threads /\ t # Poller
    BY CoreAssumption DEF Threads
  <2>2. Poller \in Threads
    BY DEF Threads
  <2>3. Len(events) = 0 /\ Len(mQueue) = 0 /\ interest = {}
    BY DEF Init
  <2>4. Elements(mQueue) = {}
    BY SMT, SMTT(30), <2>3 DEF Elements
  <2> QED BY <2>1, <2>2, <2>3, <2>4, ZenonT(30) DEF Init
<1>3. OwnInv
  <2>1. \A i \in 1 .. Len(events) : FALSE
    BY SMT, SMTT(30), <1>2
  <2> QED BY <1>2, <2>1, ZenonT(30) DEF OwnInv
<1>4. DescrInv /\ EpollInv /\ ItemInv
  <2>1. \A x \in Threads : /\ pc[x] \notin Destroying /\ pc[x] \notin {"remove", "del"}
                           /\ pc[x] \notin {"del", "close"}
    BY ZenonT(30), <1>2 DEF Destroying
  <2> QED BY <1>2, <2>1, ZenonT(30) DEF DescrInv, EpollInv, ItemInv
<1>5. CheckInv /\ SockListed
  BY <1>2, ZenonT(30) DEF CheckInv, SockListed
<1> QED BY ZenonT(30), <1>1, <1>3, <1>4, <1>5 DEF DescriptorInv, Known, FdInv

\* The three layers together: the objects, the types, the descriptors.
THEOREM DescriptorInvariance == ASSUME Orderly PROVE Spec => []DescriptorInv
<1>1. RawCreated = {}
  BY DEF Orderly
<1>2. Init => DescriptorInv
  BY InitDescriptor
<1>3. DescriptorInv /\ CoreInv' /\ [Next]_vars => DescriptorInv'
  <2> SUFFICES ASSUME DescriptorInv, CoreInv', [Next]_vars PROVE DescriptorInv'
    OBVIOUS
  <2>1. QueueInv /\ TypeInv
    BY ZenonT(30) DEF DescriptorInv, Known, CoreInv
  <2>2. TypeInv'
    BY <2>1, TypeStep
  <2> QED BY <2>2, DescriptorStep
<1>4. Spec => []CoreInv
  BY <1>1, CoreInvariance
<1> QED BY <1>2, <1>3, <1>4, PTL DEF Spec

\* CloseTransport never closes a descriptor that the kernel has given to another
\* transport, however many destructors and creations run at once.
THEOREM ClosesOwnHolds == ASSUME Orderly PROVE Spec => []ClosesOwn
<1>1. DescriptorInv => ClosesOwn
  BY ZenonT(30) DEF DescriptorInv, FdInv, DescrInv, Destroying, ClosesOwn
<1> QED BY <1>1, DescriptorInvariance, PTL

\* CloseTransport leaves no descriptor open: EPOLL_CTL_DEL, whose failure would
\* skip the close, never fails.
THEOREM NoDescriptorLeakHolds == ASSUME Orderly PROVE Spec => []NoDescriptorLeak
<1>1. ASSUME DescriptorInv PROVE NoDescriptorLeak
  <2> SUFFICES ASSUME NEW t \in Trans, life[t] = "freed", NEW f \in Fds, descr[f] = t PROVE FALSE
    BY ZenonT(30) DEF NoDescriptorLeak
  <2>1. Known /\ FdInv
    BY <1>1, ZenonT(30) DEF DescriptorInv
  <2>2. /\ t # NoTrans
        /\ \A x \in Threads : pc[x] \in Destroying => life[victim[x]] = "dying"
    BY <2>1, KnownFacts, ZenonT(30)
  <2> QED BY ZenonT(30), <2>1, <2>2 DEF FdInv, DescrInv
<1> QED BY <1>1, DescriptorInvariance, PTL

\* There are at most Limit descriptors: of any Limit + 1 two are the same.
SlotForEach ==
    \A d \in [1 .. Limit + 1 -> Fds] : \E i, j \in 1 .. Limit + 1 : i < j /\ d[i] = d[j]

\* When there is a slot for every descriptor insert finds one: the items have
\* different descriptors, and none has that of the transport to be inserted.
LEMMA RoomLeft ==
    ASSUME SlotForEach, Known, FdInv
    PROVE  Room
<1> SUFFICES ASSUME NEW t \in Trans, pc[t] = "insert", Len(mQueue) = Limit PROVE FALSE
  BY ZenonT(30) DEF Room
<1>1. mQueue \in Seq(Items) /\ QueueInv /\ Limit \in Nat
  BY CoreAssumption, ZenonT(30) DEF Known, TypeInv, ListTypes, CoreInv
<1>2. sock[t] \in Fds /\ descr[sock[t]] = t
  <2>1. life[t] = "live"
    BY ZenonT(30), KnownFacts
  <2> QED BY <2>1, ZenonT(30) DEF FdInv, DescrInv
<1>3. ASSUME NEW i \in 1 .. Limit PROVE mQueue[i].socket_fd \in Fds /\ mQueue[i].socket_fd # sock[t]
  <2>1. mQueue[i] \in Elements(mQueue)
    BY ZenonT(30) DEF Elements
  <2>2. /\ mQueue[i].socket_fd \in Fds /\ pc[mQueue[i].socket_inst] # "insert"
        /\ descr[mQueue[i].socket_fd] = mQueue[i].socket_inst
    BY <2>1, KnownFacts, ZenonT(30) DEF FdInv, ItemInv
  <2> QED BY <1>2, <2>2, ZenonT(30)
<1>4. ASSUME NEW i \in 1 .. Limit, NEW j \in 1 .. Limit, i < j
      PROVE  mQueue[i].socket_fd # mQueue[j].socket_fd
  <2>1. mQueue[i].socket_fd < mQueue[j].socket_fd
    <3>1. DOMAIN mQueue = 1 .. Limit
      BY SMT, SMTT(30), <1>1
    <3> QED BY <1>1, <1>4, <3>1, ZenonT(30) DEF QueueInv, QueueSorted
  <2>2. mQueue[i].socket_fd \in Int /\ mQueue[j].socket_fd \in Int
    <3>1. mQueue[i].socket_fd \in Nat /\ mQueue[j].socket_fd \in Nat
      BY <1>3, CoreAssumption, ZenonT(30)
    <3> QED BY ONLY SMT, SMTT(30), <3>1
  <2> QED BY ONLY SMT, SMTT(30), <2>1, <2>2
<1> DEFINE d == [i \in 1 .. Limit + 1 |-> IF i = Limit + 1 THEN sock[t] ELSE mQueue[i].socket_fd]
<1>5. \A i \in 1 .. Limit + 1 : i # Limit + 1 => i \in 1 .. Limit
  BY SMT, SMTT(30), <1>1
<1>6. d \in [1 .. Limit + 1 -> Fds]
  BY <1>2, <1>3, <1>5, ZenonT(30)
<1>7. PICK i \in 1 .. Limit + 1, j \in 1 .. Limit + 1 : i < j /\ d[i] = d[j]
  <2> HIDE DEF d
  <2> QED BY <1>6, ZenonT(30) DEF SlotForEach
<1>8. i \in 1 .. Limit
  BY ONLY SMT, SMTT(30), <1>1, <1>7
<1>9. CASE j = Limit + 1
  BY ONLY SMT, SMTT(30), <1>3, <1>5, <1>7, <1>8, <1>9
<1>10. CASE j # Limit + 1
  <2>1. j \in 1 .. Limit
    BY ZenonT(30), <1>5, <1>10
  <2>2. d[i] = mQueue[i].socket_fd /\ d[j] = mQueue[j].socket_fd
    BY SMT, SMTT(30), <1>1, <1>8, <1>10, <2>1
  <2> QED BY <1>4, <1>7, <1>8, <2>1, <2>2, ZenonT(30)
<1> QED BY <1>9, <1>10

\* While its socket is open a live transport is found by its descriptor, if
\* CONTAINER_LIMIT is no smaller than the number of descriptors: no event of it
\* is lost to a list that is full, out of order or has the item of another.
THEOREM CoherentHolds ==
    ASSUME Orderly, SlotForEach
    PROVE  Spec => []Coherent
<1>1. Init => SockListed
  BY InitDescriptor
<1>2. SockListed /\ DescriptorInv /\ DescriptorInv' /\ [Next]_vars => SockListed'
  <2> SUFFICES ASSUME SockListed, DescriptorInv, DescriptorInv', [Next]_vars PROVE SockListed'
    OBVIOUS
  <2>1. Room
    BY RoomLeft DEF DescriptorInv
  <2>2. CoreInv' /\ TypeInv'
    BY ZenonT(30) DEF DescriptorInv, Known
  <2> QED BY <2>1, <2>2, DescriptorStep
<1>3. DescriptorInv /\ SockListed => Coherent
  <2> SUFFICES ASSUME DescriptorInv, SockListed, NEW t \in Trans, pc[t] \in {"created", "owned"}, life[t] = "live"
               PROVE  \E i \in DOMAIN mQueue : mQueue[i] = Item(sock[t], t)
    BY ZenonT(30) DEF Coherent
  <2>1. mQueue \in Seq(Items)
    BY ZenonT(30) DEF DescriptorInv, Known, TypeInv, ListTypes
  <2>2. DOMAIN mQueue = 1 .. Len(mQueue)
    BY SMT, SMTT(30), <2>1
  <2>3. Item(sock[t], t) \in Elements(mQueue)
    BY ZenonT(30) DEF SockListed
  <2> QED BY <2>2, <2>3, ZenonT(30) DEF Elements
<1>4. Spec => []DescriptorInv
  BY DescriptorInvariance
<1> QED BY <1>1, <1>2, <1>3, <1>4, PTL DEF Spec
=============================================================================
