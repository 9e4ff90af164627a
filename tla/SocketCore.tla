----------------------------- MODULE SocketCore -----------------------------
(***************************************************************************)
(* libnet: the life of a socket between the threads that own transports,   *)
(* SocketHolder (the list that maps a descriptor to its transport),        *)
(* SocketPoller (the epoll thread) and the reference counts of RefBase.    *)
(*                                                                         *)
(* The holder keeps a weak reference per item; its list is protected by    *)
(* mLock, everything else by nothing.  So the grain is: one critical       *)
(* section of the holder, one system call, or one atomic change of a       *)
(* reference count per step.  The destructor of a transport calls          *)
(* CloseTransport and runs in whichever thread drops the last strong       *)
(* reference, the poller inside fetch (with mLock held) included.          *)
(*                                                                         *)
(* A transport in RawCreated comes from RTPTransport::create, which        *)
(* registers the object before any sp<> holds it; the others (the RTCP     *)
(* transport of an RTPTransport) have an sp<> from the start.  Each        *)
(* transport is driven by a thread of its own, which has its name.  A      *)
(* thread that is about to use an object that was destroyed under it has   *)
(* no next step.                                                           *)
(*                                                                         *)
(* An operator X_fault is X with a plausible programming error and serves  *)
(* to show that the properties can tell the error from the code.           *)
(***************************************************************************)
EXTENDS Lists

CONSTANTS
    Trans, NoTrans,   \* transports
    RawCreated,       \* those made by RTPTransport::create
    Poller,           \* the thread of SocketPoller
    Nobody,           \* no thread
    Fds,              \* descriptors the kernel may return
    Limit,            \* CONTAINER_LIMIT
    MaxEvents,        \* MAX_EPOLL_EVENT_NUM
    PassiveClose,     \* whether epoll may report EPOLLHUP or EPOLLERR
    AddMayFail        \* whether epoll_ctl(EPOLL_CTL_ADD) may fail

ASSUME CoreAssumption ==
    /\ RawCreated \subseteq Trans
    /\ NoTrans \notin Trans /\ Poller \notin Trans
    /\ Nobody \notin Trans \cup {Poller}
    /\ Fds \subseteq Nat /\ Limit \in Nat /\ MaxEvents \in Nat \ {0}
    /\ PassiveClose \in BOOLEAN /\ AddMayFail \in BOOLEAN

VARIABLES
    life,      \* the object: "none", "live", "dying" (in its destructor), "freed"
    ndtor,     \* how often its destructor was entered
    refs,      \* its strong references: "owner", the poller's _trans, fetch's "temp"
    initial,   \* mStrong = INITIAL_STRONG_VALUE: no strong reference so far
    sock,      \* ITransport::sock
    mSocket,   \* Transport::mSocket
    descr,     \* the kernel: the transport whose socket a descriptor is
    interest,  \* the descriptors in the epoll set
    mQueue,    \* SocketHolder's list of items
    mLock,     \* who holds SocketHolder::mLock between two steps
    pc,        \* per thread: what it does next
    victim,    \* per thread: the object whose destructor it runs
    _sock,     \* per thread: the local of CloseTransport
    events,    \* the poller: events still to be handled
    trans,     \* the poller: _trans
    found      \* the poller: cursor->socket_inst, in fetch

objects == <<life, ndtor, refs, initial>>
kernel == <<descr, interest>>
dtor == <<victim, _sock>>
poller == <<events, trans, found>>
vars == <<objects, sock, mSocket, kernel, mQueue, mLock, pc, dtor, poller>>

Threads == Trans \cup {Poller}
Closed == -1
Item(f, t) == [socket_fd |-> f, socket_inst |-> t]
Items == [socket_fd : Fds, socket_inst : Trans]
Events == [fd : Fds, hup : BOOLEAN]
Lives == {"none", "live", "dying", "freed"}
Holders == {"owner", "trans", "temp"}
Places == {"new", "insert", "add", "created", "failed", "delete", "owned", "gone",
           "wait", "fetch", "check", "handle", "hupRemove", "hupDone",
           "remove", "del", "close"}

Init ==
    /\ life = [t \in Trans |-> "none"]
    /\ ndtor = [t \in Trans |-> 0]
    /\ refs = [t \in Trans |-> {}]
    /\ initial = [t \in Trans |-> TRUE]
    /\ sock = [t \in Trans |-> Closed]
    /\ mSocket = [t \in Trans |-> Closed]
    /\ descr = [f \in Fds |-> NoTrans]
    /\ interest = {}
    /\ mQueue = <<>>
    /\ mLock = Nobody
    /\ pc = [x \in Threads |-> IF x = Poller THEN "wait" ELSE "new"]
    /\ victim = [x \in Threads |-> NoTrans]
    /\ _sock = [x \in Threads |-> Closed]
    /\ events = <<>>
    /\ trans = NoTrans
    /\ found = NoTrans

-----------------------------------------------------------------------------
(***************************************************************************)
(* The list.  All three searches stop at the first item whose descriptor   *)
(* is not smaller than f.                                                  *)
(***************************************************************************)
PlaceOf(f, i) ==
    /\ \A k \in 1 .. i - 1 : mQueue[k].socket_fd < f
    /\ i <= Len(mQueue) => f <= mQueue[i].socket_fd

IsAt(f, i) == i \in 1 .. Len(mQueue) /\ PlaceOf(f, i) /\ mQueue[i].socket_fd = f
Missing(f) == \A i \in 1 .. Len(mQueue) : ~IsAt(f, i)

\* close(f): the descriptor is free again and leaves the epoll set.
CloseDescr(f) ==
    /\ descr' = [descr EXCEPT ![f] = NoTrans]
    /\ interest' = interest \ {f}

\* Thread x enters t's destructor, sock being open: CloseTransport takes it.
EnterDtor(x, t) ==
    /\ victim' = [victim EXCEPT ![x] = t]
    /\ _sock' = [_sock EXCEPT ![x] = sock[t]]
    /\ sock' = [sock EXCEPT ![t] = Closed]
    /\ life' = [life EXCEPT ![t] = "dying"]
    /\ ndtor' = [ndtor EXCEPT ![t] = @ + 1]

\* A destructor that finds sock closed has nothing to do.
FreeClosed(t) ==
    /\ life' = [life EXCEPT ![t] = "freed"]
    /\ ndtor' = [ndtor EXCEPT ![t] = @ + 1]
    /\ UNCHANGED <<sock, dtor>>

\* decStrong by thread x of the reference r: the last one deletes the object.
\* CloseTransport wants mLock: it is "remove" that x goes on with, or next when
\* there is nothing to close.
decStrong(x, t, r, next) ==
    /\ refs' = [refs EXCEPT ![t] = @ \ {r}]
    /\ \/ /\ refs[t] # {r}
          /\ pc' = [pc EXCEPT ![x] = next]
          /\ UNCHANGED <<life, ndtor, sock, dtor>>
       \/ /\ refs[t] = {r} /\ sock[t] # Closed
          /\ EnterDtor(x, t)
          /\ pc' = [pc EXCEPT ![x] = "remove"]
       \/ /\ refs[t] = {r} /\ sock[t] = Closed
          /\ FreeClosed(t)
          /\ pc' = [pc EXCEPT ![x] = next]

decWeak_any(x, o, next) ==
    \/ /\ sock[o] # Closed
       /\ EnterDtor(x, o)
       /\ pc' = [pc EXCEPT ![x] = "remove"]
       /\ mLock' = x
    \/ /\ sock[o] = Closed
       /\ FreeClosed(o)
       /\ pc' = [pc EXCEPT ![x] = next]
       /\ mLock' = Nobody

\* decWeak of the reference of an item of o, by thread x with mLock held: an
\* object that never had a strong reference is deleted with its last weak one.
decWeak(x, o, next) ==
    \/ /\ ~initial[o]
       /\ pc' = [pc EXCEPT ![x] = next]
       /\ mLock' = Nobody
       /\ UNCHANGED <<life, ndtor, sock, dtor>>
    \/ /\ initial[o] /\ sock[o] # Closed
       /\ EnterDtor(x, o)
       /\ pc' = [pc EXCEPT ![x] = "remove"]
       /\ mLock' = x
    \/ /\ initial[o] /\ sock[o] = Closed
       /\ FreeClosed(o)
       /\ pc' = [pc EXCEPT ![x] = next]
       /\ mLock' = Nobody

-----------------------------------------------------------------------------
(***************************************************************************)
(* The thread of transport t: creation.                                    *)
(***************************************************************************)
\* udpTransport::init up to AddTransport.
Create(t) ==
    /\ pc[t] = "new"
    /\ \E f \in Fds :
          /\ descr[f] = NoTrans
          /\ descr' = [descr EXCEPT ![f] = t]
          /\ sock' = [sock EXCEPT ![t] = f]
          /\ mSocket' = [mSocket EXCEPT ![t] = f]
    /\ life' = [life EXCEPT ![t] = "live"]
    /\ initial' = [initial EXCEPT ![t] = t \in RawCreated]
    /\ refs' = [refs EXCEPT ![t] = IF t \in RawCreated THEN {} ELSE {"owner"}]
    /\ pc' = [pc EXCEPT ![t] = "insert"]
    /\ UNCHANGED <<ndtor, interest, mQueue, mLock, dtor, poller>>

insert_twice(t) ==
    /\ pc[t] = "insert" /\ life[t] = "live" /\ mLock = Nobody
    /\ \E i \in 1 .. Len(mQueue) + 1 :
          PlaceOf(sock[t], i) /\ mQueue' = InsertAt(mQueue, i, Item(sock[t], t))
    /\ pc' = [pc EXCEPT ![t] = "add"]
    /\ UNCHANGED <<objects, sock, dtor, mLock, mSocket, kernel, poller>>

\* Has no limit.
insert_unlimited(t) ==
    /\ pc[t] = "insert" /\ life[t] = "live" /\ mLock = Nobody
    /\ \/ /\ Missing(sock[t])
          /\ \E i \in 1 .. Len(mQueue) + 1 :
                PlaceOf(sock[t], i) /\ mQueue' = InsertAt(mQueue, i, Item(sock[t], t))
          /\ pc' = [pc EXCEPT ![t] = "add"]
          /\ UNCHANGED <<objects, sock, dtor, mLock>>
       \/ /\ \E i \in 1 .. Len(mQueue) :
                /\ IsAt(sock[t], i)
                /\ mQueue' = [mQueue EXCEPT ![i] = Item(sock[t], t)]
                /\ decWeak(t, mQueue[i].socket_inst, "add")
          /\ UNCHANGED <<refs, initial>>
    /\ UNCHANGED <<mSocket, kernel, poller>>

\* SocketHolder::insert.  The slot is taken before the old item of the same
\* descriptor is given back, and AddTransport ignores the result.
insert(t) ==
    /\ pc[t] = "insert" /\ life[t] = "live" /\ mLock = Nobody
    /\ \/ /\ Len(mQueue) = Limit
          /\ pc' = [pc EXCEPT ![t] = "add"]
          /\ UNCHANGED <<objects, sock, dtor, mQueue, mLock>>
       \/ /\ Len(mQueue) < Limit /\ Missing(sock[t])
          /\ \E i \in 1 .. Len(mQueue) + 1 :
                PlaceOf(sock[t], i) /\ mQueue' = InsertAt(mQueue, i, Item(sock[t], t))
          /\ pc' = [pc EXCEPT ![t] = "add"]
          /\ UNCHANGED <<objects, sock, dtor, mLock>>
       \/ /\ Len(mQueue) < Limit
          /\ \E i \in 1 .. Len(mQueue) :
                /\ IsAt(sock[t], i)
                /\ mQueue' = [mQueue EXCEPT ![i] = Item(sock[t], t)]
                /\ decWeak(t, mQueue[i].socket_inst, "add")
          /\ UNCHANGED <<refs, initial>>
    /\ UNCHANGED <<mSocket, kernel, poller>>

\* epoll_ctl(EPOLL_CTL_ADD) fails for a descriptor that is closed or in the set.
EpollAdd(t) ==
    /\ pc[t] = "add" /\ life[t] = "live"
    /\ LET ok == sock[t] # Closed /\ sock[t] \notin interest /\ descr[sock[t]] # NoTrans IN
       \/ /\ ok
          /\ interest' = interest \cup {sock[t]}
          /\ pc' = [pc EXCEPT ![t] = "created"]
       \/ /\ AddMayFail \/ ~ok
          /\ pc' = [pc EXCEPT ![t] = "failed"]
          /\ UNCHANGED interest
    /\ UNCHANGED <<objects, sock, mSocket, descr, mQueue, mLock, dtor, poller>>

\* The fail case flow of udpTransport::init.
InitFailed(t) ==
    /\ pc[t] = "failed" /\ life[t] = "live"
    /\ CloseDescr(mSocket[t])
    /\ mSocket' = [mSocket EXCEPT ![t] = Closed]
    /\ pc' = [pc EXCEPT ![t] = IF t \in RawCreated THEN "delete" ELSE "owned"]
    /\ UNCHANGED <<objects, sock, mQueue, mLock, dtor, poller>>

\* `delete self` in RTPTransport::create.
DeleteSelf(t) ==
    /\ pc[t] = "delete" /\ life[t] = "live"
    /\ EnterDtor(t, t)
    /\ pc' = [pc EXCEPT ![t] = "remove"]
    /\ UNCHANGED <<refs, initial, mSocket, kernel, mQueue, mLock, poller>>

\* The caller's sp<> takes what create returned.
Own(t) ==
    /\ pc[t] = "created" /\ life[t] = "live"
    /\ refs' = [refs EXCEPT ![t] = @ \cup {"owner"}]
    /\ initial' = [initial EXCEPT ![t] = FALSE]
    /\ pc' = [pc EXCEPT ![t] = "owned"]
    /\ UNCHANGED <<life, ndtor, sock, mSocket, kernel, mQueue, mLock, dtor, poller>>

\* The owner lets go of its transport.
Release(t) ==
    /\ pc[t] = "owned"
    /\ decStrong(t, t, "owner", "gone")
    /\ UNCHANGED <<initial, mSocket, kernel, mQueue, mLock, poller>>

-----------------------------------------------------------------------------
(***************************************************************************)
(* CloseTransport, called by the destructor of victim[x] in thread x.      *)
(***************************************************************************)
\* Where thread x goes after a destructor.
After(x) == IF x = Poller THEN "wait" ELSE "gone"

remove_nearest(x) ==
    /\ pc[x] = "remove" /\ mLock = Nobody
    /\ \E i \in 1 .. Len(mQueue) + 1 :
          /\ PlaceOf(_sock[x], i)
          /\ mQueue' = IF i <= Len(mQueue) THEN RemoveAt(mQueue, i) ELSE mQueue
    /\ pc' = [pc EXCEPT ![x] = "del"]
    /\ UNCHANGED <<objects, sock, dtor, mLock, mSocket, kernel, poller>>

\* SocketHolder::remove.  Never taken by a thread that holds mLock itself.
remove(x) ==
    /\ pc[x] = "remove" /\ mLock = Nobody
    /\ \/ /\ Missing(_sock[x])
          /\ pc' = [pc EXCEPT ![x] = "del"]
          /\ UNCHANGED <<objects, sock, dtor, mQueue, mLock>>
       \/ /\ \E i \in 1 .. Len(mQueue) :
                /\ IsAt(_sock[x], i)
                /\ mQueue' = RemoveAt(mQueue, i)
                /\ decWeak(x, mQueue[i].socket_inst, "del")
          /\ UNCHANGED <<refs, initial>>
    /\ UNCHANGED <<mSocket, kernel, poller>>

EpollDel_closes(x) ==
    /\ pc[x] = "del"
    /\ CloseDescr(_sock[x])
    /\ pc' = [pc EXCEPT ![x] = "close"]
    /\ UNCHANGED <<objects, sock, mSocket, mQueue, mLock, dtor, poller>>

\* epoll_ctl(EPOLL_CTL_DEL): when it fails the descriptor is not closed.
EpollDel(x) ==
    /\ pc[x] = "del"
    /\ \/ /\ _sock[x] \in interest
          /\ interest' = interest \ {_sock[x]}
          /\ pc' = [pc EXCEPT ![x] = "close"]
          /\ UNCHANGED <<life, dtor>>
       \/ /\ _sock[x] \notin interest
          /\ life' = [life EXCEPT ![victim[x]] = "freed"]
          /\ pc' = [pc EXCEPT ![x] = After(x)]
          /\ victim' = [victim EXCEPT ![x] = NoTrans]
          /\ _sock' = [_sock EXCEPT ![x] = Closed]
          /\ UNCHANGED interest
    /\ UNCHANGED <<ndtor, refs, initial, sock, mSocket, descr, mQueue, mLock, poller>>

Close_forgotten(x) ==
    /\ pc[x] = "close"
    /\ life' = [life EXCEPT ![victim[x]] = "freed"]
    /\ pc' = [pc EXCEPT ![x] = After(x)]
    /\ victim' = [victim EXCEPT ![x] = NoTrans]
    /\ _sock' = [_sock EXCEPT ![x] = Closed]
    /\ UNCHANGED <<ndtor, refs, initial, sock, mSocket, kernel, mQueue, mLock, poller>>

Close(x) ==
    /\ pc[x] = "close"
    /\ CloseDescr(_sock[x])
    /\ life' = [life EXCEPT ![victim[x]] = "freed"]
    /\ pc' = [pc EXCEPT ![x] = After(x)]
    /\ victim' = [victim EXCEPT ![x] = NoTrans]
    /\ _sock' = [_sock EXCEPT ![x] = Closed]
    /\ UNCHANGED <<ndtor, refs, initial, sock, mSocket, mQueue, mLock, poller>>

-----------------------------------------------------------------------------
(***************************************************************************)
(* SocketPoller::threadLoop.                                               *)
(***************************************************************************)
\* A datagram socket has events once it is bound, which its owner does.
Bound(t) == t # NoTrans /\ pc[t] \notin {"insert", "add", "created", "failed", "delete"}

\* epoll_wait returns events of different descriptors in any order.
epoll_wait ==
    /\ pc[Poller] = "wait" /\ events = <<>>
    /\ \E n \in 1 .. MaxEvents : \E e \in [1 .. n -> Events] :
          /\ \A i \in 1 .. n :
                /\ e[i].fd \in interest /\ Bound(descr[e[i].fd])
                /\ e[i].hup => PassiveClose
          /\ \A i, j \in 1 .. n : i # j => e[i].fd # e[j].fd
          /\ events' = e
    /\ pc' = [pc EXCEPT ![Poller] = "fetch"]
    /\ UNCHANGED <<objects, sock, mSocket, kernel, mQueue, mLock, dtor, trans, found>>

fetch_unasked ==
    /\ pc[Poller] = "fetch" /\ events # <<>> /\ mLock = Nobody
    /\ \/ /\ Missing(events[1].fd)
          /\ events' = Tail(events)
          /\ UNCHANGED <<refs, initial, mLock, pc, found>>
       \/ \E i \in 1 .. Len(mQueue) :
             /\ IsAt(events[1].fd, i)
             /\ refs' = [refs EXCEPT ![mQueue[i].socket_inst] = @ \cup {"temp"}]
             /\ initial' = [initial EXCEPT ![mQueue[i].socket_inst] = FALSE]
             /\ found' = mQueue[i].socket_inst
             /\ mLock' = Poller
             /\ pc' = [pc EXCEPT ![Poller] = "check"]
             /\ UNCHANGED events
    /\ UNCHANGED <<life, ndtor, sock, mSocket, kernel, mQueue, dtor, trans>>

fetch_locked ==
    /\ pc[Poller] = "fetch" /\ events # <<>> /\ mLock = Nobody
    /\ mLock' = Poller
    /\ \E i \in 1 .. Len(mQueue) :
          /\ IsAt(events[1].fd, i)
          /\ LET t == mQueue[i].socket_inst IN
             \/ /\ refs[t] = {} /\ ~initial[t]
                /\ mQueue' = RemoveAt(mQueue, i) /\ events' = Tail(events)
                /\ UNCHANGED <<refs, pc, found>>
             \/ /\ refs[t] # {}
                /\ refs' = [refs EXCEPT ![t] = @ \cup {"temp"}]
                /\ found' = t
                /\ pc' = [pc EXCEPT ![Poller] = "check"]
                /\ UNCHANGED <<mQueue, events>>
    /\ UNCHANGED <<life, ndtor, initial, sock, mSocket, kernel, dtor, trans>>

\* SocketHolder::fetch up to attemptIncStrong: no item, a dead one (its item is
\* removed), or a strong reference with mLock held.
fetch ==
    /\ pc[Poller] = "fetch" /\ events # <<>> /\ mLock = Nobody
    /\ LET f == events[1].fd IN
       \/ /\ Missing(f)
          /\ events' = Tail(events)
          /\ UNCHANGED <<refs, initial, mQueue, mLock, pc, found>>
       \/ \E i \in 1 .. Len(mQueue) :
             LET t == mQueue[i].socket_inst IN
             /\ IsAt(f, i)
             /\ \/ /\ refs[t] = {} /\ ~initial[t]
                   /\ mQueue' = RemoveAt(mQueue, i)
                   /\ events' = Tail(events)
                   /\ UNCHANGED <<refs, initial, mLock, pc, found>>
                \/ /\ refs[t] # {} \/ initial[t]
                   /\ refs' = [refs EXCEPT ![t] = @ \cup {"temp"}]
                   /\ initial' = [initial EXCEPT ![t] = FALSE]
                   /\ found' = t
                   /\ mLock' = Poller
                   /\ pc' = [pc EXCEPT ![Poller] = "check"]
                   /\ UNCHANGED <<mQueue, events>>
    /\ UNCHANGED <<life, ndtor, sock, mSocket, kernel, dtor, trans>>

\* The item is stale: the reference is dropped, then the item.  An object's sock
\* only changes to -1 after its item was made, so a destructor has nothing to do.
FetchStale ==
    /\ pc[Poller] = "check" /\ sock[found] # events[1].fd
    /\ refs' = [refs EXCEPT ![found] = @ \ {"temp"}]
    /\ IF refs[found] = {"temp"} THEN FreeClosed(found)
                                  ELSE UNCHANGED <<life, ndtor, sock, dtor>>
    /\ \E i \in 1 .. Len(mQueue) : IsAt(events[1].fd, i) /\ mQueue' = RemoveAt(mQueue, i)
    /\ mLock' = Nobody
    /\ events' = Tail(events) /\ found' = NoTrans
    /\ pc' = [pc EXCEPT ![Poller] = "fetch"]
    /\ UNCHANGED <<initial, mSocket, kernel, trans>>

\* _inst = cursor->socket_inst: takes a reference and drops the one that _trans
\* held, then the temporary one goes.
FetchAssign ==
    /\ pc[Poller] = "check" /\ sock[found] = events[1].fd
    /\ trans' = found /\ found' = NoTrans
    /\ LET taken == [refs EXCEPT ![found] = (@ \ {"temp"}) \cup {"trans"}]
           last == trans \notin {NoTrans, found} /\ refs[trans] = {"trans"}
       IN
       \/ /\ ~last
          /\ refs' = [t \in Trans |-> IF t = trans /\ t # found THEN taken[t] \ {"trans"}
                                                                ELSE taken[t]]
          /\ mLock' = Nobody
          /\ pc' = [pc EXCEPT ![Poller] = "handle"]
          /\ UNCHANGED <<life, ndtor, sock, dtor>>
       \/ /\ last
          /\ refs' = [taken EXCEPT ![trans] = {}]
          /\ \/ /\ sock[trans] # Closed
                /\ EnterDtor(Poller, trans)
                /\ pc' = [pc EXCEPT ![Poller] = "remove"]
                /\ UNCHANGED mLock
             \/ /\ sock[trans] = Closed
                /\ FreeClosed(trans)
                /\ pc' = [pc EXCEPT ![Poller] = "handle"]
                /\ mLock' = Nobody
    /\ UNCHANGED <<initial, mSocket, kernel, mQueue, events>>

\* handleRead.
HandleRead ==
    /\ pc[Poller] = "handle" /\ (events[1].hup => sock[trans] = Closed)
    /\ events' = Tail(events)
    /\ pc' = [pc EXCEPT ![Poller] = "fetch"]
    /\ UNCHANGED <<objects, sock, mSocket, kernel, mQueue, mLock, dtor, trans, found>>

\* The passive close: close, remove, and only then sock = -1.
HupClose ==
    /\ pc[Poller] = "handle" /\ events[1].hup /\ sock[trans] # Closed
    /\ CloseDescr(sock[trans])
    /\ pc' = [pc EXCEPT ![Poller] = "hupRemove"]
    /\ UNCHANGED <<objects, sock, mSocket, mQueue, mLock, dtor, poller>>

HupRemove ==
    /\ pc[Poller] = "hupRemove" /\ mLock = Nobody
    /\ \/ /\ Missing(sock[trans])
          /\ pc' = [pc EXCEPT ![Poller] = "hupDone"]
          /\ UNCHANGED <<objects, sock, dtor, mQueue, mLock>>
       \/ /\ \E i \in 1 .. Len(mQueue) :
                /\ IsAt(sock[trans], i)
                /\ mQueue' = RemoveAt(mQueue, i)
                /\ decWeak(Poller, mQueue[i].socket_inst, "hupDone")
          /\ UNCHANGED <<refs, initial>>
    /\ UNCHANGED <<mSocket, kernel, poller>>

HupDone ==
    /\ pc[Poller] = "hupDone"
    /\ sock' = [sock EXCEPT ![trans] = Closed]
    /\ events' = Tail(events)
    /\ pc' = [pc EXCEPT ![Poller] = "fetch"]
    /\ UNCHANGED <<objects, mSocket, kernel, mQueue, mLock, dtor, trans, found>>

EndBatch_kept ==
    /\ pc[Poller] = "fetch" /\ events = <<>>
    /\ pc' = [pc EXCEPT ![Poller] = "wait"]
    /\ UNCHANGED <<objects, sock, mSocket, kernel, mQueue, mLock, dtor, poller>>

\* _trans goes out of scope.
EndBatch ==
    /\ pc[Poller] = "fetch" /\ events = <<>>
    /\ trans' = NoTrans
    /\ \/ /\ trans = NoTrans
          /\ pc' = [pc EXCEPT ![Poller] = "wait"]
          /\ UNCHANGED <<life, ndtor, refs, sock, dtor>>
       \/ trans # NoTrans /\ decStrong(Poller, trans, "trans", "wait")
    /\ UNCHANGED <<initial, mSocket, kernel, mQueue, mLock, events, found>>

-----------------------------------------------------------------------------
Owner(t) ==
    \/ Create(t) \/ insert(t) \/ EpollAdd(t) \/ InitFailed(t) \/ DeleteSelf(t)
    \/ Own(t) \/ Release(t)
CloseTransport(x) == remove(x) \/ EpollDel(x) \/ Close(x)
threadLoop ==
    \/ epoll_wait \/ fetch \/ FetchStale \/ FetchAssign
    \/ HandleRead \/ HupClose \/ HupRemove \/ HupDone \/ EndBatch

Next ==
    \/ \E t \in Trans : Owner(t)
    \/ \E x \in Threads : CloseTransport(x)
    \/ threadLoop

Spec == Init /\ [][Next]_vars

\* A thread goes on with a destructor it has begun, and the poller with its
\* batch; who waits for mLock gets it in the end.  Owners need not release, and
\* sockets need not have events.
Fairness ==
    /\ \A x \in Threads : SF_vars(remove(x)) /\ WF_vars(EpollDel(x) \/ Close(x))
    /\ SF_vars(fetch) /\ SF_vars(HupRemove)
    /\ WF_vars(FetchStale \/ FetchAssign \/ HandleRead \/ HupClose \/ HupDone \/ EndBatch)

FairSpec == Spec /\ Fairness

-----------------------------------------------------------------------------
TypeOK ==
    /\ life \in [Trans -> Lives]
    /\ ndtor \in [Trans -> Nat]
    /\ refs \in [Trans -> SUBSET Holders]
    /\ initial \in [Trans -> BOOLEAN]
    /\ sock \in [Trans -> Fds \cup {Closed}]
    /\ mSocket \in [Trans -> Fds \cup {Closed}]
    /\ descr \in [Fds -> Trans \cup {NoTrans}]
    /\ interest \subseteq Fds
    /\ mQueue \in Seq(Items) /\ Len(mQueue) <= Limit
    /\ mLock \in Threads \cup {Nobody}
    /\ pc \in [Threads -> Places]
    /\ victim \in [Threads -> Trans \cup {NoTrans}]
    /\ _sock \in [Threads -> Fds \cup {Closed}]
    /\ events \in Seq(Events)
    /\ trans \in Trans \cup {NoTrans} /\ found \in Trans \cup {NoTrans}

\* The holder's list is strictly ordered by descriptor, so that the searches,
\* which stop at the first larger one, find what is there, and no descriptor
\* has two transports.
QueueSorted ==
    \A i, j \in DOMAIN mQueue : i < j => mQueue[i].socket_fd < mQueue[j].socket_fd

\* The object the poller looks at in fetch, or handles an event of, is not in
\* its destructor and not freed, whoever lets go of it meanwhile.
FetchedAlive ==
    /\ found # NoTrans => life[found] = "live"
    /\ trans # NoTrans /\ pc[Poller] \in {"fetch", "check", "handle", "hupRemove", "hupDone"}
          => life[trans] = "live"

\* The destructor of a transport is entered once, in one thread.
DestroyedOnce ==
    /\ \A t \in Trans : ndtor[t] <= 1
    /\ \A x, y \in Threads : victim[x] = victim[y] /\ x # y => victim[x] = NoTrans

\* CloseTransport closes the descriptor of the transport it was called for, not
\* one that the kernel has given to another transport since.
ClosesOwn ==
    \A x \in Threads : pc[x] = "close" => descr[_sock[x]] = victim[x]

\* A transport that is gone has no open descriptor left behind.  Without
\* hang-ups: after one, two transports may have the same number, the epoll_ctl of
\* the one makes that of the other fail, and CloseTransport then does not close.
NoDescriptorLeak ==
    \A t \in Trans : life[t] = "freed" => \A f \in Fds : descr[f] # t

\* A transport on which AddTransport has succeeded is found by its descriptor
\* for as long as it lives and its socket is open: no event of it is lost.
Coherent ==
    \A t \in Trans :
        pc[t] \in {"created", "owned"} /\ life[t] = "live" /\ sock[t] \in interest
            => \E i \in DOMAIN mQueue : mQueue[i] = Item(sock[t], t)

\* "They are not recursive, i.e. the same thread can't lock it multiple times":
\* no thread asks for the holder's mLock while it holds it.
NeverRelocks ==
    \A x \in Threads : ~(mLock = x /\ pc[x] = "remove")

\* A transport that nobody refers to is taken down to the end.
Reclaimed ==
    \A t \in Trans : life[t] = "dying" ~> life[t] = "freed"

\* The poller does not get stuck: it comes back to epoll_wait.
PollerReturns == (pc[Poller] # "wait") ~> (pc[Poller] = "wait")
=============================================================================
