---------------------------- MODULE SocketSender ----------------------------
(***************************************************************************)
(* libnet/Sender.cpp: the thread that sends the RTP packets of all         *)
(* transports.  RTPTransport::deliver marks a packet with the number of    *)
(* its socket and queues it in mBuffers; every ten milliseconds the        *)
(* poller's timer signals mTick, and the thread moves mBuffers behind      *)
(* mPending and sends up to MAX_SENDING_PACKETS of it.                     *)
(*                                                                         *)
(* A packet names a socket, not a transport: it is looked up again in the  *)
(* SocketHolder when it is sent.  The holder is kept here as the map from  *)
(* descriptors to registered transports; how it stays that is in           *)
(* SocketCore.  A closed descriptor number may be given to another         *)
(* transport while packets with that number are still queued.              *)
(*                                                                         *)
(* The thread's _inst is a strong reference that lives as long as its      *)
(* loop.  A transport whose other references go meanwhile is destroyed     *)
(* when the loop ends or when _inst is assigned to, and that happens in    *)
(* fetch, with the holder's mLock held: the destructor of a transport      *)
(* whose socket is open wants mLock, and the thread waits for itself.      *)
(*                                                                         *)
(* X_fault is X with a plausible programming error; it is not part of the  *)
(* specification.                                                          *)
(***************************************************************************)
EXTENDS Integers, Sequences

CONSTANTS
    Packets,       \* MetaBuffers; one is handed over at most once
    Trans,         \* RTPTransports
    NoTrans,       \* no transport
    Fds,           \* descriptor numbers
    MaxSending,    \* MAX_SENDING_PACKETS
    Closed,        \* the descriptor -1
    PassiveClose   \* whether sockets hang up

ASSUME SenderAssumption ==
    /\ NoTrans \notin Trans /\ MaxSending \in Nat \ {0}
    /\ Closed \notin Fds /\ PassiveClose \in BOOLEAN

VARIABLES
    holder,        \* SocketHolder: the transport registered for a descriptor
    mSocket,       \* the socket a transport was created with
    sock,          \* ITransport::sock: the same until it is closed
    owned,         \* transports with a strong reference other than _inst
    fd, from,      \* the "fd" item of a packet, and who handed it over
    fresh,         \* packets not handed over yet
    mBuffers, mPending,
    at,            \* the next step of the thread
    i, sendnum,    \* its counters
    inst,          \* _inst
    sent,          \* history: packets sent, with the transport that sent them
    dropped,       \* history: packets given up
    gone           \* history: all of them, in order

senderVars == <<mBuffers, mPending, at, i, sendnum, inst>>
history == <<sent, dropped, gone>>
world == <<holder, mSocket, sock, owned>>
vars == <<world, fd, from, fresh, senderVars, history>>

Init ==
    /\ holder = [f \in Fds |-> NoTrans]
    /\ mSocket = [t \in Trans |-> Closed] /\ sock = [t \in Trans |-> Closed]
    /\ owned = {}
    /\ fd = [b \in Packets |-> Closed] /\ from = [b \in Packets |-> NoTrans]
    /\ fresh = Packets
    /\ mBuffers = <<>> /\ mPending = <<>>
    /\ at = "wait" /\ i = 0 /\ sendnum = 0 /\ inst = NoTrans
    /\ sent = {} /\ dropped = {} /\ gone = <<>>

\* attemptIncStrong succeeds: somebody has a strong reference.
Alive(t) == t \in owned \/ (t = inst /\ at # "close")

\* _inst is the last reference to a transport whose socket is open: dropping it
\* runs a destructor that wants mLock.
LastOpen == inst # NoTrans /\ inst \notin owned /\ sock[inst] \in Fds

\* The holder's mLock is free: the thread has not kept it for good.
Unlocked == at # "relock"

-----------------------------------------------------------------------------
\* RTPTransport::create; an object is created once.
Create(t, f) ==
    /\ Unlocked
    /\ mSocket[t] = Closed /\ \A u \in Trans : sock[u] # f
    /\ mSocket' = [mSocket EXCEPT ![t] = f]
    /\ sock' = [sock EXCEPT ![t] = f]
    /\ owned' = owned \cup {t}
    /\ holder' = [holder EXCEPT ![f] = t]
    /\ UNCHANGED <<fd, from, fresh, senderVars, history>>

Without(t) == [f \in Fds |-> IF holder[f] = t THEN NoTrans ELSE holder[f]]

\* CloseTransport, and the passive close of the poller.
CloseSocket(t) ==
    /\ Unlocked
    /\ holder' = Without(t)
    /\ sock' = [sock EXCEPT ![t] = Closed]

\* The owner lets go; the poller's references count as the owner's.
Release(t) ==
    /\ t \in owned
    /\ owned' = owned \ {t}
    /\ UNCHANGED <<holder, mSocket, sock, fd, from, fresh, senderVars, history>>

\* The destructor, in another thread than the sender's: that one has dropped
\* the last reference.
Destroy(t) ==
    /\ t \notin owned /\ t # inst /\ sock[t] \in Fds
    /\ CloseSocket(t)
    /\ UNCHANGED <<mSocket, owned, fd, from, fresh, senderVars, history>>

\* The poller closes a socket that hung up; the transport keeps its number in
\* mSocket, and goes on handing over packets with it.
HangUp(t) ==
    /\ PassiveClose /\ Alive(t) /\ sock[t] \in Fds
    /\ CloseSocket(t)
    /\ UNCHANGED <<mSocket, owned, fd, from, fresh, senderVars, history>>

\* Queues at the wrong end.
deliver_front(t, b) ==
    /\ t \in owned /\ b \in fresh
    /\ fd' = [fd EXCEPT ![b] = mSocket[t]]
    /\ from' = [from EXCEPT ![b] = t]
    /\ fresh' = fresh \ {b}
    /\ mBuffers' = <<b>> \o mBuffers
    /\ UNCHANGED <<world, mPending, at, i, sendnum, inst, history>>

\* RTPTransport::deliver and SocketSender::deliver; the packet belongs to its
\* caller until it is queued, so that one critical section is one step.
deliver(t, b) ==
    /\ t \in owned /\ b \in fresh
    /\ fd' = [fd EXCEPT ![b] = mSocket[t]]
    /\ from' = [from EXCEPT ![b] = t]
    /\ fresh' = fresh \ {b}
    /\ mBuffers' = Append(mBuffers, b)
    /\ UNCHANGED <<world, mPending, at, i, sendnum, inst, history>>

-----------------------------------------------------------------------------
\* The signal of the timer reaches the thread in pthread_cond_wait; it moves
\* mBuffers before it gives mLock back.  A signal that comes while the thread
\* is elsewhere is lost.
Tick ==
    /\ at = "wait"
    /\ mPending' = mPending \o mBuffers
    /\ mBuffers' = <<>>
    /\ at' = "count"
    /\ UNCHANGED <<world, fd, from, fresh, i, sendnum, inst, history>>

Count ==
    /\ at = "count"
    /\ i' = 0
    /\ sendnum' = IF Len(mPending) > MaxSending THEN MaxSending ELSE Len(mPending)
    /\ at' = "test"
    /\ UNCHANGED <<world, fd, from, fresh, mBuffers, mPending, inst, history>>

\* The loop ends, and with it the life of _inst: the last reference, if it is
\* that, is dropped without mLock.
Done ==
    /\ at = "test" /\ (mPending = <<>> \/ i >= sendnum)
    /\ i' = 0 /\ sendnum' = 0
    /\ \/ /\ LastOpen
          /\ at' = "close" /\ UNCHANGED inst
       \/ /\ ~LastOpen
          /\ at' = "wait" /\ inst' = NoTrans
    /\ UNCHANGED <<world, fd, from, fresh, mBuffers, mPending, history>>

\* The destructor of what _inst was the last reference to.
DestroyInst ==
    /\ at = "close"
    /\ CloseSocket(inst)
    /\ at' = "wait" /\ inst' = NoTrans
    /\ UNCHANGED <<mSocket, owned, fd, from, fresh, mBuffers, mPending, i, sendnum, history>>

\* The first packet is given up; it does not count.
GiveUp ==
    /\ mPending' = Tail(mPending)
    /\ dropped' = dropped \cup {Head(mPending)}
    /\ gone' = Append(gone, Head(mPending))
    /\ UNCHANGED <<at, inst>>

\* _inst = cursor->socket_inst, with mLock held.
Assign(t) ==
    /\ \/ /\ t # inst /\ LastOpen
          /\ at' = "relock" /\ UNCHANGED inst
       \/ /\ t = inst \/ ~LastOpen
          /\ at' = "send" /\ inst' = t
    /\ UNCHANGED <<holder, mPending, dropped, gone>>

\* Keeps the transport of the packet before.
Fetch_same ==
    /\ at = "test" /\ mPending # <<>> /\ i < sendnum
    /\ LET f == fd[Head(mPending)] IN
       \/ holder[f] = NoTrans /\ GiveUp /\ UNCHANGED holder
       \/ /\ holder[f] # NoTrans /\ ~Alive(holder[f])
          /\ holder' = [holder EXCEPT ![f] = NoTrans]
          /\ GiveUp
       \/ /\ holder[f] # NoTrans /\ Alive(holder[f])
          /\ Assign(IF inst = NoTrans THEN holder[f] ELSE inst)
    /\ UNCHANGED <<mSocket, sock, owned, fd, from, fresh, mBuffers, i, sendnum, sent>>

\* A failed fetch leaves the packet where it is.
Fetch_retry ==
    /\ at = "test" /\ mPending # <<>> /\ i < sendnum
    /\ LET f == fd[Head(mPending)] IN
       holder[f] # NoTrans /\ Alive(holder[f]) /\ Assign(holder[f])
    /\ UNCHANGED <<mSocket, sock, owned, fd, from, fresh, mBuffers, i, sendnum, sent>>

\* SocketHolder::fetch: no item; an item whose transport is in its destructor,
\* which is removed; or a transport to assign.
Fetch ==
    /\ at = "test" /\ mPending # <<>> /\ i < sendnum
    /\ LET f == fd[Head(mPending)] IN
       \/ holder[f] = NoTrans /\ GiveUp /\ UNCHANGED holder
       \/ /\ holder[f] # NoTrans /\ ~Alive(holder[f])
          /\ holder' = [holder EXCEPT ![f] = NoTrans]
          /\ GiveUp
       \/ holder[f] # NoTrans /\ Alive(holder[f]) /\ Assign(holder[f])
    /\ UNCHANGED <<mSocket, sock, owned, fd, from, fresh, mBuffers, i, sendnum, sent>>

\* doSend on what was fetched; the strong reference keeps it alive even if it
\* has been shut meanwhile.
Send ==
    /\ at = "send"
    /\ sent' = sent \cup {<<Head(mPending), inst>>}
    /\ gone' = Append(gone, Head(mPending))
    /\ mPending' = Tail(mPending)
    /\ i' = i + 1
    /\ at' = "test"
    /\ UNCHANGED <<world, fd, from, fresh, mBuffers, sendnum, inst, dropped>>

threadLoop == Tick \/ Count \/ Fetch \/ Send \/ Done \/ DestroyInst

Next ==
    \/ \E t \in Trans, f \in Fds : Create(t, f)
    \/ \E t \in Trans : Release(t) \/ Destroy(t) \/ HangUp(t)
    \/ \E t \in Trans, b \in Packets : deliver(t, b)
    \/ threadLoop

Spec == Init /\ [][Next]_vars

\* The period event goes on signalling, and the thread runs.
FairSpec == Spec /\ WF_vars(threadLoop)

-----------------------------------------------------------------------------
TypeOK ==
    /\ holder \in [Fds -> Trans \cup {NoTrans}]
    /\ mSocket \in [Trans -> Fds \cup {Closed}]
    /\ sock \in [Trans -> Fds \cup {Closed}]
    /\ owned \subseteq Trans
    /\ fd \in [Packets -> Fds \cup {Closed}]
    /\ from \in [Packets -> Trans \cup {NoTrans}]
    /\ fresh \subseteq Packets
    /\ mBuffers \in Seq(Packets) /\ mPending \in Seq(Packets)
    /\ at \in {"wait", "count", "test", "send", "close", "relock"}
    /\ i \in Nat /\ sendnum \in Nat
    /\ inst \in Trans \cup {NoTrans}
    /\ sent \subseteq Packets \X Trans
    /\ dropped \subseteq Packets
    /\ gone \in Seq(Packets)

\* The sender is an outbox: moving mBuffers behind mPending, counting and
\* fetching are invisible, every other step of the thread deals with the first
\* packet.  No packet is lost, sent twice or overtaken, whatever is delivered,
\* opened and shut meanwhile.
queue == mPending \o mBuffers
Box == INSTANCE Outbox WITH Packets <- Packets, queue <- queue, gone <- gone
ImplementsOutbox == Box!OutboxSpec

\* A tick sends no burst: at most MAX_SENDING_PACKETS packets leave between two
\* waits of the thread, though more may be given up.
NoBurst == i <= MaxSending

\* fetch would find t.
Reachable(t) == Alive(t) /\ \E f \in Fds : holder[f] = t

\* A packet is sent by the transport that handed it over for as long as that
\* one is registered and referred to: a descriptor number that is used again
\* leads packets astray only when their own transport is closed or gone, and
\* the reference the thread still has to another transport never does.
SentByOwner ==
    [][LET b == Head(mPending) IN
       at = "test" /\ mPending # <<>> /\ i < sendnum /\ Reachable(from[b])
          => (at' # "send" /\ mPending' = mPending) \/ inst' = from[b]]_vars

\* A packet that is given up has lost its socket: its transport hung up, is gone
\* or is in its destructor, and nobody else has the number.
DroppedLost == [][\A b \in dropped' \ dropped : ~Reachable(from[b])]_vars

\* Every packet handed over is dealt with, however full the queue is, unless the
\* thread has come to wait for a lock it holds itself (Mutex is not recursive).
AllLeave ==
    \A b \in Packets :
        b \notin fresh ~> (\E k \in DOMAIN gone : gone[k] = b) \/ at = "relock"
=============================================================================
