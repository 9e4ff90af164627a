------------------------- MODULE SocketSenderProofs -------------------------
(***************************************************************************)
(* SocketSender is an Outbox, sends no bursts and routes packets to their  *)
(* owner, for every number of packets, transports and descriptors.         *)
(***************************************************************************)
EXTENDS SocketSender, SequenceTheorems, TLAPS

USE SenderAssumption

\* The counters stay in range and a packet is at hand when one is sent.
LoopInv ==
    /\ at = "send" => mPending # <<>> /\ i < sendnum /\ inst \in Trans
    /\ at = "close" => inst \in Trans
    /\ sendnum <= MaxSending /\ i <= sendnum

\* The holder and the transports agree.
HolderInv == \A f \in Fds : holder[f] # NoTrans => mSocket[holder[f]] = f

\* Who is owned was created.
OwnedInv == \A t \in owned : mSocket[t] \in Fds

Marked(b) == from[b] \in Trans /\ fd[b] \in Fds /\ mSocket[from[b]] = fd[b]

\* A packet handed over carries the socket its transport was created with.
AllMarked == \A b \in Packets \ fresh : Marked(b)

InFlight ==
    /\ \A k \in DOMAIN mBuffers : mBuffers[k] \notin fresh
    /\ \A k \in DOMAIN mPending : mPending[k] \notin fresh

SenderInv == TypeOK /\ LoopInv /\ HolderInv /\ OwnedInv /\ AllMarked /\ InFlight

-----------------------------------------------------------------------------
\* Appending behind and taking from the front of a concatenation.
LEMMA ConcatAppend ==
    ASSUME NEW S, NEW s \in Seq(S), NEW t \in Seq(S), NEW e \in S
    PROVE  s \o Append(t, e) = Append(s \o t, e)
  BY SMT, SMTT(30)

LEMMA ConcatTail ==
    ASSUME NEW S, NEW s \in Seq(S), NEW t \in Seq(S), s # <<>>
    PROVE  /\ s \o t # <<>>
           /\ Head(s \o t) = Head(s)
           /\ Tail(s \o t) = Tail(s) \o t
  BY SMT, SMTT(30)

LEMMA HeadAndTail ==
    ASSUME NEW S, NEW s \in Seq(S), s # <<>>
    PROVE  /\ Head(s) \in S /\ 1 \in DOMAIN s /\ Head(s) = s[1]
           /\ Tail(s) \in Seq(S) /\ Tail(s) # s
           /\ \A k \in DOMAIN Tail(s) : k + 1 \in DOMAIN s /\ Tail(s)[k] = s[k + 1]
  BY SMT, SMTT(30)

LEMMA Appended ==
    ASSUME NEW S, NEW s \in Seq(S), NEW e \in S
    PROVE  /\ Append(s, e) \in Seq(S)
           /\ \A k \in DOMAIN Append(s, e) :
                 \/ k \in DOMAIN s /\ Append(s, e)[k] = s[k]
                 \/ Append(s, e)[k] = e
  BY SMT, SMTT(30)

LEMMA Concatenated ==
    ASSUME NEW S, NEW s \in Seq(S), NEW t \in Seq(S)
    PROVE  /\ s \o t \in Seq(S)
           /\ \A k \in DOMAIN (s \o t) :
                 \/ k \in DOMAIN s /\ (s \o t)[k] = s[k]
                 \/ \E m \in DOMAIN t : (s \o t)[k] = t[m]
  BY SMT, SMTT(30)

-----------------------------------------------------------------------------
\* The packet that is next has a socket to look up.
LEMMA HeadMarked ==
    SenderInv /\ mPending # <<>> =>
        /\ Head(mPending) \in Packets \ fresh
        /\ Tail(mPending) \in Seq(Packets)
        /\ Marked(Head(mPending))
        /\ holder[fd[Head(mPending)]] \in Trans \cup {NoTrans}
<1> SUFFICES ASSUME SenderInv, mPending # <<>>
             PROVE  /\ Head(mPending) \in Packets \ fresh
                    /\ Tail(mPending) \in Seq(Packets)
                    /\ Marked(Head(mPending))
                    /\ holder[fd[Head(mPending)]] \in Trans \cup {NoTrans}
  OBVIOUS
<1>1. Head(mPending) \in Packets \ fresh /\ Tail(mPending) \in Seq(Packets)
  BY SMT, SMTT(30), HeadAndTail DEF SenderInv, TypeOK, InFlight
<1>2. Marked(Head(mPending))
  BY <1>1 DEF SenderInv, AllMarked
<1> QED BY <1>1, <1>2 DEF SenderInv, TypeOK, Marked

\* The outcomes of a fetch: a transport to send with, a thread that waits for
\* itself, or a packet given up.
LEMMA FetchStep ==
    SenderInv /\ Fetch =>
        /\ mPending # <<>> /\ i < sendnum
        /\ UNCHANGED <<mSocket, sock, owned, fd, from, fresh, mBuffers, i, sendnum, sent>>
        /\ \/ /\ \/ at' = "send" /\ inst' \in Trans
                 \/ at' = "relock" /\ inst' = inst
              /\ at' = "send" => inst' = holder[fd[Head(mPending)]]
              /\ UNCHANGED <<holder, mPending, dropped, gone>>
           \/ /\ at' = "test" /\ inst' = inst
              /\ \/ holder[fd[Head(mPending)]] = NoTrans
                 \/ ~Alive(holder[fd[Head(mPending)]])
              /\ holder' \in {holder, [holder EXCEPT ![fd[Head(mPending)]] = NoTrans]}
              /\ mPending' = Tail(mPending)
              /\ dropped' = dropped \cup {Head(mPending)}
              /\ gone' = Append(gone, Head(mPending))
  BY ZenonT(30), HeadMarked DEF Fetch, GiveUp, Assign

LEMMA TypeStep == SenderInv /\ [Next]_vars => TypeOK'
<1> SUFFICES ASSUME SenderInv, TypeOK, LoopInv, [Next]_vars PROVE TypeOK'
  BY ZenonT(30) DEF SenderInv
<1>1. ASSUME NEW t \in Trans, NEW f \in Fds, Create(t, f) PROVE TypeOK'
  BY <1>1 DEF TypeOK, Create, senderVars, history
<1>2. ASSUME NEW t \in Trans, Release(t) \/ Destroy(t) \/ HangUp(t) PROVE TypeOK'
  <2>1. CASE Release(t)
    BY SMT, SMTT(30), <2>1 DEF TypeOK, Release, senderVars, history
  <2>2. CASE Destroy(t) \/ HangUp(t)
    BY SMT, SMTT(30), <2>2
    DEF TypeOK, Destroy, HangUp, CloseSocket, Without, senderVars, history
  <2> QED BY <1>2, <2>1, <2>2
<1>3. ASSUME NEW t \in Trans, NEW b \in Packets, deliver(t, b) PROVE TypeOK'
  BY ZenonT(30), <1>3, Appended DEF TypeOK, deliver, history, world
<1>4. CASE Tick
  BY SMT, SMTT(30), <1>4, Concatenated DEF TypeOK, Tick, history, world
<1>5. CASE Count
  BY SMT, SMTT(30), <1>5 DEF TypeOK, Count, history, world
<1>6. CASE Done
  BY SMT, SMTT(30), <1>6 DEF TypeOK, Done, history, world
<1>10. CASE DestroyInst
  <2>1. holder' \in [Fds -> Trans \cup {NoTrans}] /\ sock' \in [Trans -> Fds \cup {Closed}]
    <3>1. /\ holder' = [f \in Fds |-> IF holder[f] = inst THEN NoTrans ELSE holder[f]]
          /\ sock' = [sock EXCEPT ![inst] = Closed]
      BY ZenonT(30), <1>10 DEF DestroyInst, CloseSocket, Without
    <3>2. /\ holder \in [Fds -> Trans \cup {NoTrans}] /\ sock \in [Trans -> Fds \cup {Closed}]
          /\ inst \in Trans
      BY <1>10 DEF TypeOK, LoopInv, DestroyInst
    <3>3. holder' \in [Fds -> Trans \cup {NoTrans}]
      BY ONLY SMT, SMTT(30), <3>1, <3>2
    <3>4. sock' \in [Trans -> Fds \cup {Closed}]
      BY ONLY SMT, SMTT(30), <3>1, <3>2
    <3> QED BY <3>3, <3>4
  <2> QED BY ZenonT(30), <1>10, <2>1 DEF TypeOK, DestroyInst, history
<1>7. CASE Fetch
  <2>1. mPending' \in Seq(Packets) /\ gone' \in Seq(Packets) /\ dropped' \subseteq Packets
    <3>1. Head(mPending) \in Packets /\ Tail(mPending) \in Seq(Packets)
      BY ZenonT(30), <1>7, HeadMarked, FetchStep
    <3>2. Append(gone, Head(mPending)) \in Seq(Packets)
      BY <3>1, Appended DEF TypeOK
    <3> QED BY <1>7, <3>1, <3>2, FetchStep, ZenonT(30) DEF TypeOK
  <2>2. inst' \in Trans \cup {NoTrans} /\ at' \in {"test", "send", "relock"}
    BY ZenonT(30), <1>7, FetchStep DEF TypeOK
  <2>3. holder' \in [Fds -> Trans \cup {NoTrans}]
    <3>1. holder' = holder \/ \E f : holder' = [holder EXCEPT ![f] = NoTrans]
      BY ZenonT(30), <1>7 DEF Fetch, Assign
    <3> QED BY SMT, SMTT(30), <3>1 DEF TypeOK
  <2> QED BY ZenonT(30), <1>7, <2>1, <2>2, <2>3, FetchStep DEF TypeOK
<1>8. CASE Send
  <2>1. Head(mPending) \in Packets /\ Tail(mPending) \in Seq(Packets)
    BY ZenonT(30), <1>8, HeadAndTail DEF TypeOK, Send, LoopInv
  <2> QED BY SMT, SMTT(30), <1>8, <2>1 DEF TypeOK, Send, LoopInv, world
<1>9. CASE UNCHANGED vars
  BY <1>9 DEF TypeOK, vars, senderVars, history, world
<1> QED BY <1>1, <1>2, <1>3, <1>4, <1>5, <1>6, <1>7, <1>8, <1>9, <1>10
    DEF Next, threadLoop

LEMMA LoopStep == SenderInv /\ [Next]_vars => LoopInv'
<1> SUFFICES ASSUME SenderInv, TypeOK, LoopInv, [Next]_vars PROVE LoopInv'
  BY DEF SenderInv
<1>1. CASE UNCHANGED senderVars
  BY ZenonT(30), <1>1 DEF LoopInv, senderVars
<1>2. ASSUME NEW t \in Trans, NEW b \in Packets, deliver(t, b) PROVE LoopInv'
  BY <1>2 DEF LoopInv, deliver
<1>3. CASE Tick \/ Count \/ Done \/ DestroyInst
  BY SMT, SMTT(30), <1>3 DEF LoopInv, TypeOK, Tick, Count, Done, LastOpen, DestroyInst
<1>4. CASE Fetch
  BY <1>4, FetchStep DEF LoopInv, TypeOK
<1>5. CASE Send
  BY SMT, SMTT(30), <1>5 DEF LoopInv, TypeOK, Send
<1> QED
  BY <1>1, <1>2, <1>3, <1>4, <1>5
  DEF Next, threadLoop, Create, HangUp, Destroy, Release, vars

\* Items only go, but for the one of a transport that is created.
LEMMA OwnerStep ==
    TypeOK /\ HolderInv /\ OwnedInv /\ AllMarked /\ [Next]_vars
        => HolderInv' /\ OwnedInv' /\ AllMarked'
<1> SUFFICES ASSUME TypeOK, HolderInv, OwnedInv, AllMarked, [Next]_vars
             PROVE  HolderInv' /\ OwnedInv' /\ AllMarked'
  OBVIOUS
<1>1. ASSUME NEW t \in Trans, NEW f \in Fds, Create(t, f)
      PROVE  HolderInv' /\ OwnedInv' /\ AllMarked'
  <2>1. HolderInv'
    BY SMT, SMTT(30), <1>1 DEF HolderInv, TypeOK, Create
  <2>2. OwnedInv'
    BY SMT, SMTT(30), <1>1 DEF OwnedInv, TypeOK, Create
  <2>3. AllMarked'
    BY SMT, SMTT(30), <1>1 DEF AllMarked, Marked, TypeOK, Create
  <2> QED BY <2>1, <2>2, <2>3
<1>2. ASSUME UNCHANGED <<mSocket, fd, from, fresh>>, owned' \subseteq owned,
             \A f \in Fds : holder'[f] \in {holder[f], NoTrans}
      PROVE  HolderInv' /\ OwnedInv' /\ AllMarked'
  BY ZenonT(30), <1>2 DEF HolderInv, OwnedInv, AllMarked, Marked
<1>3. ASSUME NEW t \in Trans, Release(t) \/ Destroy(t) \/ HangUp(t)
      PROVE  HolderInv' /\ OwnedInv' /\ AllMarked'
  BY SMT, SMTT(30), <1>2, <1>3 DEF TypeOK, Release, Destroy, HangUp, CloseSocket, Without
<1>4. ASSUME NEW t \in Trans, NEW b \in Packets, deliver(t, b)
      PROVE  HolderInv' /\ OwnedInv' /\ AllMarked'
  BY SMT, SMTT(30), <1>4
  DEF HolderInv, OwnedInv, AllMarked, Marked, TypeOK, deliver, world
<1>5. CASE Fetch
  <2>1. UNCHANGED <<mSocket, owned, fd, from, fresh>>
    BY ZenonT(30), <1>5 DEF Fetch
  <2>2. holder' = holder \/ \E f : holder' = [holder EXCEPT ![f] = NoTrans]
    BY ZenonT(30), <1>5 DEF Fetch, Assign
  <2> QED BY SMT, SMTT(30), <1>2, <2>1, <2>2 DEF TypeOK
<1>6. CASE DestroyInst
  BY SMT, SMTT(30), <1>2, <1>6 DEF TypeOK, DestroyInst, CloseSocket, Without
<1>7. CASE Tick \/ Count \/ Send \/ Done \/ UNCHANGED vars
  <2>1. UNCHANGED <<world, fd, from, fresh>>
    BY ZenonT(30), <1>7 DEF Tick, Count, Done, Send, vars
  <2> QED BY ZenonT(30), <2>1 DEF HolderInv, OwnedInv, AllMarked, Marked, world
<1> QED BY <1>1, <1>3, <1>4, <1>5, <1>6, <1>7 DEF Next, threadLoop

LEMMA FlightStep == TypeOK /\ LoopInv /\ InFlight /\ [Next]_vars => InFlight'
<1> SUFFICES ASSUME TypeOK, LoopInv, InFlight, [Next]_vars PROVE InFlight'
  OBVIOUS
<1>1. CASE UNCHANGED <<mBuffers, mPending, fresh>>
  BY ZenonT(30), <1>1 DEF InFlight
<1>2. ASSUME NEW t \in Trans, NEW b \in Packets, deliver(t, b) PROVE InFlight'
  BY SMT, SMTT(30), <1>2, Appended DEF InFlight, TypeOK, deliver
<1>3. CASE Tick
  BY SMT, SMTT(30), <1>3, Concatenated DEF InFlight, TypeOK, Tick
<1>4. CASE Fetch \/ Send
  <2>1. mPending # <<>> /\ UNCHANGED <<mBuffers, fresh>>
        /\ mPending' \in {mPending, Tail(mPending)}
    BY ZenonT(30), <1>4 DEF Fetch, GiveUp, Assign, Send, LoopInv
  <2>2. \A k \in DOMAIN Tail(mPending) :
           k + 1 \in DOMAIN mPending /\ Tail(mPending)[k] = mPending[k + 1]
    BY <2>1, HeadAndTail DEF TypeOK
  <2> QED BY ZenonT(30), <2>1, <2>2 DEF InFlight
<1> QED
  BY ZenonT(30), <1>1, <1>2, <1>3, <1>4
  DEF Next, threadLoop, Create, HangUp, Destroy, Release, Count, Done, DestroyInst, vars,
      senderVars

THEOREM SenderInvariance == Spec => []SenderInv
<1>1. Init => SenderInv
  BY SMT, SMTT(30) DEF Init, SenderInv, TypeOK, LoopInv, HolderInv, OwnedInv, AllMarked,
                        InFlight
<1>2. SenderInv /\ [Next]_vars => SenderInv'
  BY TypeStep, LoopStep, OwnerStep, FlightStep DEF SenderInv
<1> QED BY <1>1, <1>2, PTL DEF Spec

-----------------------------------------------------------------------------
\* Type correctness of the sender's state: in particular both lists hold packets
\* only, however many transports and packets there are.
THEOREM SenderTyped == Spec => []TypeOK
<1>1. SenderInv => TypeOK
  BY ZenonT(30) DEF SenderInv
<1> QED BY <1>1, SenderInvariance, PTL

\* No tick sends more than MAX_SENDING_PACKETS packets.
THEOREM NoBurstHolds == Spec => []NoBurst
<1>1. SenderInv => NoBurst
  BY SMT, SMTT(30) DEF SenderInv, TypeOK, LoopInv, NoBurst
<1> QED BY <1>1, SenderInvariance, PTL

\* What one step does to the concatenation of the two lists.
LEMMA OutboxStep == SenderInv /\ [Next]_vars => [Box!OutboxNext]_<<queue, gone>>
<1> SUFFICES ASSUME SenderInv, TypeOK, LoopInv, [Next]_vars
             PROVE  [Box!OutboxNext]_<<queue, gone>>
  BY DEF SenderInv
<1>1. CASE UNCHANGED <<mBuffers, mPending, gone>>
  BY ZenonT(30), <1>1 DEF queue
<1>2. ASSUME NEW t \in Trans, NEW b \in Packets, deliver(t, b)
      PROVE  Box!OutboxNext
  <2>1. queue' = Append(queue, b) /\ gone' = gone
    BY ONLY SMT, SMTT(30), <1>2, ConcatAppend DEF TypeOK, deliver, queue, history
  <2> QED BY ZenonT(30), <2>1 DEF Box!OutboxNext, Box!Put
<1>3. CASE Tick
  <2>1. mBuffers' = <<>> /\ mPending' = mPending \o mBuffers /\ gone' = gone
    BY <1>3 DEF Tick, history
  <2>2. (mPending \o mBuffers) \o <<>> = mPending \o mBuffers
    BY SMT, SMTT(30) DEF TypeOK
  <2> QED BY <2>1, <2>2 DEF queue
<1>4. ASSUME mPending # <<>>, mPending' = Tail(mPending), mBuffers' = mBuffers,
             gone' = Append(gone, Head(mPending))
      PROVE  Box!OutboxNext
  <2>1. queue # <<>> /\ queue' = Tail(queue) /\ Head(queue) = Head(mPending)
    <3>1. mPending \in Seq(Packets) /\ mBuffers \in Seq(Packets)
      BY DEF TypeOK
    <3>2. /\ queue # <<>> /\ Head(queue) = Head(mPending)
          /\ Tail(queue) = Tail(mPending) \o mBuffers
      BY ZenonT(30), <1>4, <3>1, ConcatTail DEF queue
    <3> QED BY <1>4, <3>2, ZenonT(30) DEF queue
  <2> QED BY <1>4, <2>1 DEF Box!OutboxNext, Box!Take
<1>5. CASE Fetch
  BY ZenonT(30), <1>1, <1>4, <1>5, FetchStep
<1>6. CASE Send
  BY <1>4, <1>6 DEF Send, LoopInv
<1> QED
  BY ZenonT(30), <1>1, <1>2, <1>3, <1>5, <1>6
  DEF Next, threadLoop, Create, HangUp, Destroy, Release, Count, Done, DestroyInst, vars,
      senderVars, history

\* SocketSender implements Outbox: in spite of the two lists and of sockets
\* that vanish, every packet leaves once and in the order of the deliveries.
THEOREM SenderImplementsOutbox == Spec => ImplementsOutbox
<1>1. Init => Box!OutboxInit
  BY SMT, SMTT(30) DEF Init, Box!OutboxInit, queue
<1> QED
  BY <1>1, OutboxStep, SenderInvariance, PTL
  DEF Spec, ImplementsOutbox, Box!OutboxSpec, Box!outbox

\* The lookup by descriptor finds the transport that handed the packet over,
\* whenever that one is registered and alive.
LEMMA LookupFindsOwner ==
    SenderInv => \A b \in Packets \ fresh : Reachable(from[b]) => holder[fd[b]] = from[b]
<1> SUFFICES ASSUME SenderInv, NEW b \in Packets \ fresh, Reachable(from[b])
             PROVE  holder[fd[b]] = from[b]
  OBVIOUS
<1>1. PICK f \in Fds : holder[f] = from[b]
  BY DEF Reachable
<1>2. Marked(b)
  BY ZenonT(30) DEF SenderInv, AllMarked
<1>3. mSocket[from[b]] = f
  BY <1>1, <1>2 DEF SenderInv, HolderInv, Marked
<1> QED BY <1>1, <1>2, <1>3 DEF Marked

\* A packet whose transport is registered and alive is sent by that transport.
THEOREM SentByOwnerHolds == Spec => SentByOwner
<1> DEFINE G == LET b == Head(mPending) IN
       at = "test" /\ mPending # <<>> /\ i < sendnum /\ Reachable(from[b])
          => (at' # "send" /\ mPending' = mPending) \/ inst' = from[b]
<1>1. SenderInv /\ [Next]_vars => G
  <2> SUFFICES ASSUME SenderInv, [Next]_vars, at = "test", mPending # <<>>,
                      i < sendnum, Reachable(from[Head(mPending)])
               PROVE  \/ at' # "send" /\ mPending' = mPending
                      \/ inst' = from[Head(mPending)]
    BY ZenonT(30)
  <2>1. CASE Fetch
    <3>1. holder[fd[Head(mPending)]] = from[Head(mPending)]
      BY ZenonT(30), HeadMarked, LookupFindsOwner
    <3>2. from[Head(mPending)] # NoTrans
      BY ZenonT(30), HeadMarked DEF Marked
    <3>3. Alive(from[Head(mPending)])
      BY DEF Reachable
    <3> QED BY ZenonT(30), <2>1, <3>1, <3>2, <3>3, FetchStep
  <2>2. CASE Done
    BY SMT, SMTT(30), <2>2 DEF Done, SenderInv, TypeOK
  <2> QED
    BY ZenonT(30), <2>1, <2>2
    DEF Next, threadLoop, Create, HangUp, Destroy, Release, deliver, Tick, Count, Send,
        DestroyInst, vars, senderVars
<1> QED BY <1>1, SenderInvariance, PTL DEF Spec, SentByOwner

\* A packet is given up only when its transport is not registered or is dying.
THEOREM DroppedLostHolds == Spec => DroppedLost
<1>1. SenderInv /\ [Next]_vars => \A b \in dropped' \ dropped : ~Reachable(from[b])
  <2> SUFFICES ASSUME SenderInv, [Next]_vars, NEW b \in dropped' \ dropped
               PROVE  ~Reachable(from[b])
    BY ZenonT(30)
  <2>1. Fetch
    BY ZenonT(30) DEF Next, threadLoop, Create, HangUp, Destroy, Release, deliver, Tick, Count,
           Done, DestroyInst, Send, vars, history
  <2>2. /\ b = Head(mPending) /\ mPending # <<>>
        /\ holder[fd[b]] = NoTrans \/ ~Alive(holder[fd[b]])
    BY <2>1, FetchStep
  <2>3. b \in Packets \ fresh /\ from[b] # NoTrans
    BY ZenonT(30), <2>2, HeadMarked DEF Marked
  <2>4. Reachable(from[b]) => Alive(from[b])
    BY ZenonT(30) DEF Reachable
  <2> QED BY ZenonT(30), <2>2, <2>3, <2>4, LookupFindsOwner
<1> QED BY <1>1, SenderInvariance, PTL DEF Spec, DroppedLost
=============================================================================
