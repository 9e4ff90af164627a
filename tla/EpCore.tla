------------------------------- MODULE EpCore -------------------------------
(***************************************************************************)
(* libckits/epCore.c: the C event loop, one thread that waits for the      *)
(* descriptors of its transports and for the timers of a TimeList.  Each   *)
(* turn of epAction handles at most one timer and then the events epoll    *)
(* reported, in order.                                                     *)
(*                                                                         *)
(* Everything else happens inside the callbacks (user code): they add and  *)
(* cancel calls, add and close transports.  They may do so any number of   *)
(* times but return.  An event names a transport by its address, so that   *)
(* an event reported before the transport was closed is still handled      *)
(* after it, even when the transport has another socket by then.  The      *)
(* number of a closed descriptor is free for the next socket.              *)
(*                                                                         *)
(* X_fault is X with a plausible programming error; it is not part of the  *)
(* specification.                                                          *)
(***************************************************************************)
EXTENDS TimeList

CONSTANTS
    Transports, NoTransport,
    Fds, Closed,   \* descriptor numbers, and -1
    MaxEvents      \* MAX_EPOLL_EVENT_NUM

ASSUME EpAssumption ==
    MaxEvents \in Nat \ {0} /\ NoTransport \notin Transports /\ Closed \notin Fds

VARIABLES
    descriptor,  \* of a transport
    epollSet,    \* the kernel: the transport an open descriptor is registered for
    events,      \* what epoll_wait reported and is still to be handled
    loop,        \* the next step of epAction
    wait         \* when the present epoll_wait times out

epVars == <<descriptor, epollSet, events, loop, wait>>
allVars == <<vars, epVars>>

Forever == -1

EpInit ==
    /\ Init
    /\ descriptor = [t \in Transports |-> Closed]
    /\ epollSet = [f \in Fds |-> NoTransport]
    /\ events = <<>> /\ loop = "main" /\ wait = Forever

\* An event is a transport and whether it hung up.  The descriptor it is about
\* and whether the transport was opened anew since are history.
Event == [trans : Transports, hup : BOOLEAN, fd : Fds, again : BOOLEAN]

InUserCode == loop \in {"main", "timer", "read", "close"}

-----------------------------------------------------------------------------
\* A node is taken from the slots; without a free one the call fails.
epCallLater(n, ms) ==
    /\ InUserCode
    /\ addAlarmEventNode(n, ms)
    /\ UNCHANGED epVars

epCancelCall(n) ==
    /\ InUserCode
    /\ delAlarmEventNode(n)
    /\ UNCHANGED epVars

\* The user opens a socket for a transport that has none, and hands it over.
epAddTransport(t, f) ==
    /\ InUserCode /\ descriptor[t] = Closed /\ epollSet[f] = NoTransport
    /\ descriptor' = [descriptor EXCEPT ![t] = f]
    /\ epollSet' = [epollSet EXCEPT ![f] = t]
    /\ events' = [k \in DOMAIN events |->
                     IF events[k].trans = t THEN [events[k] EXCEPT !.again = TRUE]
                                            ELSE events[k]]
    /\ UNCHANGED <<vars, loop, wait>>

\* Keeps the number.
CloseTransport_kept(t) ==
    /\ descriptor[t] # Closed
    /\ epollSet' = [epollSet EXCEPT ![descriptor[t]] = NoTransport]
    /\ UNCHANGED descriptor

\* close() takes the descriptor out of the epoll set, not out of the events
\* already reported; then handleClose is called.
CloseTransport(t) ==
    /\ descriptor[t] # Closed
    /\ epollSet' = [epollSet EXCEPT ![descriptor[t]] = NoTransport]
    /\ descriptor' = [descriptor EXCEPT ![t] = Closed]

epCloseTransport(t) ==
    /\ InUserCode
    /\ CloseTransport(t)
    /\ UNCHANGED <<vars, events, loop, wait>>

-----------------------------------------------------------------------------
\* The timeout of epoll_wait is in whole milliseconds, rounded down.
Millis(us) == us - (us % (2 * Slack))

\* timeToNextAlarmEvent; with no timer the wait is that of the sentinel, which
\* deletions have left with any value.
AskTime ==
    /\ loop = "ask"
    /\ Synchronize
    /\ wait' \in IF list = <<>> THEN {Forever} \cup (clock .. MaxTime)
                 ELSE {clock + Millis(tvRemain'[list[1]])}
    /\ loop' = "wait"
    /\ UNCHANGED <<descriptor, epollSet, events>>

Reported == {e \in Event : e.trans = epollSet[e.fd] /\ ~e.again}
Batches == {b \in UNION {[1 .. m -> Reported] : m \in 0 .. MaxEvents} :
               \A j, k \in DOMAIN b : b[j].fd = b[k].fd => j = k}

\* epoll_wait returns with events, at the timeout (at the bound of the clock at
\* the latest), or by a signal, after which epAction does the same.
EpollEvents ==
    /\ loop = "wait"
    /\ events' \in Batches \ {<<>>}
    /\ loop' = "alarm" /\ wait' = Forever
    /\ UNCHANGED <<vars, descriptor, epollSet>>

EpollTimeout ==
    /\ loop = "wait"
    /\ wait # Forever /\ (wait <= clock \/ clock = MaxTime)
    /\ loop' = "alarm" /\ wait' = Forever
    /\ UNCHANGED <<vars, descriptor, epollSet, events>>

Signal ==
    /\ loop = "wait"
    /\ loop' = "alarm" /\ wait' = Forever
    /\ UNCHANGED <<vars, descriptor, epollSet, events>>

\* handleAlarmEvent.
AlarmNone ==
    /\ loop = "alarm" /\ HandleNone
    /\ loop' = "events"
    /\ UNCHANGED <<descriptor, epollSet, events, wait>>

AlarmFires ==
    /\ loop = "alarm" /\ Fire
    /\ loop' = "timer"
    /\ UNCHANGED <<descriptor, epollSet, events, wait>>

\* epTimeOutHandler recycles the node after the handler.
TimerReturns ==
    /\ loop = "timer" /\ Recycle
    /\ loop' = "events"
    /\ UNCHANGED <<descriptor, epollSet, events, wait>>

\* The next event: a hang-up closes the transport unless it is closed already,
\* everything else goes to handleRead, whatever has become of the transport.
Dispatch ==
    /\ loop = "events" /\ events # <<>>
    /\ events' = Tail(events)
    /\ LET e == Head(events) IN
       \/ e.hup /\ CloseTransport(e.trans) /\ loop' = "close"
       \/ /\ e.hup /\ descriptor[e.trans] = Closed
          /\ UNCHANGED <<descriptor, epollSet, loop>>
       \/ ~e.hup /\ loop' = "read" /\ UNCHANGED <<descriptor, epollSet>>
    /\ UNCHANGED <<vars, wait>>

\* A callback returns, or main enters epAction.
Return ==
    /\ loop \in {"read", "close", "main"}
    /\ loop' = IF loop = "main" THEN "ask" ELSE "events"
    /\ UNCHANGED <<vars, descriptor, epollSet, events, wait>>

TurnDone ==
    /\ loop = "events" /\ events = <<>>
    /\ loop' = "ask"
    /\ UNCHANGED <<vars, descriptor, epollSet, events, wait>>

EpTick == Tick /\ UNCHANGED epVars

epAction ==
    \/ AskTime \/ EpollTimeout \/ AlarmNone \/ AlarmFires \/ TimerReturns
    \/ Dispatch \/ Return \/ TurnDone

UserCode ==
    \/ \E n \in Nodes, ms \in 0 .. MaxDelay : epCallLater(n, ms)
    \/ \E n \in Nodes : epCancelCall(n)
    \/ \E t \in Transports, f \in Fds : epAddTransport(t, f)
    \/ \E t \in Transports : epCloseTransport(t)

EpNext == epAction \/ EpollEvents \/ Signal \/ UserCode \/ EpTick

EpSpec == EpInit /\ [][EpNext]_allVars

\* The thread runs, callbacks return and time passes; nothing need ever happen
\* on a transport.
EpFairSpec == EpSpec /\ WF_allVars(epAction) /\ WF_allVars(EpTick)

-----------------------------------------------------------------------------
\* A hang-up closes the very socket it was reported for, whatever callbacks have
\* closed and opened between the report and its turn: not one of another
\* transport that has got the number meanwhile.  The exception is a transport
\* that was itself opened anew in that time: the event names the transport, and
\* closes its new socket.
HangUpClosesOwn ==
    [][\A f \in Fds :
          loop = "events" /\ epollSet[f] # NoTransport /\ epollSet'[f] = NoTransport
             => LET e == Head(events) IN e.again \/ (e.fd = f /\ e.trans = epollSet[f])]_allVars
=============================================================================
