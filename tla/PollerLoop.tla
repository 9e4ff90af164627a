----------------------------- MODULE PollerLoop -----------------------------
(***************************************************************************)
(* libnet/Poller.cpp: SocketPoller::threadLoop and the timers it serves.   *)
(* The thread asks its queue for the next deadline, sleeps in epoll_wait   *)
(* for as long as that allows, handles the due events and starts again.    *)
(* A client that adds an event while the thread sleeps (or is about to)    *)
(* must make it look again: AddTimedCallback and AddPeriodSignal write a   *)
(* word into the wake pipe, whose read end is one of the descriptors that  *)
(* epoll_wait watches.                                                     *)
(*                                                                         *)
(* The queue is TimedEventQ with one poller, the thread.  What the thread  *)
(* does for the other descriptors is in SocketCore; here they only make    *)
(* epoll_wait return early (Traffic).  The clock counts milliseconds, and  *)
(* what _usec/1000 cuts off makes the wait up to one of them shorter.      *)
(*                                                                         *)
(* X_fault is X with a plausible programming error, as in TimedEventQ.     *)
(***************************************************************************)
EXTENDS TimedEventQ

CONSTANTS
    PipeCap,   \* words the pipe can hold
    ReadMax    \* words one handleRead takes out of it

ASSUME LoopAssumption == PipeCap \in Nat \ {0} /\ ReadMax \in Nat \ {0}

VARIABLES
    waking,    \* per client: its event is listed, its wake() is still to come
    pipe,      \* words in the wake pipe
    loop,      \* the next step of threadLoop
    next,      \* absTime: the deadline timeToNextEvent found
    timeOut,   \* the argument of epoll_wait
    plan,      \* when the thread means to look again
    ready      \* epoll_wait reported the wake pipe

loopVars == <<pipe, loop, next, timeOut, plan, ready>>
allVars == <<vars, waking, loopVars>>

\* TV_INFINITY, and a negative argument of epoll_wait.
Forever == -1

LoopInit ==
    /\ Init
    /\ waking = [c \in Clients |-> FALSE]
    /\ pipe = 0 /\ loop = "ask" /\ next = Forever /\ timeOut = Forever
    /\ plan = Forever /\ ready = FALSE

-----------------------------------------------------------------------------
\* AddTimedCallback and AddPeriodSignal: a delay of zero is BAD_VALUE.
AddTimed(c) ==
    /\ ~waking[c]
    /\ \E u \in Units, ms \in Delays \ {0} :
          addLaterEvent(c, u, ms) \/ addPeriodEvent(c, u, ms)
    /\ UNCHANGED <<waking, loopVars>>

AddSteps(c) ==
    /\ Insert(c) \/ Number(c)
    /\ UNCHANGED <<waking, loopVars>>

\* The id is never -1 once the event is listed, so wake() is always called.
AddReturns(c) ==
    /\ Return(c)
    /\ waking' = [waking EXCEPT ![c] = TRUE]
    /\ UNCHANGED loopVars

\* Leaves it to the thread to look at the queue.
Wake_never(c) ==
    /\ waking[c]
    /\ waking' = [waking EXCEPT ![c] = FALSE]
    /\ UNCHANGED <<vars, loopVars>>

\* write() to a full non-blocking pipe fails, and the result is ignored.
Wake(c) ==
    /\ waking[c]
    /\ waking' = [waking EXCEPT ![c] = FALSE]
    /\ pipe' = IF pipe < PipeCap THEN pipe + 1 ELSE pipe
    /\ UNCHANGED <<vars, loop, next, timeOut, plan, ready>>

DiscardEvent(c) ==
    /\ ~waking[c]
    /\ \E token \in Tokens : delTimedEvent(c, token)
    /\ UNCHANGED <<waking, loopVars>>

-----------------------------------------------------------------------------
\* abstimeToNextEvent, under the lock of the queue.
Ask ==
    /\ loop = "ask"
    /\ next' = IF mList = <<>> THEN Forever ELSE tvAbsolute[Head(mList)]
    /\ loop' = "clock"
    /\ UNCHANGED <<vars, waking, pipe, timeOut, plan, ready>>

\* With no event the interval is what is left of the 31-bit seconds: times
\* 1000 it overflows, and the wait is any length at all, or endless.
WaitFor(d) ==
    IF d = Forever THEN {Forever} \cup (0 .. MaxTime)
    ELSE IF d <= clock THEN {0}
    ELSE {d - clock, d - clock - 1}

\* The rest of timeToNextEvent: gettimeofday and time_interval.
ReadClock ==
    /\ loop = "clock"
    /\ timeOut' \in WaitFor(next)
    /\ plan' = IF timeOut' = Forever THEN Forever ELSE clock + timeOut'
    /\ loop' = "enter"
    /\ UNCHANGED <<vars, waking, pipe, next, ready>>

\* Takes a timeout of zero for an endless one.
EnterWait_zero ==
    /\ loop = "enter"
    /\ plan' = IF timeOut <= 0 THEN Forever ELSE clock + timeOut
    /\ loop' = "wait"
    /\ UNCHANGED <<vars, waking, pipe, next, timeOut, ready>>

\* The timeout counts from here, however long ago the clock was read.
EnterWait ==
    /\ loop = "enter"
    /\ plan' = IF timeOut = Forever THEN Forever ELSE clock + timeOut
    /\ loop' = "wait"
    /\ UNCHANGED <<vars, waking, pipe, next, timeOut, ready>>

\* The locals of one turn of the loop are dead once epoll_wait has returned.
Forget == next' = Forever /\ timeOut' = Forever /\ plan' = Forever

\* The clock stops at its bound: a wait that would end later ends there.
TimeOver == plan # Forever /\ (plan <= clock \/ clock = MaxTime)

\* epoll_wait returns: the pipe is readable, or the time is over.
WakeUp ==
    /\ loop = "wait"
    /\ pipe > 0 \/ TimeOver
    /\ ready' = (pipe > 0)
    /\ loop' = "alarm"
    /\ Forget
    /\ UNCHANGED <<vars, waking, pipe>>

\* Another descriptor has an event, or a signal interrupts the wait.
Traffic ==
    /\ loop = "wait" /\ pipe = 0
    /\ ready' = FALSE
    /\ loop' = "alarm"
    /\ Forget
    /\ UNCHANGED <<vars, waking, pipe>>

\* handleAlarmEvent finds nothing due, or takes what is due.
AlarmNone ==
    /\ loop = "alarm" /\ DuePrefix(0)
    /\ loop' = "events"
    /\ UNCHANGED <<vars, waking, pipe, next, timeOut, plan, ready>>

AlarmCollect(p) ==
    /\ loop = "alarm" /\ Collect(p)
    /\ loop' = "handling"
    /\ UNCHANGED <<waking, pipe, next, timeOut, plan, ready>>

AlarmHandle(p) ==
    /\ loop = "handling" /\ HandleEntry(p)
    /\ UNCHANGED <<waking, loopVars>>

AlarmDone(p) ==
    /\ loop = "handling" /\ stage[p] = "idle" /\ batch[p] = <<>>
    /\ loop' = "events"
    /\ UNCHANGED <<vars, waking, pipe, next, timeOut, plan, ready>>

\* wakePipe::handleRead, when it was reported, and back to the start.
HandleEvents ==
    /\ loop = "events"
    /\ pipe' = IF ~ready THEN pipe
               ELSE IF pipe > ReadMax THEN pipe - ReadMax ELSE 0
    /\ loop' = "ask"
    /\ ready' = FALSE
    /\ UNCHANGED <<vars, waking, next, timeOut, plan>>

LoopTick == Tick /\ UNCHANGED <<waking, loopVars>>

-----------------------------------------------------------------------------
ClientSteps(c) == AddSteps(c) \/ AddReturns(c) \/ Wake(c)

\* Every step of the thread but the ones somebody else must cause.
ThreadSteps ==
    \/ Ask \/ ReadClock \/ EnterWait \/ WakeUp \/ AlarmNone \/ HandleEvents
    \/ \E p \in Pollers : AlarmCollect(p) \/ AlarmHandle(p) \/ AlarmDone(p)

LoopNext ==
    \/ \E c \in Clients : AddTimed(c) \/ ClientSteps(c) \/ DiscardEvent(c)
    \/ ThreadSteps \/ Traffic
    \/ LoopTick

LoopSpec == LoopInit /\ [][LoopNext]_allVars

\* Both kinds of thread run, and time passes.
LoopFairness ==
    /\ \A c \in Clients : WF_allVars(ClientSteps(c))
    /\ WF_allVars(ThreadSteps)
    /\ WF_allVars(LoopTick)

LoopFairSpec == LoopSpec /\ LoopFairness

-----------------------------------------------------------------------------
LoopTypeOK ==
    /\ TypeOK
    /\ waking \in [Clients -> BOOLEAN]
    /\ pipe \in 0 .. PipeCap
    /\ loop \in {"ask", "clock", "enter", "wait", "alarm", "handling", "events"}
    /\ next \in Nat \cup {Forever} /\ timeOut \in Nat \cup {Forever}
    /\ plan \in Nat \cup {Forever}
    /\ ready \in BOOLEAN

\* A word in the pipe, or a client on its way to write one.
WakeComing ==
    \/ pipe > 0
    \/ \E c \in Clients : waking[c] \/ pc[c] \in {"number", "return"}

\* The deadline the thread has in mind is that of the first event or an
\* earlier one, whatever was added, discarded or armed again since it asked;
\* if not, it will be woken.  A thread that sleeps without end sleeps for an
\* empty list.
Attentive ==
    loop \in {"clock", "enter", "wait"} /\ mList # <<>> =>
        WakeComing \/ (next # Forever /\ next <= tvAbsolute[Head(mList)])

\* When epoll_wait is entered at the moment the clock was read, the thread
\* looks again no later than the first deadline.
NoOversleep ==
    loop = "enter" /\ mList # <<>> =>
        \/ WakeComing
        \/ plan # Forever /\ (plan <= tvAbsolute[Head(mList)] \/ timeOut = 0)

\* No due event is left on the list: the sleeping thread wakes for it even
\* when it was added behind its back.
DueIsServed == \A u \in Units : Due(u) ~> ~Due(u)

=============================================================================
