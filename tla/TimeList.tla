------------------------------ MODULE TimeList ------------------------------
(***************************************************************************)
(* libckits/timeList.c: the timer list of the C event loop.  Unlike the    *)
(* queue of libnet it stores differences: tvRemain of a node counts from   *)
(* the deadline of the node before it, and tvRemain of the first one from  *)
(* the last synchronisation, so that the passing of time is charged to the *)
(* front of the list only.                                                 *)
(*                                                                         *)
(* The list has no lock (THREAD_SAFE is not defined): one thread calls     *)
(* everything.  A handler may add and delete timers while it runs.         *)
(* eventHead is a sentinel that is never due; the delay that a deletion    *)
(* at the end of the list adds to it is not kept.  A token is its node.    *)
(*                                                                         *)
(* X_fault is X with a plausible programming error; it is not part of the  *)
(* specification.                                                          *)
(***************************************************************************)
EXTENDS Lists

CONSTANTS
    Nodes,      \* alarmEventNodes
    None,
    Slack,      \* a timer with less than this to go is up (500 us)
    MaxDelay,   \* longest delay asked for
    MaxTime     \* bound on the clock

ASSUME TimeListAssumption ==
    /\ None \notin Nodes /\ Slack \in Nat \ {0}
    /\ MaxDelay \in Nat /\ MaxTime \in Nat

VARIABLES
    clock,      \* gettimeofday
    list,       \* the nodes, first one first
    tvRemain,   \* of every node
    lastSync,   \* tvLastSync
    running,    \* the node whose handler runs
    deadline,   \* history: when the timer is meant to be up
    lost        \* history: what was cut off its delay when others fired early

vars == <<clock, list, tvRemain, lastSync, running, deadline, lost>>

Init ==
    /\ clock = 0 /\ list = <<>> /\ lastSync = 0 /\ running = None
    /\ tvRemain = [n \in Nodes |-> 0]
    /\ deadline = [n \in Nodes |-> 0] /\ lost = [n \in Nodes |-> 0]

Listed == {list[k] : k \in DOMAIN list}
Unused == Nodes \ (Listed \cup {running})
Place(n) == CHOOSE k \in DOMAIN list : list[k] = n

-----------------------------------------------------------------------------
\* What is left until the k-th timer of s is up, with the remainders rem.
Upto(s, rem, k) ==
    LET sum[j \in 0 .. Len(s)] == IF j = 0 THEN 0 ELSE sum[j - 1] + rem[s[j]]
    IN  sum[k]

Positive(x) == IF x > 0 THEN x ELSE 0

Elapsed == Positive(clock - lastSync)

\* synchronize: the elapsed time is used up from the front of the list.
synchronize ==
    [n \in Nodes |->
        IF n \notin Listed THEN tvRemain[n]
        ELSE LET ahead == Upto(list, tvRemain, Place(n) - 1)
             IN  Positive(tvRemain[n] - Positive(Elapsed - ahead))]

Insert(n, ms, i, rem) ==
    /\ list' = InsertAt(list, i, n)
    /\ tvRemain' =
          [m \in Nodes |->
              CASE m = n -> ms - Upto(list, rem, i - 1)
                [] i <= Len(list) /\ m = list[i] -> Upto(list, rem, i) - ms
                [] OTHER -> rem[m]]

\* Goes past a timer only if it is strictly earlier.
addAlarmEventNode_before(n, ms) ==
    /\ n \in Unused
    /\ LET rem == synchronize IN
       \E i \in 1 .. Len(list) + 1 :
          /\ \A k \in 1 .. i - 1 : Upto(list, rem, k) < ms
          /\ i <= Len(list) => Upto(list, rem, i) >= ms
          /\ Insert(n, ms, i, rem)
    /\ lastSync' = clock
    /\ deadline' = [deadline EXCEPT ![n] = clock + ms]
    /\ lost' = [lost EXCEPT ![n] = 0]
    /\ UNCHANGED <<clock, running>>

\* addAlarmEventNode: behind the timers that are up no later.
addAlarmEventNode(n, ms) ==
    /\ n \in Unused
    /\ LET rem == synchronize IN
       \E i \in 1 .. Len(list) + 1 :
          /\ \A k \in 1 .. i - 1 : Upto(list, rem, k) <= ms
          /\ i <= Len(list) => Upto(list, rem, i) > ms
          /\ Insert(n, ms, i, rem)
    /\ lastSync' = clock
    /\ deadline' = [deadline EXCEPT ![n] = clock + ms]
    /\ lost' = [lost EXCEPT ![n] = 0]
    /\ UNCHANGED <<clock, running>>

\* Leaves the next node as it is.
delAlarmEventNode_short(n) ==
    /\ IF n \in Listed
          THEN /\ list' = RemoveAt(list, Place(n))
               /\ tvRemain' = synchronize
          ELSE list' = list /\ tvRemain' = synchronize
    /\ lastSync' = clock
    /\ UNCHANGED <<clock, running, deadline, lost>>

\* delAlarmEventNode: the next node inherits the difference.  A token that is
\* not in the list only synchronises it.
delAlarmEventNode(n) ==
    /\ LET rem == synchronize
           i == Place(n) IN
       IF n \in Listed
          THEN /\ list' = RemoveAt(list, i)
               /\ tvRemain' = IF i = Len(list) THEN rem
                              ELSE [rem EXCEPT ![list[i + 1]] = @ + rem[n]]
          ELSE list' = list /\ tvRemain' = rem
    /\ lastSync' = clock
    /\ UNCHANGED <<clock, running, deadline, lost>>

\* timeToNextAlarmEvent and dumpTimeList.
Synchronize ==
    /\ tvRemain' = synchronize
    /\ lastSync' = clock
    /\ UNCHANGED <<clock, list, running, deadline, lost>>

\* What handleAlarmEvent sees: it does not synchronise when the first timer
\* has nothing left.
Seen == IF list # <<>> /\ tvRemain[list[1]] = 0 THEN tvRemain ELSE synchronize
SeenAt == IF list # <<>> /\ tvRemain[list[1]] = 0 THEN lastSync ELSE clock

Up_atmost == list # <<>> /\ Seen[list[1]] <= Slack

Up == list # <<>> /\ Seen[list[1]] < Slack

HandleNone ==
    /\ running = None /\ ~Up
    /\ tvRemain' = Seen /\ lastSync' = SeenAt
    /\ UNCHANGED <<clock, list, running, deadline, lost>>

\* handleAlarmEvent: the first timer is unlinked and its handler called.  What
\* little it had left is not given to the next one.
Fire ==
    /\ running = None /\ Up
    /\ running' = list[1]
    /\ list' = Tail(list)
    /\ tvRemain' = Seen /\ lastSync' = SeenAt
    /\ lost' = [n \in Nodes |-> IF n \in Listed \ {list[1]} THEN lost[n] + Seen[list[1]]
                                ELSE lost[n]]
    /\ UNCHANGED <<clock, deadline>>

\* The handler returns and the node is recycled.
Recycle ==
    /\ running # None
    /\ running' = None
    /\ UNCHANGED <<clock, list, tvRemain, lastSync, deadline, lost>>

Tick ==
    /\ clock < MaxTime
    /\ clock' = clock + 1
    /\ UNCHANGED <<list, tvRemain, lastSync, running, deadline, lost>>

-----------------------------------------------------------------------------
Next ==
    \/ \E n \in Nodes, ms \in 0 .. MaxDelay : addAlarmEventNode(n, ms)
    \/ \E n \in Nodes : delAlarmEventNode(n)
    \/ Synchronize \/ HandleNone \/ Fire \/ Recycle
    \/ Tick

Spec == Init /\ [][Next]_vars

-----------------------------------------------------------------------------
\* The differences add up to the deadlines: through any adds, deletions,
\* firings and synchronisations, what is left of a timer is the sum of the
\* remainders up to its node, less what firing others early has cut off.
Representation ==
    \A k \in DOMAIN list :
        LET n == list[k] IN
        Upto(list, tvRemain, k) = Positive(deadline[n] - lost[n] - lastSync)

\* "the time of the first unit is used up" (comment of handleAlarmEvent): no
\* handler runs earlier than the slack of its own node and of the ones that
\* fired before it allow.
NoEarlierThanCut ==
    [][running' \in Nodes /\ running = None =>
          deadline[running'] - clock < Slack + lost[running']]_vars

\* A timer that is up fires or is deleted: one timer is handled per turn of the
\* loop, but even if handlers go on adding timers without delay, and transports
\* are never silent, it is served.
UpFires == \A n \in Nodes :
    (n \in Listed /\ deadline[n] <= clock) ~> (n \notin Listed \/ deadline[n] > clock)
=============================================================================
