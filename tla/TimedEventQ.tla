---------------------------- MODULE TimedEventQ ----------------------------
(***************************************************************************)
(* libnet/absTimerList.cpp: the queue of timed events shared by the        *)
(* threads that add and discard events (Clients) and the threads that call *)
(* handleAlarmEvent (Pollers).  The queue owns no thread.                  *)
(*                                                                         *)
(* listMutex protects mList and listToken only, so the grain of atomicity  *)
(* is one critical section: an add is three steps (build the entry and     *)
(* read the clock; insert; number it) and a fourth that reads the number   *)
(* back without the lock.  An EventUnit is a heap address: a deleted one   *)
(* may be handed out again by the next `new`, so that a thread which still *)
(* holds the old pointer reaches somebody else's event.                    *)
(*                                                                         *)
(* Time is in milliseconds.  The type of an event is kept only as far as   *)
(* handleAlarmEvent tells types apart: TIMED_CALLBACK and TIMED_RECYCLE    *)
(* ("timed") are deleted after they fire, PERIOD_CONDITION and             *)
(* PERIOD_SEMAPHORE ("period") are armed again.                            *)
(*                                                                         *)
(* An operator whose name has the form X_fault is X with a plausible       *)
(* programming error; it is not part of the specification and serves to    *)
(* show that the properties below can tell the error from the code.        *)
(***************************************************************************)
EXTENDS Lists

CONSTANTS
    Clients,      \* threads that add and discard events
    Pollers,      \* threads that call handleAlarmEvent
    Units,        \* addresses of EventUnits
    Free, Listed, \* owners of an EventUnit that are not threads
    NoUnit,       \* no EventUnit
    TokenMod,     \* 0x0FFFFFFF + 1: the counter of event ids wraps here
    MaxDelay,     \* MAX_PERIOD_DELAY
    MaxTime,      \* bound on the clock
    MaxAdds       \* bound on the number of add calls

ASSUME QueueAssumption ==
    /\ TokenMod \in Nat \ {0, 1} /\ MaxDelay \in Nat
    /\ MaxTime \in Nat /\ MaxAdds \in Nat
    /\ Clients \cap Pollers = {}
    /\ Free # Listed
    /\ Free \notin Clients \cup Pollers /\ Listed \notin Clients \cup Pollers
    /\ NoUnit \notin Units

VARIABLES
    clock,        \* gettimeofday
    mList,        \* the timer list, addresses in firing order
    listToken,    \* the id the next event receives
    tvAbsolute, kind, period, idToken,  \* the fields of each EventUnit
    owner,        \* who may touch the unit: nobody, the list, or one thread
    pc, unit,     \* per client: the next step of its add, and newEntry
    held,         \* per client: the ids its add calls returned
    batch, entry, \* per poller: _list, and the entry being handled
    stage,        \* per poller: how far the handling of entry has come
    adds,         \* number of add calls so far
    lastFire,     \* clock when the unit last fired, plus one; 0 if it has not
    discarded     \* ids delTimedEvent was given since they were issued, except
                  \* where it took an entry that had no number yet

fields == <<tvAbsolute, kind, period>>
clientVars == <<pc, unit, held, adds>>
pollerVars == <<batch, entry, stage>>
history == <<lastFire, discarded>>
vars == <<clock, mList, listToken, fields, idToken, owner, clientVars,
          pollerVars, history>>

Tokens == 0 .. TokenMod - 1
Delays == 0 .. MaxDelay + 1
Kinds == {"timed", "period"}

Init ==
    /\ clock = 0
    /\ mList = <<>>
    /\ listToken = 1
    /\ tvAbsolute = [u \in Units |-> 0]
    /\ kind = [u \in Units |-> "timed"]
    /\ period = [u \in Units |-> 0]
    /\ idToken = [u \in Units |-> 0]
    /\ owner = [u \in Units |-> Free]
    /\ pc = [c \in Clients |-> "idle"]
    /\ unit = [c \in Clients |-> NoUnit]
    /\ held = [c \in Clients |-> {}]
    /\ batch = [p \in Pollers |-> <<>>]
    /\ entry = [p \in Pollers |-> NoUnit]
    /\ stage = [p \in Pollers |-> "idle"]
    /\ adds = 0
    /\ lastFire = [u \in Units |-> 0]
    /\ discarded = {}

\* time_plus: a delay above the limit leaves the time as it is.
time_plus(t, ms) == IF ms > MaxDelay THEN t ELSE t + ms

InsertsAt_last(t, i) == i = Len(mList) + 1

\* The place before the first entry that is strictly later than t.
InsertsAt(t, i) ==
    /\ \A k \in 1 .. i - 1 : tvAbsolute[mList[k]] <= t
    /\ i <= Len(mList) => t < tvAbsolute[mList[i]]

addEventInternal(u) ==
    /\ \E i \in 1 .. Len(mList) + 1 :
          /\ InsertsAt(tvAbsolute[u], i)
          /\ mList' = InsertAt(mList, i, u)
    /\ owner' = [owner EXCEPT ![u] = Listed]

NextToken == (listToken + 1) % TokenMod

-----------------------------------------------------------------------------
(***************************************************************************)
(* The adds.  A call whose delay is above the limit returns -1 and changes *)
(* nothing.  `new EventUnit` leaves idToken with what was in that memory.  *)
(***************************************************************************)
NewUnit(c, u, t, k, ms, next) ==
    /\ pc[c] = "idle" /\ adds < MaxAdds /\ owner[u] = Free
    /\ owner' = [owner EXCEPT ![u] = c]
    /\ tvAbsolute' = [tvAbsolute EXCEPT ![u] = t]
    /\ kind' = [kind EXCEPT ![u] = k]
    /\ period' = [period EXCEPT ![u] = ms]
    /\ \E garbage \in Tokens : idToken' = [idToken EXCEPT ![u] = garbage]
    /\ unit' = [unit EXCEPT ![c] = u]
    /\ pc' = [pc EXCEPT ![c] = next]
    /\ adds' = adds + 1
    /\ lastFire' = [lastFire EXCEPT ![u] = 0]
    /\ UNCHANGED <<clock, mList, listToken, held, pollerVars, discarded>>

addLaterEvent(c, u, ms) ==
    ms <= MaxDelay /\ NewUnit(c, u, time_plus(clock, ms), "timed", 0, "insert")

addPeriodEvent(c, u, ms) ==
    ms <= MaxDelay /\ NewUnit(c, u, time_plus(clock, ms), "period", ms, "insert")

\* The period of an event added this way is never set: ms is what was there.
\* A "timed" event never reads it.
addAbsTimedEvent(c, u, t, k, ms) ==
    (k = "timed" => ms = 0) /\ NewUnit(c, u, t, k, ms, "insertNumbered")

\* First critical section of addLaterEvent and addPeriodEvent.
Insert(c) ==
    /\ pc[c] = "insert"
    /\ addEventInternal(unit[c])
    /\ pc' = [pc EXCEPT ![c] = "number"]
    /\ UNCHANGED <<clock, listToken, fields, idToken, unit, held, adds,
                   pollerVars, history>>

\* Their second one: the unit may have fired and been deleted by now.
Number(c) ==
    /\ pc[c] = "number"
    /\ idToken' = [idToken EXCEPT ![unit[c]] = listToken]
    /\ listToken' = NextToken
    /\ discarded' = discarded \ {listToken}
    /\ pc' = [pc EXCEPT ![c] = "return"]
    /\ UNCHANGED <<clock, mList, fields, owner, unit, held, adds, pollerVars,
                   lastFire>>

\* The single critical section of addAbsTimedEvent.
InsertNumbered(c) ==
    /\ pc[c] = "insertNumbered"
    /\ addEventInternal(unit[c])
    /\ idToken' = [idToken EXCEPT ![unit[c]] = listToken]
    /\ listToken' = NextToken
    /\ discarded' = discarded \ {listToken}
    /\ pc' = [pc EXCEPT ![c] = "return"]
    /\ UNCHANGED <<clock, fields, unit, held, adds, pollerVars, lastFire>>

\* ret = newEntry->idToken, read without the lock.
Return(c) ==
    /\ pc[c] = "return"
    /\ held' = [held EXCEPT ![c] = @ \cup {idToken[unit[c]]}]
    /\ pc' = [pc EXCEPT ![c] = "idle"]
    /\ unit' = [unit EXCEPT ![c] = NoUnit]
    /\ UNCHANGED <<clock, mList, listToken, fields, idToken, owner, adds,
                   pollerVars, history>>

\* A unit whose number has been written since it was allocated: of the threads
\* that have a pointer to it none is before the write.
Numbered(u) == \A c \in Clients : unit[c] = u => pc[c] = "return"

\* What is known of a discarded id: nothing, if the entry u that was deleted is
\* listed and not numbered yet, its idToken being whatever was in the memory.
Discard(token, u) ==
    discarded' = IF Numbered(u) THEN discarded \cup {token} ELSE discarded

\* Overlooks the last entry of the list.
delTimedEvent_last(c, token) ==
    /\ pc[c] = "idle" /\ token \in held[c]
    /\ held' = [held EXCEPT ![c] = @ \ {token}]
    /\ \/ \E i \in 1 .. Len(mList) - 1 :
             /\ idToken[mList[i]] = token
             /\ owner' = [owner EXCEPT ![mList[i]] = Free]
             /\ mList' = RemoveAt(mList, i)
             /\ Discard(token, mList[i])
       \/ /\ \A i \in 1 .. Len(mList) - 1 : idToken[mList[i]] # token
          /\ discarded' = discarded \cup {token}
          /\ UNCHANGED <<mList, owner>>
    /\ UNCHANGED <<clock, listToken, fields, idToken, pc, unit, adds,
                   pollerVars, lastFire>>

\* Unlinks the entry and does not delete it.
delTimedEvent_kept(c, token) ==
    /\ pc[c] = "idle" /\ token \in held[c]
    /\ held' = [held EXCEPT ![c] = @ \ {token}]
    /\ \E i \in 1 .. Len(mList) :
          /\ idToken[mList[i]] = token
          /\ mList' = RemoveAt(mList, i)
          /\ Discard(token, mList[i])
    /\ UNCHANGED <<clock, listToken, fields, idToken, owner, pc, unit, adds,
                   pollerVars, lastFire>>

\* The first entry of the list with this id, if any, is unlinked and deleted.
\* The handler the call returns is read from the unit after its `delete`; no
\* caller of the code looks at it, so the model has no result.
delTimedEvent(c, token) ==
    /\ pc[c] = "idle" /\ token \in held[c]
    /\ held' = [held EXCEPT ![c] = @ \ {token}]
    /\ \/ \E i \in 1 .. Len(mList) :
             /\ idToken[mList[i]] = token
             /\ \A k \in 1 .. i - 1 : idToken[mList[k]] # token
             /\ owner' = [owner EXCEPT ![mList[i]] = Free]
             /\ mList' = RemoveAt(mList, i)
             /\ Discard(token, mList[i])
       \/ /\ \A i \in 1 .. Len(mList) : idToken[mList[i]] # token
          /\ discarded' = discarded \cup {token}
          /\ UNCHANGED <<mList, owner>>
    /\ UNCHANGED <<clock, listToken, fields, idToken, pc, unit, adds,
                   pollerVars, lastFire>>

-----------------------------------------------------------------------------
(***************************************************************************)
(* handleAlarmEvent: the due prefix of the list is moved to a local list   *)
(* under the lock; its entries are handled one by one without it.          *)
(***************************************************************************)
DuePrefix(n) ==
    /\ \A k \in 1 .. n : tvAbsolute[mList[k]] <= clock
    /\ n < Len(mList) => clock < tvAbsolute[mList[n + 1]]

\* Takes the due entries and leaves them on the shared list.
Collect_copy(p) ==
    /\ stage[p] = "idle" /\ batch[p] = <<>>
    /\ \E n \in 1 .. Len(mList) :
          /\ DuePrefix(n)
          /\ batch' = [batch EXCEPT ![p] = SubSeq(mList, 1, n)]
    /\ UNCHANGED <<clock, mList, listToken, fields, idToken, owner, clientVars,
                   entry, stage, history>>

Collect(p) ==
    /\ stage[p] = "idle" /\ batch[p] = <<>>
    /\ \E n \in 1 .. Len(mList) :
          /\ DuePrefix(n)
          /\ batch' = [batch EXCEPT ![p] = SubSeq(mList, 1, n)]
          /\ mList' = SubSeq(mList, n + 1, Len(mList))
          /\ owner' = [u \in Units |->
                          IF \E k \in 1 .. n : mList[k] = u THEN p ELSE owner[u]]
    /\ UNCHANGED <<clock, listToken, fields, idToken, clientVars, entry, stage,
                   history>>

\* The entry is popped and its handler called.
Fire(p) ==
    /\ stage[p] = "idle" /\ batch[p] # <<>>
    /\ entry' = [entry EXCEPT ![p] = Head(batch[p])]
    /\ batch' = [batch EXCEPT ![p] = Tail(@)]
    /\ stage' = [stage EXCEPT ![p] = "fired"]
    /\ lastFire' = [lastFire EXCEPT ![Head(batch[p])] = clock + 1]
    /\ UNCHANGED <<clock, mList, listToken, fields, idToken, owner, clientVars,
                   discarded>>

Delete(p) ==
    /\ stage[p] = "fired" /\ kind[entry[p]] = "timed"
    /\ owner' = [owner EXCEPT ![entry[p]] = Free]
    /\ entry' = [entry EXCEPT ![p] = NoUnit]
    /\ stage' = [stage EXCEPT ![p] = "idle"]
    /\ UNCHANGED <<clock, mList, listToken, fields, idToken, clientVars, batch,
                   history>>

\* Counts from the deadline that was missed.
Postpone_drift(p) ==
    /\ stage[p] = "fired" /\ kind[entry[p]] = "period"
    /\ tvAbsolute' = [tvAbsolute EXCEPT ![entry[p]] = time_plus(@, period[entry[p]])]
    /\ stage' = [stage EXCEPT ![p] = "rearm"]
    /\ UNCHANGED <<clock, mList, listToken, kind, period, idToken, owner,
                   clientVars, batch, entry, history>>

\* The next deadline counts from the time the handler returned.
Postpone(p) ==
    /\ stage[p] = "fired" /\ kind[entry[p]] = "period"
    /\ tvAbsolute' = [tvAbsolute EXCEPT
                         ![entry[p]] = time_plus(clock, period[entry[p]])]
    /\ stage' = [stage EXCEPT ![p] = "rearm"]
    /\ UNCHANGED <<clock, mList, listToken, kind, period, idToken, owner,
                   clientVars, batch, entry, history>>

Rearm(p) ==
    /\ stage[p] = "rearm"
    /\ addEventInternal(entry[p])
    /\ entry' = [entry EXCEPT ![p] = NoUnit]
    /\ stage' = [stage EXCEPT ![p] = "idle"]
    /\ UNCHANGED <<clock, listToken, fields, idToken, clientVars, batch,
                   history>>

Tick ==
    /\ clock < MaxTime
    /\ clock' = clock + 1
    /\ UNCHANGED <<mList, listToken, fields, idToken, owner, clientVars,
                   pollerVars, history>>

-----------------------------------------------------------------------------
Add(c) ==
    \E u \in Units, ms \in Delays :
        \/ addLaterEvent(c, u, ms)
        \/ addPeriodEvent(c, u, ms)
        \/ \E t \in 0 .. MaxTime, k \in Kinds : addAbsTimedEvent(c, u, t, k, ms)

FinishAdd(c) == Insert(c) \/ Number(c) \/ InsertNumbered(c) \/ Return(c)

HandleEntry(p) == Fire(p) \/ Delete(p) \/ Postpone(p) \/ Rearm(p)

Next ==
    \/ \E c \in Clients : Add(c) \/ FinishAdd(c)
    \/ \E c \in Clients, token \in Tokens : delTimedEvent(c, token)
    \/ \E p \in Pollers : Collect(p) \/ HandleEntry(p)
    \/ Tick

Spec == Init /\ [][Next]_vars

-----------------------------------------------------------------------------
TypeOK ==
    /\ clock \in 0 .. MaxTime
    /\ mList \in Seq(Units)
    /\ listToken \in Tokens
    /\ tvAbsolute \in [Units -> Nat]
    /\ kind \in [Units -> Kinds]
    /\ period \in [Units -> Delays]
    /\ idToken \in [Units -> Tokens]
    /\ owner \in [Units -> {Free, Listed} \cup Clients \cup Pollers]
    /\ pc \in [Clients -> {"idle", "insert", "number", "insertNumbered", "return"}]
    /\ unit \in [Clients -> Units \cup {NoUnit}]
    /\ held \in [Clients -> SUBSET Tokens]
    /\ batch \in [Pollers -> Seq(Units)]
    /\ entry \in [Pollers -> Units \cup {NoUnit}]
    /\ stage \in [Pollers -> {"idle", "fired", "rearm"}]
    /\ adds \in 0 .. MaxAdds
    /\ lastFire \in [Units -> Nat]
    /\ discarded \subseteq Tokens

\* A client between `new` and the insertion holds a unit; a poller holds one
\* while it handles it.
Holding(c) == pc[c] \in {"insert", "insertNumbered"}
Handling(p) == stage[p] # "idle"

\* Every unit is in one place at a time and allocated for as long as it is
\* somewhere: the list, the local list of one handleAlarmEvent call, the hands
\* of the thread that handles or builds it.  No pointer in the list dangles,
\* and no event fires twice because two threads took it.
Ownership ==
    /\ \A i \in DOMAIN mList : owner[mList[i]] = Listed
    /\ Distinct(mList)
    /\ \A p \in Pollers :
          /\ \A i \in DOMAIN batch[p] : owner[batch[p][i]] = p
          /\ Distinct(batch[p])
          /\ Handling(p) => /\ entry[p] \in Units
                            /\ owner[entry[p]] = p
                            /\ \A i \in DOMAIN batch[p] : batch[p][i] # entry[p]
    /\ \A c \in Clients :
          Holding(c) => unit[c] \in Units /\ owner[unit[c]] = c

\* No EventUnit leaks: one that is allocated can be reached by the list or by
\* the thread that owns it, so that every `new` meets its `delete`.
NoLeak ==
    \A u \in Units :
        \/ owner[u] = Free
        \/ owner[u] = Listed /\ \E i \in DOMAIN mList : mList[i] = u
        \/ \E p \in Pollers : /\ owner[u] = p
                             /\ \/ \E i \in DOMAIN batch[p] : batch[p][i] = u
                                \/ Handling(p) /\ entry[p] = u
        \/ \E c \in Clients : owner[u] = c /\ Holding(c) /\ unit[c] = u

\* The list is in the order of the deadlines, whoever inserted, re-armed or
\* removed entries in whatever order: handleAlarmEvent stops at the first entry
\* that is not due and timeToNextEvent looks at the first one only.
DeadlineOrder ==
    \A i, j \in DOMAIN mList :
        i < j => tvAbsolute[mList[i]] <= tvAbsolute[mList[j]]

\* An entry taken off the list is due, and stays due until it is handled.
CollectedDue ==
    \A p \in Pollers : \A i \in DOMAIN batch[p] : tvAbsolute[batch[p][i]] <= clock

\* No handler is called before the deadline of its event.
NoEarlyFire ==
    [][\A p \in Pollers :
          ~Handling(p) /\ Handling(p)' => tvAbsolute[entry'[p]] <= clock]_vars

\* Two signals of one period event are at least its period apart, however late
\* the first one was and however long its handling took.
PeriodSpacing ==
    [][\A p \in Pollers : ~Handling(p) /\ Handling(p)' =>
          LET u == entry'[p] IN
          (kind[u] = "period" /\ lastFire[u] # 0)
             => time_plus(lastFire[u] - 1, period[u]) <= clock]_vars

\* A timed event whose id was discarded is not on the list, however many threads
\* add, discard and fire events, and whatever ids are written through pointers
\* to deleted units.  The exception is in Discard: an add is listed before it is
\* numbered, and a discard that meets it can take it for the event it is after.
DiscardedTimedGone ==
    \A i \in DOMAIN mList :
        kind[mList[i]] = "timed" /\ Numbered(mList[i])
            => idToken[mList[i]] \notin discarded

\* "delete the timed event from the timer list" (delTimedEvent), for the events
\* of both kinds: a discarded id is on the list no more.
DiscardRemoves ==
    \A i \in DOMAIN mList :
        Numbered(mList[i]) => idToken[mList[i]] \notin discarded

\* An event that is still listed and due.
Due(u) == \E i \in DOMAIN mList : mList[i] = u /\ tvAbsolute[u] <= clock
=============================================================================
