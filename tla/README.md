# MCUProxy: a verification project

MCUProxy is the media side of a conference server: sockets and timers served by one epoll thread,
RTP transports on top of them, a paced sender, and mixers that join the media of the members of a
conference. This directory holds TLA+ models of the parts of it that run concurrently, keep intricate
data structures or do delicate arithmetic, the TLC runs that check them on small instances, and TLAPS
proofs of the most important properties for every value of the constants.

`PROJECT.json` is the index: components, runs, the source lines behind every definition, hazards,
findings and theorems. Paths below are relative to `src/`.

## The system and its models

```
   clients (threads that own transports and conferences)
      |  create, release, setHandler     |  AddTimedCallback, DiscardEvent     |  deliver
      v                                  v                                    v
  RTPTransport / udpTransport       TimedEventQ  <--- SocketPoller ---> SocketHolder <--- SocketSender
   (RtpTransport, SocketCore)       (TimedEventQ)     (PollerLoop,       (SocketCore)     (SocketSender,
                                                       SocketCore)                         Outbox)

  CompoundMix = AudioConfMix + VideoConfMix, one Thread each     epCore + timeList       shmAlloc
  (CompoundMix)  (AudioMix)     (VideoMix)   (MixThread)         (EpCore) (TimeList)     (ShmAlloc)
```

| Module | Models | State and steps |
|---|---|---|
| `Lists`, `NodeLists` | linked lists as sequences; where a node joins an ordered list | operators only |
| `TimedEventQ` | `libnet/absTimerList.cpp` | `mList`, `listToken`, the heap of event units with their owners. A step is a critical section of `listMutex`, or what a thread does between two of them. An add is build, insert, number, read the number back; `handleAlarmEvent` is collect, fire, and delete or re-arm each unit. |
| `PollerLoop` | `SocketPoller::threadLoop`, the wake pipe (`libnet/Poller.cpp`) | extends `TimedEventQ` with one poller: ask for the next deadline, read the clock, sleep, handle due events, handle descriptors. Clients write to the pipe after they add. |
| `SocketCore` | `libnet/Holder.cpp`, the event batch and `AddTransport`/`CloseTransport` of `Poller.cpp`, creation and destruction of transports, `RefBase` | `mQueue`, `mLock`, descriptors and their reuse by the kernel, the epoll set, strong and weak references. A step is a critical section, a system call or one change of a count. |
| `SocketSender`, `Outbox` | `libnet/Sender.cpp`; the abstract queue it implements | `mBuffers`, `mPending`, the thread's counters, the holder as a map, packets that name a descriptor number |
| `RtpTransport` | one `RTPTransport` with its RTCP socket, timer, read paths, and the STUN exchange of `Transport.cpp` | the client and the poller, armed timer ids, callbacks under `mCallLock`, the length arithmetic of `parseRTP` and `parseRTCP`, the STUN flags and the two halves of the address |
| `TimeList`, `EpCore` | `libckits/timeList.c`, `libckits/epCore.c` | the list of differences, and the single-threaded loop whose callbacks add, cancel and close at will |
| `ShmAlloc` | `libckits/shmAlloc.c` | the chunk word by word, with sizes, reference bits and list links in the words |
| `MixThread` | `Thread` of `system/libutils/Threads.cpp` as the mixers use it | `mRunning`, `mExitPending`, where each thread is |
| `AudioMix`, `VideoMix` | `libconf/AudioConfMix.cpp`, `mixfunc.c`, `libconf/VideoConfMix.cpp` | node lists, counters, slots; a mixing round under `mMixLock` is one step, the video thread's unlocked routing is one step per picture |
| `CompoundMix` | `libconf/CompoundMix.cpp` | composes both mixers and the one calling thread |

An `MC` module adds the values of constants and symmetry for TLC. A module named `XProofs` holds the
theorems about `X`; `SocketFdProofs` holds those about `SocketCore`'s descriptors, `TimedEventQProofs` also
those about `PollerLoop`, `EpCoreProofs` also those about `TimeList`, and `ListLemmas` the facts about lists
and sums that the others share. An operator
named `X_fault` is `X` with a plausible programming error. It is not part of any specification: it
takes X's place to show that a property can tell the error from the code.

How the parts fit together: `PollerLoop` is `TimedEventQ` seen by its only real poller, and every step
of it is proved to be a step of the queue. `SocketSender` sees `SocketHolder` as a map from descriptors
to transports; `SocketCore` is where that map is kept. `RtpTransport` takes two facts from below: the
poller holds a reference to the transport whose socket it reads (`SocketCore`), and a due timer is served
(`PollerLoop`). The first keeps the destructor from overlapping with a read of RTP. It does not do so for RTCP:
there the reference is to the transport behind `mRTCP`, whose callback is a bare pointer to the RTPTransport.

## The runs

Run one with `tlc -config <cfg> <module>` in this directory; `PROJECT.json` names the pairs.

**timer_queue** (2 clients, 2 pollers, 2 units, ids modulo 4, 3 adds, delays and clock to 1; 2,543,489
states). Every unit is in one place and allocated while it is there (`Ownership`), none leaks (`NoLeak`),
the list is in deadline order, nothing fires faster than its period, and a discarded timed event is gone.
Two units and three adds make the heap hand an address out again, and two pollers overlap in
`handleAlarmEvent`. Two clients add at once: each may number, or read the number of, a unit that was fired,
deleted and handed to the other. A handler that adds or discards is one of the clients here. The clock stops
at 1, so an insertion ahead of other events comes from an immediate one; `DeadlineOrderHolds` has no such
bound. A discard that meets an entry which is listed and not numbered yet counts as none (`Discard`, see
below).

**timer_discard** (a violation). `DiscardRemoves` is what the header says of `delTimedEvent`: the event
is deleted from the timer list. A periodic event whose handler is running is in a poller's local list;
the removal does not find it, and the poller arms it again.

**core_active** (4 transports on 2 descriptors, 2 events per batch, a holder of 4). Without hang-ups:
`CloseTransport` closes its own descriptor (`ClosesOwn`) and a destroyed transport has left none open
(`NoDescriptorLeak`), a registered transport is found by its descriptor (`Coherent`), the poller touches
no dying object, no destructor runs twice. More transports than descriptors, so that numbers are reused.

**core_faults** (3 transports, 3 descriptors, a holder of 2). Hang-ups, failing registrations, a full
holder and objects without an `sp<>` all at once: the holder keeps its order, types and limit.

**core_live** (3 transports, 2 descriptors, one event per batch, hang-ups). Every object nobody refers
to is destroyed to the end, and the poller always returns to `epoll_wait`.
One event per batch because with two the poller can lock itself out, which is

**core_relock** (a violation). `NeverRelocks` is the comment of `Mutex.h`: a mutex is not recursive.
`threadLoop` keeps one `sp<>` for a whole batch, `fetch` assigns to it with `mLock` held, and the
assignment may destroy the previous event's transport, whose destructor asks for `mLock`.

**loop** (2 clients, 2 units, a pipe of one word). The poller has the first deadline or an earlier one in
mind, or a wake-up is coming (`Attentive`), and every due event is served (`DueIsServed`). A pipe of one
word is full after one wake-up, so the failing write is explored. With delays of at most one unit a deadline
earlier than the poller's comes only to an empty list; `AttentiveHolds` has no such bound.

**sender** (3 packets, 2 transports on 2 descriptors, 2 packets per tick, hang-ups). The two lists are one
first-in first-out queue (`ImplementsOutbox`, a refinement of `Outbox`), a packet goes out only by the
transport it was handed over for, unless that one was no longer registered, and every packet handed over is
dealt with, or the thread has stopped in `fetch` (`at = "relock"`, below). Three packets exceed what a tick
may send. The thread keeps its last transport in `_inst`, so an object its owner has let go of is destroyed
by the sender, in the model as in the code. 366,375 states.

**epcore** (2 timers, 2 transports on one descriptor, slack of two units, delays up to 4, clock to 3, one
event per batch; 864,692 states). With a slack of two a timer can fire with one unit to go, which the next
one loses. The differences stored in the list always add up to the deadlines (`Representation`), no timer
fires earlier than the slack of the timers before it accounts for, a timer that is up fires though one is
handled per turn, and a hang-up closes the socket it was reported for, whatever callbacks and user code have
closed and opened since (`HangUpClosesOwn`). Two transports share one descriptor, so that its number comes
to stand for the other one while the report waits. Longer batches are left to the proof.

**shm** (a chunk of 76 bytes, requests of 6, 12 and 20 bytes, initialised up to twice). Blocks, free parts
and the candidate tile the chunk, neighbours are merged and in address order, no held payload is written to,
also when other holders of the same block let go, and a request is refused only if no run of free memory has
the room. The chunk holds up to four small blocks, enough for a middle block with a neighbour on either
side, a split, a merge on both sides and a harvest.

**conf** (2 sound devices, 2 callers of whom one fits, 1 camera, 2 windows of which one fits, 1 encoder,
5 calls; 269,891 states). Lists and counters agree (`CountsAgree`), the unlocked routing stays inside
`mMetas[]` (`IndicesInBounds`), every member hears the saturated sum of the others and nothing else
(`MixMinus`), a start that succeeded has a thread (`RunsAsPromised`), windows get the right picture
(`RightPicture`), and calls return (`CallsReturn`). A block is one sample of at most three, so that
sums saturate; what an earlier round left in a slot counts as the loudest sample. Installing the sound
devices is not counted among the five calls, which are enough for: insert, start, insert, remove, insert
again; and for insert, start, reset, insert, start again.

**rtp** (datagram sizes at the edges of the headers: 0, 8, 12, 28, 36, and a buffer of 40; 238,850 states).
A failed `recvfrom` is parsed as a full buffer, as in the code. A transport in use has exactly one report
timer (`OneTimer`) and one that is gone has none (`NoOrphan`), no handler runs after `setHandler(NULL)` has
returned, payload and RTCP reads stay inside the datagram whatever lengths it claims, the reflected address
is one answer's, and reports go on (`ReportsFlow`). The count of a BYE keeps the padding bit, as `parseBYE`
masks it; a padded one is larger than every block of the run, and the theorem covers the rest.

### Bounds

Clocks, adds, calls, packets and STUN requests are bounded by constants whose names begin with `Max`, or
by finite sets; the guards that apply them are in the modules. Where an action is disabled by a bound
only, deadlock is not checked (`CHECK_DEADLOCK FALSE`): clients may stop calling, as they may in the
program. The `epcore` run has no such bound on its actions and checks for deadlock. Symmetry is used in
runs without liveness only.

### Fairness

- `core_live`: a thread finishes a destructor and a batch it has begun; a thread that waits for `mLock`
  gets it in the end (strong fairness of the locking steps: the critical sections are short and the
  kernel hands a futex on). Owners need not release and sockets need not have events.
- `loop`: clients finish their adds, the thread runs, time passes.
- `sender`: the thread runs, unless it waits for a lock it holds itself, and its periodic signal goes on.
  That it does is `DueIsServed` of `loop`.
- `epcore`: the thread runs, callbacks return, time passes.
- `conf`: both mixer threads run, and a call that has begun is carried on with. New calls need not come.
- `rtp`: the poller finishes its handlers, and a due timer is fired even if reads keep coming (strong
  fairness of `Fire`, justified by `DueIsServed`). Nothing is assumed of the network or the client.

## What is proved

The proofs hold for any sets of threads, nodes and values and any limits that satisfy the `ASSUME`s of
the modules (limits are naturals, model values differ, a poller is not a client, one encoder slot at least
in `VideoMix`).

**TimedEventQProofs.** `TypeCorrect`, `OwnershipHolds`, `DeadlineOrderHolds`, `NoEarlyFireHolds`. The
inductive invariant is `IInv`: types, ownership, deadline order, that collected units are due, and that a
client inside an add has an address. Deadline order is not inductive alone: re-arming writes the deadline of
a unit without the lock, which is harmless only because that unit is on no list, and that is ownership.
Three more rest on `IInv`. `NoLeakHolds`: an allocated unit can be reached by its owner.
`PeriodSpacingHolds`, with `SpacingInv`: between two signals the deadline of a period event is at least its
period after the first, except while the poller that fired it has still to write it.
`DiscardedTimedGoneHolds`, for any number of threads and with fewer adds than ids (`MaxAdds < TokenMod`),
with `IdInv`: the numbers given out are the adds that have got past their numbering (`Issued`, the adds less
those of the clients before it), so that the next number is larger than every number a unit has and every
one that was discarded; numbered units on or off the list have different ids, though a late client may write
its number to a unit that is someone else's by then; and only period events are armed again.

For `PollerLoop`, in the same module: `LoopTyped`, `AttentiveHolds`, `NoOversleepHolds`. A step of the loop
is a step of the queue, so `IInv` carries over; while the thread is between its look and its sleep, whatever
happens leaves the first deadline, moves it back, or is an insertion whose client still has its wake-up to
write.

**SocketCoreProofs.** `QueueSortedHolds` for all failures. `FetchedAliveHolds` and `DestroyedOnceHolds`
under the assumption `RawCreated = {}`: every transport is held by an `sp<>` before it is registered.
`CoreInv` says that an object with a reference is alive, that what the poller points at it has a
reference of, that what is listed exists, and that a destructor belongs to one thread. `TypeOKHolds` again
holds whatever fails. Types are not inductive alone: that `insert` puts a descriptor into the list and not -1
needs that nobody else knows a transport before it is inserted (`FreshInv`), and that the poller finds the
event it handles needs that the batch is not empty (`BatchInv`).

**SocketFdProofs.** `ClosesOwnHolds`, `NoDescriptorLeakHolds` and `CoherentHolds`, for any number of transports
and descriptors, under `Orderly`: every transport has its `sp<>` first, no socket hangs up and `epoll_ctl` takes
every socket. These are the conditions of `core_active`, and TLC refutes each theorem without the second.
`DescriptorInv` says who may have a descriptor open (the live transport with that `sock`, or the destructor
that has taken it from there), that it is in the epoll set from the one `epoll_ctl` to the other, and that an
item stands for the transport its descriptor is open for and is gone before the descriptor leaves the epoll
set. That order, remove, unregister, close, is what keeps a reused number from being taken for its
predecessor. `CoherentHolds` also assumes `SlotForEach`: as many slots as descriptors (stated as the
pigeonhole principle, since the prover is given no cardinalities here), so that `insert` always finds one.
`AddTransport` does not look at the result of `insert`, and with fewer slots the statement is false.

**SocketSenderProofs.** `SenderTyped`, `SenderImplementsOutbox`, `NoBurstHolds`, `SentByOwnerHolds`,
`DroppedLostHolds`. `SenderInv` adds that the holder and the transports agree on descriptors and that a
queued packet carries the number its transport has had ever since, or the transport's socket is dead.
The refinement maps the abstract queue to `mPending \o mBuffers`.

**CompoundMixProofs.** `CountsAgreeHolds`, from lists without duplicates in rank order, so that a node
that joins or leaves changes the number of its kind by one; `IndicesInBoundsHolds`, because the indices
the video thread takes out of its critical section are sums of numbers within their limits;
`RunsAsPromisedHolds`, because the place of the audio thread determines `mstate` and the thread's flags;
and `RightPictureHolds`, for any number of windows, with at most one camera and one encoder (`OneOfEach`), the
values `MAX_VIDEO_CAMERA` and `MAX_VIDEO_ENCODER` have in `VideoConfMix.h`. `PictureInv` says that the
numbers are the borders between the kinds of node in the list, that what was pulled lies where the indices
point, and how far the routing has come: while no window leaves, the number of windows the loop reads anew
is at least the one the indices were computed from, so that every window counted then has been served
when the numbers are compared. `MixMinusHolds`: every member hears the sum of the others, for any number of
devices and callers. `MixInv` says that a round begins with every slot muted, whatever a failed round or a
node that left has put into it, and that every node has a slot. The code adds up everybody once and takes
each member's own sample off again, and `SumWithout` of `ListLemmas` says that this is the sum over the
others.

**EpCoreProofs.** `RepresentationHolds` and `NoEarlierThanCutHolds` for the timer list, with any number of
timers, any delays and any slack; `LoopUsesList`, that the event loop implements the list's specification,
so that both hold in the loop too (`LoopKeepsTime`); `HangUpClosesOwnHolds` for the transports, with batches
of any length. The inductive invariant of the list is `TimeInv`: the property, types, and that no node is
listed twice, without which a remainder would be counted twice. There is a lemma per operation about the
sums: synchronising takes the elapsed time off every sum or makes it zero (`SyncRep`), an insertion splits
one difference into two (`InsertRep`), a removal joins two (`RemoveRep`), and a timer that fires early takes
what it had left off the deadline of every later one (`FireRep`). `SocketInv` says that the epoll set and
the transports agree on who has which descriptor, and that a reported event names the descriptor its
transport has, unless that was closed or opened anew since.

**RtpTransportProofs.** `OneTimerHolds`, `NoOrphanHolds`, `QuietAfterUnsetHolds`, `PayloadInsideHolds`,
`StunWholeHolds`, `ReadsInsideHolds`, for datagrams of any size and content. `RtpInv` has a part per resource.
`TimerInv`: from its arming in `init` on there is one timer or one run of its handler, and it is what
`mEventId` names but for the handler's last step. `HandlerInv`: a handler runs while its callback is set, or
while the client that unsets it waits for `mCallLock`. `StunInv`: an address is put together with
`mStunResponsed` down, so two answers cannot mix unless a drop comes between. The two about lengths rest on
lemmas about `parseRTP` and the turns of `parseRTCP`.

`TypeCorrect`, `NoEarlyFireHolds`, `LoopTyped`, `NoOversleepHolds`, `SenderTyped`, `NoBurstHolds` and
`DroppedLostHolds` have no run of their own: the proof says more than a run would.

Sums are defined by recursive functions, and the prover has no induction over data. What a sum is for every
list is proved from the least number principle instead (`LeastNumber` of `ListLemmas`, from the
well-foundedness of the naturals): if the function that adds up the first k elements did not exist, or
differed from another that does, there would be a least k at which that happens.

A leaf names the backend that proves it. `SMT, SMTT(30)` asks the SMT solver with its usual time and then
again with 30 seconds, and `ZenonT(30)` gives Zenon 30 seconds, so that a busy machine does not fail a proof.

**Only model-checked.** All liveness (`Reclaimed`, `PollerReturns`, `DueIsServed`, `AllLeave`, `UpFires`,
`CallsReturn`, `ReportsFlow`): the prover has no rule for fairness. Everything about `ShmAlloc` (`Tiling`,
`Coalesced`, `PayloadIntact`, `RefusedOnlyIfFull`): its walks along the links in the chunk are recursive
operators, whose end depends on what is in memory, and the prover cannot reason about those.

## Where the code does not keep what one might expect

Besides the two violations, the models contain cases in which a property has to be weakened or a run
restricted. Each is stated where it is used.

- `libnet/absTimerList.cpp:177`: `addLaterEvent` inserts an entry before it numbers it and reads the number
  back without the lock. Two adding threads may be given one id, and a caller may read an entry that was
  fired and deleted. A discard compares ids with whatever an entry without a number has in its field, and
  may delete that one instead of its own: `DiscardedTimedGone` excepts the id of such a discard, and fails
  otherwise.
- `libnet/absTimerList.cpp:486`: `delTimedEvent` reads the handler after the entry was deleted. No caller
  uses the result, and it is left out.
- `libnet/Sender.cpp:153`: `fetch` assigns to `_inst` with `mLock` held, as in the poller (`core_relock`).
  If that drops the last reference to the transport of the packet before, the destructor asks for `mLock`
  again and the thread stops for good. `AllLeave` excepts this state, and fails otherwise.
- `libnet/Poller.cpp:165`: after a hang-up the descriptor is closed before its item is removed. If the
  number is reused in between, the new owner's item is removed. `ClosesOwn`, `Coherent` and
  `NoDescriptorLeak` are checked and proved without hang-ups; with them they do not hold. The last takes
  four transports to break: two come to have one number, the `epoll_ctl` of the one makes that of the other
  fail, and `CloseTransport` then does not close.
- `libnet/RTPTransport.cpp:65`: `create` registers the object before any `sp<>` holds it, so the poller
  may come to hold the only reference (`RawCreated`). After a failed registration (line 78) the object is
  deleted while the holder has a weak reference to it, and `libnet/Transport.cpp:171` leaves the number of
  a closed descriptor behind.
- `libnet/RTPTransport.cpp:53`: the destructor discards the timer by id while its handler may be running;
  the handler then arms a timer for an object that is gone. `NoOrphan` excepts this overlap, and a timer
  that goes off before `create` has finished.
- `libnet/RTPTransport.cpp:359`: the poller may be in `handleRTCP`, or on its way there, while the
  destructor runs, and nobody resets the callback of the RTCP socket. A client that unsets its handler first
  is safe from it (`QuietAfterUnset`); for others the models make no claim.
- `libnet/RTPTransport.cpp:99`: if the timer cannot be armed, `init` returns `NO_ERROR` without a socket.
- `libnet/Transport.cpp:286, 334, 369`: STUN flags are set after `sendto`, transaction ids are not
  compared, and a drop in the middle of a parse leaves a mixed address marked as good. `StunWhole` excepts
  the last. A failed `recvfrom` parses the whole buffer.
- `libckits/timeList.c:284`: a timer fires with up to 499 microseconds to go, and the error adds up over
  timers that follow closely. `NoEarlierThanCut` states the bound that does hold.
- `libckits/epCore.c:170`: a read event of a transport closed earlier in the same batch is still handled,
  and the hang-up of a transport that was closed and opened again closes its new socket. `HangUpClosesOwn`
  excepts the second.
- `libckits/shmAlloc.c:242`: a freed block of four bytes has no room for both links and damages its
  neighbour's size; with such requests `Tiling` fails. The run asks for more. The allocator has no lock; the
  model has one caller at a time.
- `libconf/AudioConfMix.cpp:305`: a caller refused at the limit stays in the list (`aOver`).
- `libconf/VideoConfMix.cpp:115`: `reset` zeroes the number of windows with windows inside (`vDrift`); later
  insertions pass the limit and the indices leave `mMetas[]`.
- `libconf/VideoConfMix.cpp:193`: the check before the push compares numbers, not nodes: a window that
  leaves and another that joins while pictures are routed go unnoticed (`dipped`).
- `libconf/AudioConfMix.cpp:119`: `start` while the old thread is leaving returns `NO_ERROR` and no thread
  remains; `promised` is not set then. A second start before the thread has set `mstate` fails, and
  `CompoundMix` resets both mixers.
- Neither mixer looks whether a node is inserted already. That it is not is the caller's obligation, and a
  guard of `InsertAudio` and `InsertVideo`; `CountsAgree` and the others are about callers that keep it.
- `libconf/AudioConfMix.cpp:257` assumes that the two sound devices are the first two nodes. The model
  assumes with it that they are in before `start` and stay inside (`Wired`).

## Abstractions

A packet, a picture and a node are model values. Time is in units of a millisecond (`TimedEventQ`,
`PollerLoop`) or of the 500 microsecond slack (`TimeList`), and never goes back. The token counter of the
timer queue wraps at `TokenMod` instead of 2^28. Logging and the dump functions are left out. Memory is
not exhausted, except where a container has a limit. A thread that would use a destroyed object has no
next step in `SocketCore`, as nothing can be said of it.

## Not modelled

- `WaitingRoom`, `MOHPlayer`: `doInsertNode` changes the lists without the lock under which the thread
  walks them. Every insertion into a running room is a data race on `std::list`, after which no step is
  defined; what is left without it has no concurrency to check.
- `MetaBuffer`, `TokenPool`: a container of named values; packets are values in the models.
- `hashTable` and the pool allocator of `myAlloc`: sequential, without a caller in the repository. The slot
  allocator appears as the limit of the holder.
- `ToneGene`, `gentone`: floating-point signal generation. `mix_assembly.s`: ARM versions of `mixfunc.c`.
- `cJSON`, `sh_print`, `ioStream`, `wallClock`, `IMultiParty.cpp`: a third-party parser, thin wrappers, a
  factory.
- `server/`, `libproxy/`: empty files and declarations. The headers `utility.h`, `IMultiParty.h`,
  `defines.h` and `AMessage.h` are not in the repository; node types are taken from their use.
- `system/`: the vendored Android libraries, about four fifths of all lines. Of these `RefBase` and `Thread`
  are modelled as far as the program depends on them. The models cover about 3,500 lines, which is a third
  of the program's own code and a small part of the repository.
- Of the modelled components: thread start and stop of the poller, the destructors of the timer queue and of
  the sender (which destroys its mutex before it discards its timer), the walk over the attributes of a STUN
  answer (`parseStunResponse` begins where it has found an address, and an answer without one is ignored),
  addresses and statistics of RTP transports, outgoing RTP headers and the fields of reports,
  `epGetTransport`, a failing `epoll_wait`.
