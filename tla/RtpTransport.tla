---------------------------- MODULE RtpTransport ----------------------------
(***************************************************************************)
(* One RTPTransport with RTCP: the client that creates, uses and destroys  *)
(* it, and the poller thread that fires its report timer and reads its two *)
(* sockets.  The timer queue is the set of armed ids (TimedEventQ has its  *)
(* details), the network a set of STUN answers and whatever datagrams come.*)
(*                                                                         *)
(* The poller reads a socket while it holds a reference to its transport   *)
(* (SocketCore).  For RTP this is the RTPTransport itself, so that the     *)
(* destructor waits for the read.  For RTCP it is the transport behind     *)
(* mRTCP, whose callback points back without a reference, as the timer     *)
(* does: the destructor overlaps with either.                              *)
(***************************************************************************)
EXTENDS Integers, FiniteSetsExt

CONSTANTS
    Sizes,      \* sizes of datagrams in bytes
    Capacity,   \* RTPTransport::MaxCapacity
    Pads,       \* values of the padding byte
    Words,      \* values of a length field, in 32-bit words
    Counts,     \* values of a count field
    MaxAsks,    \* STUN requests, to keep runs finite
    IdMask      \* ids are numbered modulo IdMask + 1

ASSUME RtpAssumption ==
    /\ Sizes \subseteq Nat /\ Capacity \in Nat /\ Pads \subseteq Nat
    /\ Words \subseteq Nat /\ Counts \subseteq Nat
    /\ MaxAsks \in Nat /\ IdMask \in Nat \ {0}

VARIABLES
    client,         \* where the client is
    poller,         \* where the poller is; "idle" between handlers, "held" when it
                    \* has fetched mRTCP's transport and not called it yet
    mEventId,       \* -1 when no timer was added
    armed,          \* ids in the timer queue
    nextId,
    overlap,        \* the destructor has begun while the timer's handler ran, or
                    \* the timer has gone off before init was over
    mCallback,      \* sockets whose mCallback is not NULL
    quiet,          \* setHandler(NULL) has returned, and nothing was set since
    firstRTP,
    payload,        \* what parseRTP has found in the last datagram
    rest, reach,    \* parseRTCP: bytes left, and bytes read of them in this turn
    mStunRequested, mStunResponsed,
    port, ipv4,     \* mReflAddr: the answer each half comes from, 0 for none
    asks,           \* requests sent
    answers,        \* answers on their way, by request
    answer,         \* the one being parsed
    torn            \* dropStunParsing was called in the middle of a parse

lifeVars == <<mEventId, armed, nextId, overlap>>
handlerVars == <<mCallback, quiet>>
parseVars == <<firstRTP, payload, rest, reach>>
stunVars == <<mStunRequested, mStunResponsed, port, ipv4, asks, answers, answer, torn>>
vars == <<client, poller, lifeVars, handlerVars, parseVars, stunVars>>

NoPayload == [ok |-> FALSE, offset |-> 0, length |-> 0, left |-> 0]

Init ==
    /\ client = "none" /\ poller = "idle"
    /\ mEventId = -1 /\ armed = {} /\ nextId = 0 /\ overlap = FALSE
    /\ mCallback = {} /\ quiet = FALSE
    /\ firstRTP = TRUE /\ payload = NoPayload /\ rest = 0 /\ reach = 0
    /\ mStunRequested = FALSE /\ mStunResponsed = FALSE /\ port = 0 /\ ipv4 = 0
    /\ asks = 0 /\ answers = {} /\ answer = 0 /\ torn = FALSE

\* AddTimedCallback: armed first, and the id returned afterwards.
Arm == armed' = armed \cup {nextId} /\ nextId' = (nextId + 1) % (IdMask + 1)

-----------------------------------------------------------------------------
(* create.                                                                 *)

InitRTCP ==
    /\ client = "none"
    /\ client' \in {"timer", "delete"}
    /\ UNCHANGED <<poller, lifeVars, handlerVars, parseVars, stunVars>>

InitTimer ==
    /\ client = "timer"
    /\ Arm
    /\ mEventId' = nextId
    /\ client' = "socket"
    /\ UNCHANGED <<poller, overlap, handlerVars, parseVars, stunVars>>

\* When the socket cannot be had create deletes the object.
InitRTP ==
    /\ client = "socket"
    /\ client' \in {"open", "delete"}
    /\ UNCHANGED <<poller, lifeVars, handlerVars, parseVars, stunVars>>

-----------------------------------------------------------------------------
(* The end.                                                                *)

\* The client is using the transport.
Using == {"open", "set", "unset", "asked", "marked", "dropped"}

\* The poller is in a read handler, and holds the mCallLock of its socket.
ReadingRTP == {"rtp", "got", "port", "ipv4", "flag"}
Reading == ReadingRTP \cup {"rtcp"}

\* The poller is in handleTimeout.
Reporting == {"report", "scheduled"}

\* The poller holds a reference to mRTCP's transport.
WithRTCP == {"held", "rtcp"}

\* The last reference to the RTPTransport goes, which a read of its own socket
\* would hold.  mEventId is read now, and used in the next step.
Release ==
    /\ client \in {"open", "delete"} /\ poller \notin ReadingRTP
    /\ client' = IF mEventId = -1 THEN "gone" ELSE "discard"
    /\ overlap' = (overlap \/ poller \in Reporting)
    /\ mCallback' = mCallback \ {"rtp"}
    /\ UNCHANGED <<poller, mEventId, armed, nextId, quiet, parseVars, stunVars>>

\* The members of the RTPTransport are destroyed.  Nobody resets the callback of
\* mRTCP's transport, which survives if the poller holds it.
DropRTCP == mCallback' = IF poller \in WithRTCP THEN mCallback ELSE {}

Discard_not ==
    /\ client = "discard"
    /\ client' = "gone"
    /\ overlap' = (overlap \/ poller \in Reporting)
    /\ DropRTCP
    /\ UNCHANGED <<poller, mEventId, armed, nextId, quiet, parseVars, stunVars>>
\* DiscardEvent of the timer, if it is still there, and the end of the object.
Discard ==
    /\ client = "discard"
    /\ armed' = armed \ {mEventId}
    /\ client' = "gone"
    /\ overlap' = (overlap \/ poller \in Reporting)
    /\ DropRTCP
    /\ UNCHANGED <<poller, mEventId, nextId, quiet, parseVars, stunVars>>

-----------------------------------------------------------------------------
(* handleTimeout.                                                          *)

\* The timer goes off; its entry is no longer in the queue.
Fire ==
    /\ poller = "idle"
    /\ \E id \in armed : armed' = armed \ {id}
    /\ overlap' = (overlap \/ client \notin Using)
    /\ poller' = "report"
    /\ UNCHANGED <<client, mEventId, nextId, handlerVars, parseVars, stunVars>>

Report_once ==
    /\ poller = "report"
    /\ poller' = "idle"
    /\ UNCHANGED <<client, lifeVars, handlerVars, parseVars, stunVars>>
\* The report is sent and the next one scheduled.
Report ==
    /\ poller = "report"
    /\ Arm
    /\ poller' = "scheduled"
    /\ UNCHANGED <<client, mEventId, overlap, handlerVars, parseVars, stunVars>>

\* The id of the new timer is kept.
Scheduled ==
    /\ poller = "scheduled"
    /\ mEventId' = (nextId + IdMask) % (IdMask + 1)
    /\ poller' = "idle"
    /\ UNCHANGED <<client, armed, nextId, overlap, handlerVars, parseVars, stunVars>>

-----------------------------------------------------------------------------
(* setHandler, of the RTP and then of the RTCP socket, each under its      *)
(* mCallLock.                                                              *)

SetHandler ==
    /\ \/ /\ client = "open" /\ poller \notin ReadingRTP
          /\ client' = "set" /\ mCallback' = mCallback \cup {"rtp"}
       \/ /\ client = "set" /\ poller # "rtcp"
          /\ client' = "open" /\ mCallback' = mCallback \cup {"rtcp"}
    /\ quiet' = FALSE
    /\ UNCHANGED <<poller, lifeVars, parseVars, stunVars>>

UnsetHandler_unlocked ==
    /\ \/ /\ client = "open"
          /\ client' = "unset" /\ mCallback' = mCallback \ {"rtp"} /\ UNCHANGED quiet
       \/ /\ client = "unset"
          /\ client' = "open" /\ mCallback' = mCallback \ {"rtcp"} /\ quiet' = TRUE
    /\ UNCHANGED <<poller, lifeVars, parseVars, stunVars>>
UnsetHandler ==
    /\ \/ /\ client = "open" /\ poller \notin ReadingRTP
          /\ client' = "unset" /\ mCallback' = mCallback \ {"rtp"} /\ UNCHANGED quiet
       \/ /\ client = "unset" /\ poller # "rtcp"
          /\ client' = "open" /\ mCallback' = mCallback \ {"rtcp"} /\ quiet' = TRUE
    /\ UNCHANGED <<poller, lifeVars, parseVars, stunVars>>

-----------------------------------------------------------------------------
(* handleRead of the RTP socket, whose handler calls receive.              *)

ReadRTP ==
    /\ poller = "idle" /\ "rtp" \in mCallback
    /\ poller' = "rtp"
    /\ UNCHANGED <<client, lifeVars, handlerVars, parseVars, stunVars>>

\* What parseRTP looks at.
Datagrams ==
    [size : Sizes \cup {Capacity}, version2 : BOOLEAN, padded : BOOLEAN, pad : Pads,
     csrcs : Counts, extended : BOOLEAN, extension : Words]

parseRTP_early(d) ==
    LET left   == IF d.padded THEN d.size - d.pad ELSE d.size
        basic  == 12 + 4 * d.csrcs
        offset == IF d.extended THEN basic + 4 + 4 * d.extension ELSE basic
        ok     == /\ d.size >= 12 /\ d.version2
                  /\ d.padded => d.pad + 12 <= d.size
                  /\ left >= basic
                  /\ d.extended => d.size >= offset
    IN  [ok |-> ok, offset |-> offset, length |-> left - offset, left |-> left]
parseRTP(d) ==
    LET left   == IF d.padded THEN d.size - d.pad ELSE d.size
        basic  == 12 + 4 * d.csrcs
        offset == IF d.extended THEN basic + 4 + 4 * d.extension ELSE basic
        ok     == /\ d.size >= 12 /\ d.version2
                  /\ d.padded => d.pad + 12 <= d.size
                  /\ left >= basic
                  /\ d.extended => left >= offset
    IN  [ok |-> ok, offset |-> offset, length |-> left - offset, left |-> left]

\* What parseRTP can find.
Findings == {parseRTP(d) : d \in Datagrams}

\* receive of a datagram.  When recvfrom fails the buffer, of full capacity and
\* with any content, is parsed all the same.
ReceiveRTP ==
    /\ poller = "rtp"
    /\ \E found \in Findings :
          /\ payload' = IF found.ok THEN found ELSE NoPayload
          /\ firstRTP' = (firstRTP /\ ~found.ok)
    /\ poller' = "got"
    /\ UNCHANGED <<client, lifeVars, handlerVars, rest, reach, stunVars>>

\* The handler is done with the datagram.
Handled ==
    /\ poller = "got"
    /\ poller' = "idle" /\ payload' = NoPayload
    /\ UNCHANGED <<client, lifeVars, handlerVars, firstRTP, rest, reach, stunVars>>

-----------------------------------------------------------------------------
(* handleRTCP, and one turn of the loop of parseRTCP.                      *)

\* The poller fetches the transport of the RTCP socket, which mRTCP keeps alive.
FetchRTCP ==
    /\ poller = "idle" /\ client \in Using \cup {"discard"}
    /\ poller' = "held"
    /\ UNCHANGED <<client, lifeVars, handlerVars, parseVars, stunVars>>

\* It calls its handler, if one is set.  When recvfrom fails the buffer, of full
\* capacity and with any content, is parsed all the same.
ReadRTCP ==
    /\ poller = "held"
    /\ \/ "rtcp" \in mCallback /\ poller' = "rtcp" /\ rest' \in Sizes \cup {Capacity}
       \/ "rtcp" \notin mCallback /\ poller' = "idle" /\ UNCHANGED rest
    /\ UNCHANGED <<client, lifeVars, handlerVars, firstRTP, payload, reach, stunVars>>

\* What a turn looks at.
Blocks ==
    [version2 : BOOLEAN, padded : BOOLEAN, pad : Pads, words : Words,
     type : {"SR", "BYE", "other"}, count : Counts]

headerLength(b) == 4 * b.words + 4

\* The bytes parseSR and parseBYE read of a block.  The count is five bits of the
\* first byte; parseBYE's mask takes in the padding bit above them.
parseSR(b) == IF headerLength(b) < (7 + b.count * 6) * 4 THEN 1 ELSE 20
parseBYE(b) ==
    LET SC == IF b.padded THEN b.count + 32 ELSE b.count
    IN  IF SC = 0 \/ headerLength(b) < 4 + SC * 4 THEN 1 ELSE 8

Left(b) == IF b.padded THEN rest - b.pad ELSE rest

Sound_partial(b) ==
    /\ b.version2
    /\ b.padded => b.pad + 8 <= rest
    /\ Left(b) >= 4
\* The block can be parsed.
Sound(b) ==
    /\ b.version2
    /\ b.padded => b.pad + 8 <= rest
    /\ Left(b) >= headerLength(b)

\* The turn that returns, at the end of the datagram or at a block that is not
\* sound.
ParsedRTCP ==
    /\ poller = "rtcp"
    /\ ~(rest >= 8 /\ \A b \in Blocks : Sound(b))
    /\ poller' = "idle" /\ rest' = 0 /\ reach' = 0
    /\ UNCHANGED <<client, lifeVars, handlerVars, firstRTP, payload, stunVars>>

\* How far a turn reads into what is left: the header, the padding byte, which is
\* the last, and what the block's own parser reads.
Reach(b) ==
    Max({4, IF b.padded THEN rest ELSE 0,
         CASE b.type = "SR" -> parseSR(b) [] b.type = "BYE" -> parseBYE(b) [] OTHER -> 0})

ParseRTCP_stuck ==
    /\ poller = "rtcp" /\ rest >= 8
    /\ \E b \in Blocks : Sound(b) /\ reach' = Reach(b) /\ rest' = Left(b)
    /\ UNCHANGED <<client, poller, lifeVars, handlerVars, firstRTP, payload, stunVars>>
ParseRTCP ==
    /\ poller = "rtcp" /\ rest >= 8
    /\ \E b \in Blocks : Sound(b) /\ reach' = Reach(b) /\ rest' = Left(b) - headerLength(b)
    /\ UNCHANGED <<client, poller, lifeVars, handlerVars, firstRTP, payload, stunVars>>

-----------------------------------------------------------------------------
(* STUN on the RTP socket.                                                 *)

\* sendStunRequest in three steps: sendto, and the two flags.
Ask ==
    /\ client = "open" /\ ~mStunRequested /\ asks < MaxAsks
    /\ asks' = asks + 1 /\ answers' = answers \cup {asks + 1}
    /\ client' = "asked"
    /\ UNCHANGED <<poller, lifeVars, handlerVars, parseVars, mStunRequested, mStunResponsed,
                   port, ipv4, answer, torn>>

Asked ==
    /\ \/ /\ client = "asked" /\ client' = "marked"
          /\ mStunRequested' = TRUE /\ UNCHANGED mStunResponsed
       \/ /\ client = "marked" /\ client' = "open"
          /\ mStunResponsed' = FALSE /\ UNCHANGED mStunRequested
    /\ UNCHANGED <<poller, lifeVars, handlerVars, parseVars, port, ipv4, asks, answers,
                   answer, torn>>

\* dropStunParsing in two steps.
Drop ==
    /\ \/ /\ client = "open" /\ client' = "dropped"
          /\ mStunRequested' = FALSE /\ mStunResponsed' = FALSE
          /\ torn' = (torn \/ poller \in {"port", "ipv4", "flag"})
          /\ UNCHANGED <<port, ipv4>>
       \/ /\ client = "dropped" /\ client' = "open"
          /\ port' = 0 /\ ipv4' = 0
          /\ UNCHANGED <<mStunRequested, mStunResponsed, torn>>
    /\ UNCHANGED <<poller, lifeVars, handlerVars, parseVars, asks, answers, answer>>

\* An answer is lost, or dropped by a read that does not wait for one or whose
\* walk over the attributes does not find the address.
Ignored ==
    /\ poller \in {"idle", "rtp"}
    /\ \E a \in answers : answers' = answers \ {a}
    /\ poller' = "idle"
    /\ UNCHANGED <<client, lifeVars, handlerVars, parseVars, mStunRequested, mStunResponsed,
                   port, ipv4, asks, answer, torn>>

\* receive of an answer, whichever request it belongs to.
ReceiveSTUN ==
    /\ poller = "rtp" /\ mStunRequested /\ ~mStunResponsed
    /\ \E a \in answers : answer' = a /\ answers' = answers \ {a}
    /\ torn' = FALSE
    /\ poller' = "port"
    /\ UNCHANGED <<client, lifeVars, handlerVars, parseVars, mStunRequested, mStunResponsed,
                   port, ipv4, asks>>

parseStunResponse_hasty ==
    /\ \/ poller = "port" /\ poller' = "ipv4" /\ port' = answer /\ mStunResponsed' = TRUE
          /\ UNCHANGED ipv4
       \/ poller = "ipv4" /\ poller' = "flag" /\ ipv4' = answer
          /\ UNCHANGED <<port, mStunResponsed>>
       \/ poller = "flag" /\ poller' = "idle" /\ UNCHANGED <<port, ipv4, mStunResponsed>>
    /\ UNCHANGED <<client, lifeVars, handlerVars, parseVars, mStunRequested, asks, answers,
                   answer, torn>>
\* The rest of parseStunResponse, in the order of its writes.  Its walk over the
\* attributes, whose lengths it takes from the datagram without a comparison with
\* the size received, is left out but for its outcome: the address is found, or
\* the answer is Ignored.
parseStunResponse ==
    /\ \/ poller = "port" /\ poller' = "ipv4" /\ port' = answer
          /\ UNCHANGED <<ipv4, mStunResponsed>>
       \/ poller = "ipv4" /\ poller' = "flag" /\ ipv4' = answer
          /\ UNCHANGED <<port, mStunResponsed>>
       \/ poller = "flag" /\ poller' = "idle" /\ mStunResponsed' = TRUE
          /\ UNCHANGED <<port, ipv4>>
    /\ UNCHANGED <<client, lifeVars, handlerVars, parseVars, mStunRequested, asks, answers,
                   answer, torn>>

-----------------------------------------------------------------------------

Client ==
    \/ InitRTCP \/ InitTimer \/ InitRTP \/ Release \/ Discard
    \/ SetHandler \/ UnsetHandler \/ Ask \/ Asked \/ Drop

PollerGoesOn ==
    \/ Report \/ Scheduled \/ ReceiveRTP \/ Handled \/ ReadRTCP \/ ParsedRTCP \/ ParseRTCP
    \/ parseStunResponse

Next == Client \/ PollerGoesOn \/ Fire \/ ReadRTP \/ FetchRTCP \/ ReceiveSTUN \/ Ignored

\* Handlers are carried on with.  The poller serves a timer that is due however
\* many reads there are, see PollerLoop.
Spec == Init /\ [][Next]_vars /\ WF_vars(PollerGoesOn) /\ SF_vars(Fire)

-----------------------------------------------------------------------------

\* A transport in use has one report timer, never none and never two: it is armed,
\* under the id the destructor will discard, or its handler is about to arm it.
OneTimer ==
    client \in Using =>
        /\ Cardinality(armed) = IF poller = "report" THEN 0 ELSE 1
        /\ poller \notin Reporting => armed = {mEventId}

\* A transport that is gone leaves no timer behind, neither after its use nor when
\* create gives up half-way: provided the destructor did not run, on the client's
\* thread, while the poller was in the timer's handler.
NoOrphan == client = "gone" /\ ~overlap => armed = {} /\ poller \notin Reporting

\* Once setHandler(NULL) has returned no read handler runs, of either socket, until
\* one is set: the client may destroy what its handler uses.
QuietAfterUnset == quiet => poller \notin Reading

\* The payload parseRTP reports lies between the headers and the padding of the
\* datagram, whatever lengths it claims.
PayloadInside ==
    payload.ok => payload.offset >= 12 /\ payload.length >= 0
                  /\ payload.offset + payload.length = payload.left

\* No turn of parseRTCP reads beyond the bytes that are left of the datagram,
\* whatever came before in it.
ReadsInside == [][poller = "rtcp" /\ rest' # rest => reach' <= rest]_vars

\* An address getStunReflect returns is one answer's, port and number, unless
\* dropStunParsing was called in the middle of its parse.
StunWhole == mStunResponsed /\ ~torn => port = ipv4 /\ port # 0

\* Reports go on for as long as the transport is in use: reads end, whatever they
\* have to parse, and each report sees to the next.
ReportsFlow == client \in Using ~> poller = "report" \/ client \notin Using
=============================================================================
