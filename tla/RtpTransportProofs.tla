------------------------- MODULE RtpTransportProofs -------------------------
(***************************************************************************)
(* What RtpTransport promises, for every size of datagram, every content   *)
(* of its length fields, any number of STUN requests and any range of      *)
(* timer ids.                                                              *)
(*                                                                         *)
(* The client and the poller share the transport without a common lock, so *)
(* each promise needs to know what one thread may be doing while the other *)
(* is at a given place.  The invariant has one part per resource: the      *)
(* report timer, the two read handlers, the datagram being parsed and the  *)
(* reflected address.                                                      *)
(***************************************************************************)
EXTENDS RtpTransport, FiniteSetTheorems, TLAPS

USE RtpAssumption

Ids == 0 .. IdMask
ParsingSTUN == {"port", "ipv4", "flag"}

RtpTypes ==
    /\ client \in {"none", "timer", "socket", "delete", "discard", "gone"} \cup Using
    /\ poller \in {"idle", "held"} \cup Reporting \cup Reading
    /\ mEventId \in Ids \cup {-1} /\ nextId \in Ids /\ armed \subseteq Ids
    /\ rest \in Nat /\ asks \in Nat /\ answers \subseteq Nat \ {0}

Flags ==
    /\ overlap \in BOOLEAN /\ quiet \in BOOLEAN /\ torn \in BOOLEAN
    /\ mStunRequested \in BOOLEAN /\ mStunResponsed \in BOOLEAN

\* The id that was given out last.
LastId == (nextId + IdMask) % (IdMask + 1)

\* From its arming in init to the end of the object's life there is one timer, or
\* one run of its handler: what mEventId names, but for the handler's last step.
TimerInv ==
    /\ client \in {"none", "timer"} => mEventId = -1
    /\ client \in {"socket", "discard"} \cup Using => mEventId # -1
    /\ mEventId = -1 => armed = {} /\ poller \notin Reporting
    /\ mEventId # -1 /\ client # "gone" =>
          armed = IF poller = "report" THEN {}
                  ELSE IF poller = "scheduled" THEN {LastId} ELSE {mEventId}
    /\ client \in {"discard", "gone"} /\ ~overlap => poller \notin Reporting
    /\ NoOrphan

\* A handler runs only while its callback is set, or while the client that unsets
\* it waits for mCallLock.
HandlerInv ==
    /\ client = "unset" => "rtp" \notin mCallback /\ poller \notin ReadingRTP
    /\ quiet => mCallback = {}
    /\ mCallback \subseteq {"rtp", "rtcp"}
    /\ QuietAfterUnset

\* An address is assembled from one answer, with mStunResponsed down, unless a
\* drop came between; a client in the middle of a drop is asking for nothing.
StunInv ==
    /\ poller \in ParsingSTUN => ~mStunResponsed /\ answer # 0
    /\ ~torn => /\ poller \in {"ipv4", "flag"} => port = answer
                /\ poller = "flag" => ipv4 = answer
    /\ client = "dropped" => /\ ~mStunRequested
                             /\ torn \/ (~mStunResponsed /\ poller \notin ParsingSTUN)
    /\ StunWhole

RtpInv == RtpTypes /\ Flags /\ TimerInv /\ HandlerInv /\ PayloadInside /\ StunInv

-----------------------------------------------------------------------------
(* The parsers.                                                            *)

\* What parseRTP accepts lies inside what it was given, whatever the padding, the
\* number of CSRCs and the extension claim.
LEMMA ParsedInside ==
    ASSUME NEW d \in Datagrams, parseRTP(d).ok
    PROVE  /\ parseRTP(d).offset >= 12 /\ parseRTP(d).length >= 0
           /\ parseRTP(d).offset + parseRTP(d).length = parseRTP(d).left
<1>1. /\ d.size \in Nat /\ d.pad \in Nat /\ d.csrcs \in Nat /\ d.extension \in Nat
      /\ d.padded \in BOOLEAN /\ d.extended \in BOOLEAN
  BY ZenonT(30) DEF Datagrams
<1> QED BY SMT, SMTT(30), <1>1 DEF parseRTP

\* The largest of three numbers is one of them.
LEMMA MaxOfThree ==
    ASSUME NEW a \in Nat, NEW b \in Nat, NEW c \in Nat
    PROVE  Max({a, b, c}) \in {a, b, c}
<1>1. \E x \in {a, b, c} : \A y \in {a, b, c} : x >= y
  <2>1. CASE a >= b /\ a >= c BY SMT, SMTT(30), <2>1
  <2>2. CASE b >= a /\ b >= c BY SMT, SMTT(30), <2>2
  <2>3. CASE c >= a /\ c >= b BY SMT, SMTT(30), <2>3
  <2> QED BY SMT, SMTT(30), <2>1, <2>2, <2>3
<1> QED BY <1>1 DEF Max

\* A turn of parseRTCP reads nothing behind the bytes that are left, and leaves a
\* natural number of them for the next.
LEMMA TurnInside ==
    ASSUME rest \in Nat, rest >= 8, NEW b \in Blocks, Sound(b)
    PROVE  Reach(b) <= rest /\ Left(b) - headerLength(b) \in Nat
<1>1. /\ b.pad \in Nat /\ b.words \in Nat /\ b.count \in Nat /\ b.padded \in BOOLEAN
      /\ b.type \in {"SR", "BYE", "other"}
  BY ZenonT(30) DEF Blocks
<1>2. headerLength(b) \in Nat /\ Left(b) \in Nat /\ Left(b) <= rest /\ headerLength(b) <= Left(b)
  BY SMT, SMTT(30), <1>1 DEF headerLength, Left, Sound
<1>3. parseSR(b) \in Nat /\ parseSR(b) <= rest
  BY SMT, SMTT(30), <1>1, <1>2 DEF parseSR
<1>4. parseBYE(b) \in Nat /\ parseBYE(b) <= rest
  BY SMT, SMTT(30), <1>1, <1>2 DEF parseBYE
<1> DEFINE p == IF b.padded THEN rest ELSE 0
           q == CASE b.type = "SR" -> parseSR(b) [] b.type = "BYE" -> parseBYE(b) [] OTHER -> 0
<1>5. p \in Nat /\ p <= rest /\ q \in Nat /\ q <= rest
  BY SMT, SMTT(30), <1>1, <1>3, <1>4
<1>6. Reach(b) = Max({4, p, q})
  BY DEF Reach
<1> HIDE DEF p, q
<1> QED BY SMT, SMTT(30), <1>2, <1>5, <1>6, MaxOfThree

-----------------------------------------------------------------------------
(* Ids, which wrap around.                                                 *)

LEMMA NextIds ==
    ASSUME NEW m \in Nat \ {0}, NEW n \in 0 .. m - 1
    PROVE  (n + 1) % m \in 0 .. m - 1 /\ (((n + 1) % m) + (m - 1)) % m = n /\ (n + (m - 1)) % m \in 0 .. m - 1
  BY SMT, SMTT(30)

LEMMA ArmedIds ==
    ASSUME RtpTypes
    PROVE  /\ LastId \in Ids
           /\ Arm => /\ nextId' \in Ids /\ LastId' = nextId
                     /\ armed' = armed \cup {nextId} /\ armed' \subseteq Ids
<1>1. IdMask + 1 \in Nat \ {0} /\ nextId \in 0 .. (IdMask + 1) - 1 /\ IdMask = (IdMask + 1) - 1
  BY SMT, SMTT(30) DEF RtpTypes, Ids
<1> DEFINE m == IdMask + 1
<1>2. /\ (nextId + 1) % m \in 0 .. m - 1 /\ (((nextId + 1) % m) + (m - 1)) % m = nextId
      /\ (nextId + (m - 1)) % m \in 0 .. m - 1
  BY <1>1, NextIds
<1> QED BY ZenonT(30), <1>1, <1>2 DEF Arm, LastId, RtpTypes, Ids

-----------------------------------------------------------------------------
LEMMA RtpInitially == Init => RtpInv
<1> SUFFICES ASSUME Init PROVE RtpInv
  OBVIOUS
<1>1. RtpTypes
  BY SMT, SMTT(30) DEF Init, RtpTypes, Ids, Using, Reporting, Reading, ReadingRTP
<1>4. Flags
  BY ZenonT(30) DEF Init, Flags
<1>2. TimerInv /\ HandlerInv
  BY DEF Init, TimerInv, HandlerInv, NoOrphan, QuietAfterUnset, Using, Reporting, Reading, ReadingRTP
<1>3. PayloadInside /\ StunInv
  BY ZenonT(30) DEF Init, PayloadInside, NoPayload, StunInv, StunWhole, ParsingSTUN
<1> QED BY <1>1, <1>2, <1>3, <1>4 DEF RtpInv

\* Each action belongs to one thread, and an action of one thread leaves the place
\* of the other alone.
LEMMA TypesStep == RtpTypes /\ [Next]_vars => RtpTypes'
<1> SUFFICES ASSUME RtpTypes, [Next]_vars PROVE RtpTypes'
  OBVIOUS
<1> USE DEF RtpTypes, vars, lifeVars, handlerVars, parseVars, stunVars, Ids, Using, Reporting, Reading, ReadingRTP
<1>1. CASE InitRTCP \/ InitTimer \/ InitRTP
  BY ZenonT(30), <1>1, ArmedIds DEF InitRTCP, InitTimer, InitRTP
<1>2. CASE Release \/ Discard
  BY ZenonT(30), <1>2 DEF Release, Discard
<1>3. CASE SetHandler \/ UnsetHandler
  BY ZenonT(30), <1>3 DEF SetHandler, UnsetHandler
<1>4. CASE Ask
  <2>1. asks + 1 \in Nat \ {0}
    BY SMT, SMTT(30)
  <2> QED BY ZenonT(30), <1>4, <2>1 DEF Ask
<1>11. CASE Asked \/ Drop
  BY ZenonT(30), <1>11 DEF Asked, Drop
<1>5. CASE Fire \/ Report \/ Scheduled
  BY ZenonT(30), <1>5, ArmedIds DEF Fire, Report, Scheduled, LastId
<1>6. CASE ReadRTP \/ ReceiveRTP \/ Handled
  BY ZenonT(30), <1>6 DEF ReadRTP, ReceiveRTP, Handled
<1>7. CASE FetchRTCP \/ ReadRTCP
  <2>1. Sizes \cup {Capacity} \subseteq Nat
    BY ZenonT(30)
  <2> QED BY <1>7, <2>1, ZenonT(30) DEF FetchRTCP, ReadRTCP
<1>12. CASE ParsedRTCP
  BY <1>12, ZenonT(30) DEF ParsedRTCP
<1>8. CASE ParseRTCP
  <2>1. rest' \in Nat
    BY <1>8, TurnInside DEF ParseRTCP
  <2> QED BY ZenonT(30), <1>8, <2>1 DEF ParseRTCP
<1>9. CASE ReceiveSTUN \/ Ignored \/ parseStunResponse
  BY ZenonT(30), <1>9 DEF ReceiveSTUN, Ignored, parseStunResponse
<1>10. CASE UNCHANGED vars
  BY <1>10
<1> QED BY ZenonT(30), <1>1, <1>2, <1>3, <1>4, <1>5, <1>6, <1>7, <1>8, <1>9, <1>10, <1>11, <1>12
  DEF Next, Client, PollerGoesOn

LEMMA FlagsStep == Flags /\ [Next]_vars => Flags'
<1> SUFFICES ASSUME Flags, [Next]_vars PROVE Flags'
  OBVIOUS
<1> USE DEF Flags, vars, lifeVars, handlerVars, stunVars
<1>1. CASE Client
  BY <1>1, ZenonT(30) DEF Client, InitRTCP, InitTimer, InitRTP, Release, Discard, SetHandler, UnsetHandler,
     Ask, Asked, Drop
<1>2. CASE PollerGoesOn
  BY <1>2, ZenonT(30)
    DEF PollerGoesOn, Report, Scheduled, ReceiveRTP, Handled, ReadRTCP, ParsedRTCP, ParseRTCP,
     parseStunResponse
<1>3. CASE Fire \/ ReadRTP \/ FetchRTCP \/ ReceiveSTUN \/ Ignored \/ UNCHANGED vars
  BY <1>3, ZenonT(30) DEF Fire, ReadRTP, FetchRTCP, ReceiveSTUN, Ignored
<1> QED BY <1>1, <1>2, <1>3 DEF Next

LEMMA TimerStep == RtpTypes /\ Flags /\ TimerInv /\ [Next]_vars => TimerInv'
<1> SUFFICES ASSUME RtpTypes, Flags, TimerInv, [Next]_vars PROVE TimerInv'
  OBVIOUS
<1> USE DEF RtpTypes, Flags, TimerInv, NoOrphan, vars, lifeVars, Ids, Using, Reporting
<1>0. nextId' = nextId => LastId' = LastId
  BY DEF LastId
<1>1. CASE InitRTCP \/ InitRTP
  BY ZenonT(30), <1>0, <1>1 DEF InitRTCP, InitRTP
<1>10. CASE InitTimer
  <2>1. mEventId = -1 /\ armed' = {nextId} /\ nextId # -1
    BY SMT, SMTT(30), <1>10, ArmedIds DEF InitTimer
  <2> QED BY ZenonT(30), <1>10, <2>1 DEF InitTimer
<1>2. CASE Release \/ Discard
  BY ZenonT(30), <1>0, <1>2 DEF Release, Discard
<1>3. CASE Fire
  BY ZenonT(30), <1>0, <1>3 DEF Fire
<1>4. CASE Report
  BY ZenonT(30), <1>4, ArmedIds DEF Report
<1>5. CASE Scheduled
  BY SMT, SMTT(30), <1>5, ArmedIds DEF Scheduled, LastId
<1>6. CASE SetHandler \/ UnsetHandler \/ Ask \/ Asked \/ Drop
  BY ZenonT(30), <1>0, <1>6 DEF SetHandler, UnsetHandler, Ask, Asked, Drop
<1>7. CASE ReadRTP \/ ReceiveRTP \/ Handled \/ FetchRTCP \/ ReadRTCP \/ ParsedRTCP \/ ParseRTCP
  BY ZenonT(30), <1>0, <1>7 DEF ReadRTP, ReceiveRTP, Handled, FetchRTCP, ReadRTCP, ParsedRTCP, ParseRTCP
<1>8. CASE ReceiveSTUN \/ Ignored \/ parseStunResponse
  BY ZenonT(30), <1>0, <1>8 DEF ReceiveSTUN, Ignored, parseStunResponse
<1>9. CASE UNCHANGED vars
  BY ZenonT(30), <1>0, <1>9
<1> QED BY ZenonT(30), <1>1, <1>2, <1>3, <1>4, <1>5, <1>6, <1>7, <1>8, <1>9, <1>10
  DEF Next, Client, PollerGoesOn

LEMMA HandlerStep == HandlerInv /\ [Next]_vars => HandlerInv'
<1> SUFFICES ASSUME HandlerInv, [Next]_vars PROVE HandlerInv'
  OBVIOUS
<1> USE DEF HandlerInv, QuietAfterUnset
<1>1. CASE SetHandler
  BY ZenonT(30), <1>1 DEF SetHandler
<1>2. CASE UnsetHandler
  <2>1. CASE client = "open"
    <3>1. /\ mCallback' = mCallback \ {"rtp"} /\ quiet' = quiet /\ poller' = poller
          /\ poller \notin ReadingRTP
      BY ZenonT(30), <1>2, <2>1 DEF UnsetHandler
    <3> QED BY <3>1
  <2>2. CASE client = "unset"
    <3>1. mCallback' = mCallback \ {"rtcp"} /\ client' = "open" /\ poller' = poller /\ poller # "rtcp"
      BY <1>2, <2>2 DEF UnsetHandler
    <3>2. mCallback' = {}
      BY <2>2, <3>1
    <3> QED BY <2>2, <3>1, <3>2 DEF Reading
  <2> QED BY <1>2, <2>1, <2>2, ZenonT(30) DEF UnsetHandler
<1>3. CASE Release \/ Discard
  <2>1. client' # "unset" /\ poller' = poller /\ mCallback' \subseteq mCallback /\ quiet' = quiet
    BY <1>3 DEF Release, Discard, DropRTCP
  <2> QED BY ZenonT(30), <2>1
<1>4. CASE InitRTCP \/ InitTimer \/ InitRTP \/ Ask \/ Asked \/ Drop
  <2>1. client' # "unset" /\ poller' = poller /\ mCallback' = mCallback /\ quiet' = quiet
    BY <1>4 DEF InitRTCP, InitTimer, InitRTP, Ask, Asked, Drop, handlerVars
  <2> QED BY ZenonT(30), <2>1
<1>5. CASE /\ client' = client /\ mCallback' = mCallback /\ quiet' = quiet
           /\ poller' \in ReadingRTP => poller \in ReadingRTP \/ "rtp" \in mCallback
           /\ poller' \in Reading => poller \in Reading \/ mCallback # {}
  BY ZenonT(30), <1>5
<1>6. CASE ReadRTP \/ ReceiveRTP \/ Handled \/ FetchRTCP \/ ReadRTCP \/ ParsedRTCP \/ ParseRTCP
  BY ZenonT(30), <1>5, <1>6
    DEF ReadRTP, ReceiveRTP, Handled, FetchRTCP, ReadRTCP, ParsedRTCP, ParseRTCP, Reading, ReadingRTP, handlerVars
<1>7. CASE ReceiveSTUN \/ Ignored \/ parseStunResponse
  BY ZenonT(30), <1>5, <1>7 DEF ReceiveSTUN, Ignored, parseStunResponse, Reading, ReadingRTP, handlerVars
<1>8. CASE Fire \/ Report \/ Scheduled \/ UNCHANGED vars
  BY ZenonT(30), <1>5, <1>8 DEF Fire, Report, Scheduled, vars, Reading, ReadingRTP, handlerVars
<1> QED BY ZenonT(30), <1>1, <1>2, <1>3, <1>4, <1>6, <1>7, <1>8 DEF Next, Client, PollerGoesOn

LEMMA PayloadStep == PayloadInside /\ [Next]_vars => PayloadInside'
<1> SUFFICES ASSUME PayloadInside, [Next]_vars PROVE PayloadInside'
  OBVIOUS
<1>1. CASE ReceiveRTP
  <2>1. PICK found \in Findings : payload' = IF found.ok THEN found ELSE NoPayload
    BY <1>1 DEF ReceiveRTP
  <2>2. PICK d \in Datagrams : found = parseRTP(d)
    BY DEF Findings
  <2>3. CASE found.ok
    BY <2>1, <2>2, <2>3, ParsedInside, ZenonT(30) DEF PayloadInside
  <2>4. CASE ~found.ok
    BY ZenonT(30), <2>1, <2>4 DEF PayloadInside, NoPayload
  <2> QED BY <2>3, <2>4
<1>2. CASE Handled
  BY <1>2 DEF Handled, PayloadInside, NoPayload
<1>3. CASE payload' = payload
  BY ZenonT(30), <1>3 DEF PayloadInside
<1> QED
  BY <1>1, <1>2, <1>3, ZenonT(30)
    DEF Next, Client, PollerGoesOn, vars, parseVars, InitRTCP, InitTimer, InitRTP, Release,
     Discard, SetHandler, UnsetHandler, Ask, Asked, Drop, Report, Scheduled, ParsedRTCP, ParseRTCP,
     parseStunResponse, Fire, ReadRTP, FetchRTCP, ReadRTCP, ReceiveSTUN, Ignored

LEMMA StunStep == RtpTypes /\ Flags /\ StunInv /\ [Next]_vars => StunInv'
<1> SUFFICES ASSUME RtpTypes, Flags, StunInv, [Next]_vars PROVE StunInv'
  OBVIOUS
<1> USE DEF RtpTypes, Flags, StunInv, StunWhole, vars, stunVars, Using, ParsingSTUN
<1>1. CASE Ask
  BY ZenonT(30), <1>1 DEF Ask
<1>2. CASE Asked
  BY SMT, SMTT(30), <1>2 DEF Asked
<1>3. CASE Drop
  <2>1. CASE client = "open"
    BY <1>3, <2>1, ZenonT(30) DEF Drop
  <2>2. CASE client = "dropped"
    <3>1. /\ client' = "open" /\ poller' = poller /\ port' = 0 /\ ipv4' = 0
          /\ UNCHANGED <<mStunRequested, mStunResponsed, torn, answer>>
      BY ZenonT(30), <1>3, <2>2 DEF Drop
    <3> QED BY ZenonT(30), <2>2, <3>1
  <2> QED BY <1>3, <2>1, <2>2, ZenonT(30) DEF Drop
<1>4. CASE ReceiveSTUN
  BY ZenonT(30), <1>4 DEF ReceiveSTUN
<1>5. CASE parseStunResponse
  BY SMT, SMTT(30), <1>5 DEF parseStunResponse
<1>6. CASE Ignored
  BY ZenonT(30), <1>6 DEF Ignored
<1>7. CASE InitRTCP \/ InitTimer \/ InitRTP \/ Release \/ Discard \/ SetHandler \/ UnsetHandler
  BY SMT, SMTT(30), <1>7 DEF InitRTCP, InitTimer, InitRTP, Release, Discard, SetHandler, UnsetHandler
<1>8. CASE ReadRTP \/ ReceiveRTP \/ Handled \/ FetchRTCP \/ ReadRTCP \/ ParsedRTCP \/ ParseRTCP
  BY SMT, SMTT(30), <1>8 DEF ReadRTP, ReceiveRTP, Handled, FetchRTCP, ReadRTCP, ParsedRTCP, ParseRTCP
<1>9. CASE Fire \/ Report \/ Scheduled \/ UNCHANGED vars
  BY SMT, SMTT(30), <1>9 DEF Fire, Report, Scheduled
<1> QED BY ZenonT(30), <1>1, <1>2, <1>3, <1>4, <1>5, <1>6, <1>7, <1>8, <1>9 DEF Next, Client, PollerGoesOn

\* The invariant of the transport is inductive.
LEMMA RtpStep == RtpInv /\ [Next]_vars => RtpInv'
  BY TypesStep, FlagsStep, TimerStep, HandlerStep, PayloadStep, StunStep, ZenonT(30) DEF RtpInv

LEMMA RtpInvariant == Spec => []RtpInv
  BY RtpInitially, RtpStep, PTL DEF Spec

-----------------------------------------------------------------------------
\* A transport in use has one report timer, never none and never two, whatever
\* handleTimeout, the client and the wrapping of ids do.
THEOREM OneTimerHolds == Spec => []OneTimer
<1>1. RtpInv => OneTimer
  <2> SUFFICES ASSUME RtpInv, client \in Using
               PROVE  /\ Cardinality(armed) = IF poller = "report" THEN 0 ELSE 1
                      /\ poller \notin Reporting => armed = {mEventId}
    BY DEF OneTimer
  <2>1. armed = IF poller = "report" THEN {} ELSE IF poller = "scheduled" THEN {LastId} ELSE {mEventId}
    BY DEF RtpInv, TimerInv, Using
  <2>2. Cardinality({}) = 0 /\ Cardinality({LastId}) = 1 /\ Cardinality({mEventId}) = 1
    BY ZenonT(30), FS_EmptySet, FS_Singleton
  <2> QED BY <2>1, <2>2 DEF Reporting
<1> QED BY <1>1, RtpInvariant, PTL

\* A transport that is gone leaves no timer behind, after its use or when create
\* gives up half-way, if its destructor did not overlap with the timer's handler.
THEOREM NoOrphanHolds == Spec => []NoOrphan
<1>1. RtpInv => NoOrphan
  BY DEF RtpInv, TimerInv
<1> QED BY <1>1, RtpInvariant, PTL

\* Once setHandler(NULL) has returned no read handler runs until one is set.
THEOREM QuietAfterUnsetHolds == Spec => []QuietAfterUnset
<1>1. RtpInv => QuietAfterUnset
  BY DEF RtpInv, HandlerInv
<1> QED BY <1>1, RtpInvariant, PTL

\* The payload parseRTP reports lies between the headers and the padding, for every
\* content of the header.
THEOREM PayloadInsideHolds == Spec => []PayloadInside
<1>1. RtpInv => PayloadInside
  BY DEF RtpInv
<1> QED BY <1>1, RtpInvariant, PTL

\* The address getStunReflect returns is one answer's, however many requests,
\* answers and drops interleave.
THEOREM StunWholeHolds == Spec => []StunWhole
<1>1. RtpInv => StunWhole
  BY DEF RtpInv, StunInv
<1> QED BY <1>1, RtpInvariant, PTL

\* No turn of parseRTCP reads beyond the bytes that are left, for every content of
\* the blocks.
THEOREM ReadsInsideHolds == Spec => ReadsInside
<1>1. RtpInv /\ [Next]_vars => [poller = "rtcp" /\ rest' # rest => reach' <= rest]_vars
  <2> SUFFICES ASSUME RtpInv, Next, poller = "rtcp", rest' # rest PROVE reach' <= rest
    BY DEF vars, parseVars
  <2>0. rest \in Nat
    BY DEF RtpInv, RtpTypes
  <2>1. CASE ParseRTCP
    BY <2>0, <2>1, TurnInside DEF ParseRTCP
  <2>2. CASE ParsedRTCP
    BY SMT, SMTT(30), <2>0, <2>2 DEF ParsedRTCP
  <2> QED
    BY <2>1, <2>2, ZenonT(30)
      DEF Next, Client, PollerGoesOn, parseVars, InitRTCP, InitTimer, InitRTP, Release,
     Discard, SetHandler, UnsetHandler, Ask, Asked, Drop, Report, Scheduled, ReceiveRTP, Handled,
     parseStunResponse, Fire, ReadRTP, FetchRTCP, ReadRTCP, ReceiveSTUN, Ignored
<1> QED BY <1>1, RtpInvariant, PTL DEF ReadsInside, Spec
=============================================================================
