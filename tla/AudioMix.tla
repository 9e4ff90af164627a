------------------------------ MODULE AudioMix ------------------------------
(***************************************************************************)
(* AudioConfMix: a list of nodes and a thread that, every 5 ms, pulls one  *)
(* block from each of them and pushes to each the sum of the others.  A    *)
(* block is one sample.                                                    *)
(***************************************************************************)
EXTENDS MixThread, NodeLists

CONSTANTS
    Drivers,   \* nodes of the sound devices, which rank before the callers'
    Codecs,    \* nodes of the callers (NODE_A_IP_CODEC)
    Sample,    \* the sample each node delivers
    Peak,      \* 32767
    MaxMix,    \* MAX_MIX_OBJECT
    MaxVoip    \* MAX_VOIP_OBJECT

AudioNodes == Drivers \cup Codecs
Slots == 1 .. MaxMix

ASSUME AudioAssumption ==
    /\ Drivers \cap Codecs = {}
    /\ Peak \in Nat /\ MaxMix \in Nat \ {0} /\ MaxVoip \in Nat
    /\ Sample \in [AudioNodes -> -Peak - 1 .. Peak]

VARIABLES
    aNodes,    \* mNodeList
    aClients,  \* IConfMix::mClientNum of the audio mixer
    mMixNum,
    mstate,
    inKeep,    \* slots with AudioIn[].amp = MIX_KEEP_0dB, others MIX_DISABLE
    outKeep,   \* the same of AudioOut[]
    round,     \* what the last mixing round pulled and pushed
    aOver      \* a caller has been refused at MAX_VOIP_OBJECT, and kept

audioVars == <<aNodes, aClients, mMixNum, mstate, inKeep, outKeep, round, aOver>>
listVars == <<aNodes, aClients, mMixNum, aOver>>
ampVars == <<inKeep, outKeep, round>>

NoRound == [list |-> <<>>, live |-> {}, pushed |-> <<>>]

AudioInit ==
    /\ aNodes = <<>> /\ aClients = 0 /\ mMixNum = 0 /\ mstate = FALSE
    /\ inKeep = {} /\ outKeep = {}
    /\ round = NoRound /\ aOver = FALSE

-----------------------------------------------------------------------------
(* mixfunc.c.                                                              *)

sature32(x) == IF x > Peak THEN Peak ELSE IF x < -Peak - 1 THEN -Peak - 1 ELSE x

fastmix_pre_amp(in, keep) == [k \in Slots |-> IF k \in keep THEN in[k] ELSE 0]

fastmix_add(in) ==
    LET sum[n \in 0 .. MaxMix] == IF n = 0 THEN 0 ELSE sum[n - 1] + in[n]
    IN  sum[MaxMix]

fastmix_sub_amp(total, in, keep) ==
    [k \in Slots |-> IF k \in keep THEN sature32(total - in[k]) ELSE 0]

-----------------------------------------------------------------------------
(* The thread.  mMixLock is held from the wake-up to the end of the round. *)

AudioEnter ==
    /\ at["audio"] = "enter"
    /\ mstate' = TRUE
    /\ Goto("audio", "loop")
    /\ UNCHANGED <<mRunning, mExitPending, mFailed, listVars, ampVars>>

AudioTop_keeps ==
    /\ at["audio"] = "loop"
    /\ Goto("audio", IF "audio" \in mExitPending THEN "left" ELSE "wait")
    /\ round' = NoRound
    /\ UNCHANGED <<mRunning, mExitPending, mFailed, listVars, mstate, inKeep, outKeep>>
\* The head of the loop: every slot is muted, and the wait begins.
AudioTop ==
    /\ at["audio"] = "loop"
    /\ Goto("audio", IF "audio" \in mExitPending THEN "left" ELSE "wait")
    /\ inKeep' = {} /\ outKeep' = {} /\ round' = NoRound
    /\ UNCHANGED <<mRunning, mExitPending, mFailed, listVars, mstate>>

AudioUnwanted ==
    /\ at["audio"] = "wait" /\ "audio" \in mExitPending
    /\ Goto("audio", "left")
    /\ UNCHANGED <<mRunning, mExitPending, mFailed, audioVars>>

Woken ==
    /\ at["audio"] = "wait" /\ "audio" \notin mExitPending
    /\ Goto("audio", "loop")
    /\ UNCHANGED <<mRunning, mExitPending, mFailed, listVars, mstate>>

\* The first n nodes are pulled, of which those in loud are not muted.
Pull(n, loud) ==
    /\ inKeep' = inKeep \cup {k \in 1 .. n : k = 1 \/ k \in loud}
    /\ outKeep' = outKeep \cup 1 .. n

\* The pull of some node fails, and the round with it.  With no node to pull the
\* result tested is an uninitialised one.
AudioStarved ==
    /\ Woken /\ aClients # 0
    /\ \E n \in 0 .. Len(aNodes) :
          /\ n < Len(aNodes) \/ aNodes = <<>>
          /\ \E loud \in {{}, 1 .. n} : Pull(n, loud)
    /\ UNCHANGED round

\* A whole round: pull, mix and push, with nobody else, the second or everybody
\* unmuted.  A slot nobody was pulled into holds what
\* an earlier round has left there, for which Peak stands.
AudioMixed ==
    /\ Woken /\ aClients # 0
    /\ \E loud \in {{}, {2}, DOMAIN aNodes} :
          LET n   == Len(aNodes)
              in  == fastmix_pre_amp([k \in Slots |-> IF k <= n THEN Sample[aNodes[k]] ELSE Peak],
                                     inKeep')
              out == fastmix_sub_amp(fastmix_add(in), in, outKeep')
          IN  /\ Pull(n, loud)
              /\ round' = [list |-> aNodes, live |-> {k \in 1 .. n : k = 1 \/ k \in loud},
                           pushed |-> SubSeq(out, 1, n)]

\* Without callers the two devices are connected to each other, unmixed.
AudioCrossed ==
    /\ Woken /\ aClients = 0 /\ Len(aNodes) >= 2
    /\ UNCHANGED ampVars

AudioLeave_busy ==
    /\ at["audio"] = "left"
    /\ Goto("audio", "end")
    /\ UNCHANGED <<mRunning, mExitPending, mFailed, audioVars>>
AudioLeave ==
    /\ at["audio"] = "left"
    /\ mstate' = FALSE
    /\ Goto("audio", "end")
    /\ UNCHANGED <<mRunning, mExitPending, mFailed, listVars, ampVars>>

AudioThread ==
    \/ (Born("audio", "enter") \/ Ended("audio")) /\ UNCHANGED audioVars
    \/ AudioEnter \/ AudioTop \/ AudioUnwanted \/ AudioLeave
    \/ AudioStarved \/ AudioMixed \/ AudioCrossed

-----------------------------------------------------------------------------
(* What the conference calls, each under mMixLock.                         *)

audioRank == [n \in AudioNodes |-> IF n \in Drivers THEN 0 ELSE 1]

AudioFull == Len(aNodes) >= MaxMix

\* A caller beyond MAX_VOIP_OBJECT is refused, but not before it is in the list.
OverLimit(n) == n \in Codecs /\ aClients >= MaxVoip

AudioInsert(n) ==
    /\ ~AudioFull
    /\ \E j \in 1 .. Len(aNodes) + 1 :
          Joins(aNodes, j, n, audioRank) /\ aNodes' = InsertAt(aNodes, j, n)
    /\ aClients' = IF n \in Codecs /\ ~OverLimit(n) THEN aClients + 1 ELSE aClients
    /\ mMixNum' = IF OverLimit(n) THEN mMixNum ELSE mMixNum + 1
    /\ aOver' = (aOver \/ OverLimit(n))
    /\ UNCHANGED <<mstate, ampVars, threadVars>>

AudioRemove_uncounted(n) ==
    /\ \E i \in DOMAIN aNodes : aNodes[i] = n /\ aNodes' = RemoveAt(aNodes, i)
    /\ mMixNum' = mMixNum - 1
    /\ UNCHANGED <<aClients, aOver, mstate, ampVars, threadVars>>
AudioRemove(n) ==
    /\ \E i \in DOMAIN aNodes : aNodes[i] = n /\ aNodes' = RemoveAt(aNodes, i)
    /\ aClients' = IF n \in Codecs THEN aClients - 1 ELSE aClients
    /\ mMixNum' = mMixNum - 1
    /\ UNCHANGED <<aOver, mstate, ampVars, threadVars>>

\* start returning NO_ERROR, and start returning an error.
AudioStart ==
    /\ IF mstate THEN UNCHANGED threadVars ELSE run("audio")
    /\ UNCHANGED audioVars

AudioStartFails ==
    /\ ~mstate
    /\ RunRefused("audio") \/ RunFails("audio")
    /\ UNCHANGED audioVars

AudioReset == requestExit("audio") /\ UNCHANGED audioVars
=============================================================================
