---------------------------- MODULE CompoundMix ----------------------------
(***************************************************************************)
(* A full conference: CompoundMix over one audio and one video mixer, the  *)
(* threads of the two, and the one thread that calls the conference.       *)
(***************************************************************************)
EXTENDS AudioMix, VideoMix

CONSTANT MaxCalls     \* calls of the conference, to keep runs finite

ASSUME CompoundAssumption == MaxCalls \in Nat

VARIABLES
    mClientNum,   \* IConfMix::mClientNum of the conference
    call,         \* where the calling thread is; "idle" between calls
    promised,     \* start has returned NO_ERROR, of a mixer that was not leaving
    calls         \* calls made

vars == <<threadVars, audioVars, videoVars, mClientNum, call, promised, calls>>

Init ==
    /\ ThreadInit /\ AudioInit /\ VideoInit
    /\ mClientNum = 0 /\ call = "idle" /\ promised = FALSE /\ calls = 0

\* A call is made while none is being carried out.
Called == call = "idle" /\ calls < MaxCalls /\ calls' = calls + 1

\* The calls that put the sound devices in, to begin with, do not count.
Installing(n) == call = "idle" /\ n \in Drivers /\ calls = 0 /\ UNCHANGED calls

doUpdateClientNum == mClientNum' = aClients' + vClients'

\* The two sound devices are in the list before the audio mixer runs, and stay
\* inside: its thread takes them for granted.
Wired == Drivers \subseteq Members(aNodes)

\* doInsertNode of an audio or of a video node.  That the node is not in the list
\* yet is the caller's obligation: neither mixer looks for it, and one that was put
\* in twice would be counted, and have to be taken out, twice.
InsertAudio(n) ==
    /\ Called \/ Installing(n)
    /\ n \notin Members(aNodes)
    /\ AudioInsert(n)
    /\ UNCHANGED <<videoVars, call, promised>>
    /\ IF OverLimit(n) THEN UNCHANGED mClientNum ELSE doUpdateClientNum

InsertVideo(n) ==
    /\ Called /\ n \notin Members(vNodes)
    /\ VideoInsert(n)
    /\ UNCHANGED <<audioVars, call, promised>>
    /\ doUpdateClientNum

RemoveAudio(n) ==
    /\ Called
    /\ AudioRemove(n)
    /\ UNCHANGED <<videoVars, call, promised>>
    /\ doUpdateClientNum

\* Removing a node that is not there still brings the number up to date.
RemoveAbsent ==
    /\ Called
    /\ AudioNodes # Members(aNodes)
    /\ mClientNum' = aClients + vClients
    /\ UNCHANGED <<threadVars, audioVars, videoVars, call, promised>>

RemoveVideo(n) ==
    /\ Called
    /\ VideoRemove(n)
    /\ UNCHANGED <<audioVars, call, promised>>
    /\ doUpdateClientNum

-----------------------------------------------------------------------------
(* start, which resets both mixers when one of them does not start.        *)

Leaving == "audio" \in mRunning \cap mExitPending

StartAudio ==
    /\ Called /\ Wired
    /\ \/ AudioStart /\ call' = "startVideo" /\ promised' = (promised \/ ~Leaving)
       \/ AudioStartFails /\ call' = "reset" /\ UNCHANGED promised
    /\ UNCHANGED <<videoVars, mClientNum>>

StartVideo ==
    /\ call = "startVideo"
    /\ \/ vClients = 0 /\ call' = "idle" /\ UNCHANGED <<threadVars, videoVars>>
       \/ vClients # 0 /\ VideoStart /\ call' = "idle"
       \/ vClients # 0 /\ VideoStartFails /\ call' = "reset"
    /\ UNCHANGED <<audioVars, mClientNum, promised, calls>>

-----------------------------------------------------------------------------
(* reset.                                                                  *)

ResetAudio ==
    /\ Called \/ (call = "reset" /\ UNCHANGED calls)
    /\ AudioReset
    /\ call' = "post" /\ promised' = FALSE
    /\ UNCHANGED <<videoVars, mClientNum>>

ResetVideo ==
    /\ \/ call = "post" /\ VideoPost /\ call' = "ask"
       \/ call = "ask" /\ VideoAsk /\ call' = "await"
       \/ call = "await" /\ VideoReset /\ call' = "idle"
    /\ UNCHANGED <<audioVars, mClientNum, promised, calls>>

-----------------------------------------------------------------------------

Caller ==
    \/ \E n \in AudioNodes : InsertAudio(n)
    \/ \E n \in Codecs : RemoveAudio(n)
    \/ \E n \in VideoNodes : InsertVideo(n) \/ RemoveVideo(n)
    \/ RemoveAbsent \/ StartAudio \/ ResetAudio

Audio == AudioThread /\ UNCHANGED <<videoVars, mClientNum, call, promised, calls>>
Video == VideoThread /\ UNCHANGED <<audioVars, mClientNum, call, promised, calls>>

Next == Caller \/ StartVideo \/ ResetVideo \/ Audio \/ Video

\* A call that has begun is carried on with, and the threads run.
Fairness ==
    /\ WF_vars(StartVideo) /\ WF_vars(ResetVideo) /\ WF_vars(call = "reset" /\ ResetAudio)
    /\ WF_vars(Audio) /\ WF_vars(Video)

Spec == Init /\ [][Next]_vars /\ Fairness

-----------------------------------------------------------------------------

\* Both lists keep the order their threads index them by, whatever joins and
\* leaves, and the numbers the threads read agree with them: the callers inside,
\* the devices, and the sum over both mixers.  Two calls break this for good: a
\* caller refused at MAX_VOIP_OBJECT stays in the list uncounted, and a reset
\* forgets video callers that stay inside.
CountsAgree ==
    /\ Ordered(aNodes, audioRank) /\ Ordered(vNodes, videoRank)
    /\ ~aOver => /\ aClients = Cardinality(Members(aNodes) \cap Codecs)
                 /\ mMixNum = Len(aNodes)
    /\ ~vDrift => /\ vClients = Cardinality(Members(vNodes) \cap Renders)
                  /\ mClientNum = aClients + vClients
    /\ mCameraNum = Cardinality(Members(vNodes) \cap Cameras)
    /\ mEncoderNum = Cardinality(Members(vNodes) \cap Encoders)

\* The video thread stays inside mMetas[], though it computes its indices under
\* mLockQ and uses them, with a number of callers it reads anew, after releasing
\* it - for as long as no reset has forgotten callers that are inside.
IndicesInBounds == at["video"] = "overrun" => vDrift

\* Every node of a round is pushed the sum of what the others, as far as they are
\* not muted, delivered in that round: nothing of its own, nothing that a failed
\* round or a node that has left has put into a slot, and saturated once.
MixMinus ==
    \A j \in DOMAIN round.list :
        round.pushed[j] =
            sature32(fastmix_add([k \in Slots |-> IF k \in round.live \ {j}
                                                  THEN Sample[round.list[k]] ELSE 0]))

\* When start returns NO_ERROR, and the audio thread was not on its way out when
\* it was called, the conference has an audio thread nobody has asked to leave,
\* until reset is called.
RunsAsPromised == promised => "audio" \in mRunning /\ "audio" \notin mExitPending

\* A window is shown the picture the encoder node delivered in this turn of the
\* loop, and the encoder node is given the camera's: a node that comes or goes
\* while the pictures are routed makes none of them appear at another node.  The
\* exception is a window that leaves while they are routed, when another takes
\* its place before the numbers are compared.
RightPicture ==
    [][\A n \in DOMAIN shown' : shown' # shown /\ ~vDrift /\ ~dipped =>
         /\ n \in Renders => \A e \in Encoders \cap Members(pulled) : shown'[n] \in {e, None}
         /\ n \in Encoders => \A c \in Cameras \cap Members(pulled) : shown'[n] \in {c, None}]_vars

\* start and reset return: reset waits for the video thread, which finds out that
\* it is unwanted whatever it is doing.
CallsReturn == call # "idle" ~> call = "idle" \/ at["video"] = "overrun"
=============================================================================
