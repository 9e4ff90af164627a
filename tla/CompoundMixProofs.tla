------------------------- MODULE CompoundMixProofs -------------------------
(***************************************************************************)
(* The conference keeps its lists, its numbers and its indices in order,   *)
(* for any number of nodes and any limits, shows the right pictures and    *)
(* mixes the right sums.                                                   *)
(*                                                                         *)
(* The argument has five parts.  The lists are sets in disguise (a node    *)
(* is in a list once), so that a node that joins or leaves changes the     *)
(* number of its kind by one: ListInv.  The indices the video thread takes *)
(* out of its critical section are sums of numbers that were in bounds:    *)
(* RouteInv.  The audio thread's place says what its flags are, so that a  *)
(* start that finds mstate set has found a thread: ThreadInv.  The         *)
(* numbers say where in the video list a kind of node begins, so that a    *)
(* push that finds them unchanged finds the pictures in place: PictureInv. *)
(* And a round begins with every slot muted, so that the sum it takes is   *)
(* over what it pulled: MixInv.                                            *)
(***************************************************************************)
EXTENDS CompoundMix, ListLemmas, FiniteSetTheorems

ThreadInv ==
    /\ at \in [Mixers -> {"none", "born", "enter", "loop", "wait", "left", "end",
                          "semaphore", "pull", "route", "push", "overrun"}]
    /\ "audio" \in mRunning <=> at["audio"] # "none"
    /\ mstate <=> at["audio"] \in {"loop", "wait", "left"}
    /\ mstate \in BOOLEAN
    /\ at["audio"] \in {"left", "end"} => "audio" \in mExitPending
    /\ RunsAsPromised

Counted(s, S, number) == IsFiniteSet(Members(s) \cap S) /\ number = Cardinality(Members(s) \cap S)

AudioList ==
    /\ aNodes \in Seq(AudioNodes) /\ Distinct(aNodes) /\ Ordered(aNodes, audioRank)
    /\ aClients \in Int /\ mMixNum \in Int
    /\ ~aOver => Counted(aNodes, Codecs, aClients) /\ mMixNum = Len(aNodes)

VideoList ==
    /\ vNodes \in Seq(VideoNodes) /\ Distinct(vNodes) /\ Ordered(vNodes, videoRank)
    /\ Counted(vNodes, Cameras, mCameraNum) /\ mCameraNum <= MaxCamera
    /\ Counted(vNodes, Encoders, mEncoderNum) /\ mEncoderNum <= MaxEncoder
    /\ vClients \in Int /\ vDrift \in BOOLEAN
    /\ ~vDrift => /\ Counted(vNodes, Renders, vClients) /\ vClients <= MaxVideoClient
                  /\ Len(vNodes) = mCameraNum + vClients + mEncoderNum

Summed == ~vDrift => mClientNum = aClients + vClients

RouteInv ==
    /\ ~vDrift => /\ offsetDec \in 0 .. MaxCamera
                  /\ offsetEnc \in 0 .. MaxCamera + MaxVideoClient
                  /\ i \in Nat
    /\ IndicesInBounds

ListInv == AudioList /\ VideoList /\ Summed

-----------------------------------------------------------------------------
\* A node that joins is one more of its kind, one that leaves one less.
LEMMA JoinCounted ==
    ASSUME NEW s, NEW t, NEW n, n \notin Members(s), Members(t) = Members(s) \cup {n},
           NEW K, NEW c, Counted(s, K, c)
    PROVE  c \in Nat /\ Counted(t, K, IF n \in K THEN c + 1 ELSE c)
<1> DEFINE M == Members(s) \cap K
<1>1. IsFiniteSet(M) /\ c = Cardinality(M)
  BY DEF Counted
<1>2. c \in Nat
  BY ZenonT(30), <1>1, FS_CardinalityType
<1>3. CASE n \in K
  <2>1. Members(t) \cap K = M \cup {n} /\ n \notin M
    BY ZenonT(30), <1>3
  <2>2. IsFiniteSet(M \cup {n}) /\ Cardinality(M \cup {n}) = IF n \in M THEN Cardinality(M) ELSE Cardinality(M) + 1
    BY ZenonT(30), <1>1, FS_AddElement
  <2> QED BY ZenonT(30), <2>1, <2>2, <1>1, <1>2, <1>3 DEF Counted
<1>4. CASE n \notin K
  <2>1. Members(t) \cap K = M
    BY ZenonT(30), <1>4
  <2> QED BY ZenonT(30), <2>1, <1>1, <1>2, <1>4 DEF Counted
<1> QED BY ZenonT(30), <1>3, <1>4

LEMMA LeaveCounted ==
    ASSUME NEW s, NEW t, NEW n, n \in Members(s), Members(t) = Members(s) \ {n},
           NEW K, NEW c, Counted(s, K, c)
    PROVE  c \in Nat /\ Counted(t, K, IF n \in K THEN c - 1 ELSE c)
<1> DEFINE M == Members(s) \cap K
<1>1. IsFiniteSet(M) /\ c = Cardinality(M)
  BY ZenonT(30) DEF Counted
<1>2. c \in Nat
  BY ZenonT(30), <1>1, FS_CardinalityType
<1>3. CASE n \in K
  <2>1. Members(t) \cap K = M \ {n} /\ n \in M
    BY ZenonT(30), <1>3
  <2>2. IsFiniteSet(M \ {n}) /\ Cardinality(M \ {n}) = IF n \in M THEN Cardinality(M) - 1 ELSE Cardinality(M)
    BY ZenonT(30), <1>1, FS_RemoveElement
  <2> QED BY ZenonT(30), <2>1, <2>2, <1>1, <1>2, <1>3 DEF Counted
<1>4. CASE n \notin K
  <2>1. Members(t) \cap K = M
    BY ZenonT(30), <1>4
  <2> QED BY ZenonT(30), <2>1, <1>1, <1>2, <1>4 DEF Counted
<1> QED BY ZenonT(30), <1>3, <1>4

-----------------------------------------------------------------------------
\* The video mixer's thread and the calls of nodes do not concern the audio
\* mixer's thread.
AudioFrame ==
    /\ at'["audio"] = at["audio"] /\ mstate' = mstate /\ promised' = promised
    /\ "audio" \in mRunning' <=> "audio" \in mRunning
    /\ "audio" \in mExitPending' <=> "audio" \in mExitPending

Places == {"none", "born", "enter", "loop", "wait", "left", "end",
           "semaphore", "pull", "route", "push", "overrun"}

LEMMA VideoElsewhere == ThreadInv /\ Video => AudioFrame /\ at' \in [Mixers -> Places]
<1> SUFFICES ASSUME ThreadInv, Video PROVE AudioFrame /\ at' \in [Mixers -> Places]
  OBVIOUS
<1>0. at \in [Mixers -> Places]
  BY ZenonT(30) DEF ThreadInv, Places
<1>1. mstate' = mstate /\ promised' = promised
  BY ZenonT(30) DEF Video, audioVars
<1>2. \E place \in Places : at' = [at EXCEPT !["video"] = place] \/ at' = at
  BY ZenonT(30) DEF Video, VideoThread, Born, Ended, VideoTop, VideoTry, VideoPull, VideoOverrun,
         RouteWindow, RouteCamera, VideoPush, Goto, Places, threadVars
<1>3. /\ "audio" \in mRunning' <=> "audio" \in mRunning
      /\ "audio" \in mExitPending' <=> "audio" \in mExitPending
  BY ZenonT(30) DEF Video, VideoThread, Born, Ended, VideoTop, VideoTry, VideoPull, VideoOverrun,
         RouteWindow, RouteCamera, VideoPush, threadVars
<1>4. at'["audio"] = at["audio"] /\ at' \in [Mixers -> Places]
  BY ZenonT(30), <1>0, <1>2 DEF Mixers
<1> QED BY ZenonT(30), <1>1, <1>3, <1>4 DEF AudioFrame

LEMMA VideoCallsElsewhere ==
    ThreadInv /\ (StartVideo \/ ResetVideo) => AudioFrame /\ at' \in [Mixers -> Places]
<1> SUFFICES ASSUME ThreadInv, StartVideo \/ ResetVideo
             PROVE  AudioFrame /\ at' \in [Mixers -> Places]
  OBVIOUS
<1>0. at \in [Mixers -> Places]
  BY ZenonT(30) DEF ThreadInv, Places
<1>1. mstate' = mstate /\ promised' = promised
  BY ZenonT(30) DEF StartVideo, ResetVideo, audioVars
<1>2. at' = [at EXCEPT !["video"] = "born"] \/ at' = at
  BY ZenonT(30) DEF StartVideo, ResetVideo, VideoStart, VideoStartFails, run, RunFails, VideoPost, VideoAsk,
         VideoReset, requestExit, ExitAwaited, Goto, threadVars
<1>3. /\ "audio" \in mRunning' <=> "audio" \in mRunning
      /\ "audio" \in mExitPending' <=> "audio" \in mExitPending
  BY ZenonT(30) DEF StartVideo, ResetVideo, VideoStart, VideoStartFails, run, RunFails, VideoPost, VideoAsk,
         VideoReset, requestExit, ExitAwaited, threadVars
<1>4. at'["audio"] = at["audio"] /\ at' \in [Mixers -> Places]
  BY ZenonT(30), <1>0, <1>2 DEF Mixers, Places
<1> QED BY ZenonT(30), <1>1, <1>3, <1>4 DEF AudioFrame

LEMMA FrameKeeps ==
    ASSUME ThreadInv, AudioFrame, at' \in [Mixers -> Places]
    PROVE  ThreadInv'
  BY ZenonT(30) DEF ThreadInv, AudioFrame, Places, RunsAsPromised

\* The audio mixer's own thread.
LEMMA AudioKeeps == ThreadInv /\ Audio => ThreadInv'
<1> SUFFICES ASSUME ThreadInv, Audio PROVE ThreadInv'
  OBVIOUS
<1>0. at \in [Mixers -> Places] /\ "audio" \in Mixers /\ promised' = promised
  BY ZenonT(30) DEF ThreadInv, Places, Mixers, Audio
<1>1. CASE Born("audio", "enter") /\ UNCHANGED audioVars
  BY ZenonT(30), <1>0, <1>1 DEF ThreadInv, Born, Goto, audioVars, RunsAsPromised, Places
<1>2. CASE Ended("audio") /\ UNCHANGED audioVars
  BY ZenonT(30), <1>0, <1>2 DEF ThreadInv, Ended, Goto, audioVars, RunsAsPromised, Places
<1>3. CASE AudioEnter
  BY ZenonT(30), <1>0, <1>3 DEF ThreadInv, AudioEnter, Goto, RunsAsPromised, Places
<1>4. CASE AudioTop
  BY ZenonT(30), <1>0, <1>4 DEF ThreadInv, AudioTop, Goto, RunsAsPromised, Places
<1>5. CASE AudioUnwanted
  BY ZenonT(30), <1>0, <1>5 DEF ThreadInv, AudioUnwanted, Goto, audioVars, RunsAsPromised, Places
<1>6. CASE AudioLeave
  BY ZenonT(30), <1>0, <1>6 DEF ThreadInv, AudioLeave, Goto, RunsAsPromised, Places
<1>7. CASE Woken
  BY ZenonT(30), <1>0, <1>7 DEF ThreadInv, Woken, Goto, RunsAsPromised, Places
<1> QED
  BY ZenonT(30), <1>1, <1>2, <1>3, <1>4, <1>5, <1>6, <1>7
  DEF Audio, AudioThread, AudioStarved, AudioMixed, AudioCrossed

\* The calls.
LEMMA CallerKeeps == ThreadInv /\ Caller => ThreadInv'
<1> SUFFICES ASSUME ThreadInv, Caller PROVE ThreadInv'
  OBVIOUS
<1>0. at \in [Mixers -> Places] /\ "audio" \in Mixers
  BY ZenonT(30) DEF ThreadInv, Places, Mixers
<1>1. CASE \/ \E n \in AudioNodes : InsertAudio(n)
           \/ \E n \in Codecs : RemoveAudio(n)
           \/ \E n \in VideoNodes : InsertVideo(n) \/ RemoveVideo(n)
           \/ RemoveAbsent
  <2>1. UNCHANGED <<mRunning, mExitPending, at, mstate, promised>>
    BY ZenonT(30), <1>1 DEF InsertAudio, AudioInsert, RemoveAudio, AudioRemove, InsertVideo, VideoInsert,
                RemoveVideo, VideoRemove, RemoveAbsent, threadVars, audioVars
  <2> QED BY ZenonT(30), <2>1 DEF ThreadInv, RunsAsPromised
<1>2. CASE StartAudio /\ AudioStart /\ mstate
  BY ZenonT(30), <1>0, <1>2
    DEF ThreadInv, StartAudio, AudioStart, AudioStartFails, Leaving, threadVars, audioVars,
                    RunsAsPromised
<1>3. CASE StartAudio /\ AudioStart /\ ~mstate
  BY ZenonT(30), <1>0, <1>3 DEF ThreadInv, StartAudio, AudioStart, run, Goto, audioVars,
                    RunsAsPromised, Places
<1>4. CASE StartAudio /\ AudioStartFails /\ UNCHANGED promised
  BY ZenonT(30), <1>0, <1>4 DEF ThreadInv, AudioStartFails, RunRefused, RunFails, threadVars,
                    audioVars, RunsAsPromised
<1>5. CASE ResetAudio
  BY ZenonT(30), <1>0, <1>5 DEF ThreadInv, ResetAudio, AudioReset, requestExit, audioVars, RunsAsPromised
<1> QED BY ZenonT(30), <1>1, <1>2, <1>3, <1>4, <1>5 DEF Caller, StartAudio

LEMMA ThreadStep == ThreadInv /\ [Next]_vars => ThreadInv'
<1> SUFFICES ASSUME ThreadInv, [Next]_vars PROVE ThreadInv'
  OBVIOUS
<1>1. CASE Video \/ StartVideo \/ ResetVideo
  BY ZenonT(30), <1>1, VideoElsewhere, VideoCallsElsewhere, FrameKeeps
<1>2. CASE UNCHANGED vars
  BY ZenonT(30), <1>2 DEF vars, threadVars, audioVars, ThreadInv, RunsAsPromised
<1> QED BY ZenonT(30), <1>1, <1>2, AudioKeeps, CallerKeeps DEF Next

LEMMA InitThread == Init => ThreadInv
  BY ZenonT(30) DEF Init, ThreadInit, AudioInit, ThreadInv, RunsAsPromised, Mixers

\* After a successful start the conference has an audio thread until it is reset.
THEOREM RunsAsPromisedHolds == Spec => []RunsAsPromised
<1>1. Init => ThreadInv
  BY ZenonT(30), InitThread
<1>2. ThreadInv => RunsAsPromised
  BY ZenonT(30) DEF ThreadInv
<1> QED BY <1>1, <1>2, ThreadStep, PTL DEF Spec

-----------------------------------------------------------------------------
\* The lists change when a node joins or leaves, and otherwise only the number of
\* video callers does, in a reset.
SameAudioList == UNCHANGED <<aNodes, aClients, mMixNum, aOver>>
SameVideoList == UNCHANGED <<vNodes, vClients, mCameraNum, mEncoderNum, vDrift>>

LEMMA ThreadsKeepLists ==
    Audio \/ Video \/ StartVideo \/ StartAudio \/ ResetAudio \/ RemoveAbsent \/ UNCHANGED vars
      => SameAudioList /\ SameVideoList
<1>1. Audio => SameAudioList /\ SameVideoList
  BY ZenonT(30) DEF Audio, AudioThread, AudioEnter, AudioTop, AudioUnwanted, AudioLeave, AudioStarved,
         AudioMixed, AudioCrossed, Woken, audioVars, listVars, videoVars, vListVars,
         SameAudioList, SameVideoList
<1>2. Video => SameAudioList /\ SameVideoList
  BY ZenonT(30) DEF Video, VideoThread, VideoTop, VideoTry, VideoPull, VideoOverrun, RouteWindow,
         RouteCamera, VideoPush, audioVars, videoVars, vListVars, SameAudioList, SameVideoList
<1>3. StartVideo \/ StartAudio \/ ResetAudio => SameAudioList /\ SameVideoList
  BY ZenonT(30) DEF StartVideo, VideoStart, VideoStartFails, StartAudio, AudioStart, AudioStartFails,
         ResetAudio, AudioReset, audioVars, videoVars, vListVars, SameAudioList, SameVideoList
<1>4. RemoveAbsent \/ UNCHANGED vars => SameAudioList /\ SameVideoList
  BY DEF RemoveAbsent, vars, audioVars, videoVars, vListVars, SameAudioList, SameVideoList
<1> QED BY ZenonT(30), <1>1, <1>2, <1>3, <1>4

LEMMA Ranks ==
    /\ audioRank \in [AudioNodes -> Int]
    /\ videoRank \in [VideoNodes -> Int]
  BY SMT, SMTT(30) DEF audioRank, videoRank

LEMMA SameKeeps ==
    /\ AudioList /\ SameAudioList => AudioList'
    /\ VideoList /\ SameVideoList => VideoList'
<1>1. AudioList /\ SameAudioList => AudioList'
  BY SMT, SMTT(30) DEF AudioList, SameAudioList, audioRank
<1>2. VideoList /\ SameVideoList => VideoList'
  BY SMT, SMTT(30) DEF VideoList, SameVideoList, videoRank
<1> QED BY ZenonT(30), <1>1, <1>2

\* A node joins or leaves the audio mixer.
LEMMA AudioJoins ==
    ASSUME AudioList, NEW n \in AudioNodes, n \notin Members(aNodes), AudioInsert(n)
    PROVE  AudioList'
<1>1. PICK j \in 1 .. Len(aNodes) + 1 :
          Joins(aNodes, j, n, audioRank) /\ aNodes' = InsertAt(aNodes, j, n)
  BY DEF AudioInsert
<1>2. aNodes \in Seq(AudioNodes) /\ Distinct(aNodes) /\ Ordered(aNodes, audioRank)
  BY ZenonT(30) DEF AudioList
<1>3. /\ aNodes' \in Seq(AudioNodes) /\ Distinct(aNodes')
      /\ Len(aNodes') = Len(aNodes) + 1
      /\ Members(aNodes') = Members(aNodes) \cup {n}
  BY SMT, SMTT(30), <1>1, <1>2, JoinFacts
<1>4. Ordered(aNodes', audioRank)
  BY ZenonT(30), <1>1, <1>2, Ranks, JoinOrdered
<1>5. aClients' \in Int /\ mMixNum' \in Int
  BY SMT, SMTT(30) DEF AudioInsert, AudioList
<1>6. ASSUME ~aOver' PROVE Counted(aNodes', Codecs, aClients') /\ mMixNum' = Len(aNodes')
  <2>1. ~aOver /\ ~OverLimit(n)
    BY ZenonT(30), <1>6 DEF AudioInsert
  <2>2. Counted(aNodes, Codecs, aClients) /\ mMixNum = Len(aNodes)
    BY ZenonT(30), <2>1 DEF AudioList
  <2>3. Counted(aNodes', Codecs, IF n \in Codecs THEN aClients + 1 ELSE aClients)
    BY ZenonT(30), <1>3, <2>2, JoinCounted
  <2>4. aClients' = (IF n \in Codecs THEN aClients + 1 ELSE aClients) /\ mMixNum' = mMixNum + 1
    BY ZenonT(30), <2>1 DEF AudioInsert
  <2> QED BY ZenonT(30), <1>3, <2>2, <2>3, <2>4
<1>7. audioRank' = audioRank
  BY ZenonT(30) DEF audioRank
<1> QED BY <1>3, <1>4, <1>5, <1>6, <1>7, ZenonT(30) DEF AudioList, Counted

LEMMA AudioLeaves ==
    ASSUME AudioList, NEW n \in AudioNodes, AudioRemove(n)
    PROVE  AudioList'
<1>1. PICK j \in DOMAIN aNodes : aNodes[j] = n /\ aNodes' = RemoveAt(aNodes, j)
  BY ZenonT(30) DEF AudioRemove
<1>2. /\ aNodes \in Seq(AudioNodes) /\ Distinct(aNodes) /\ Ordered(aNodes, audioRank)
      /\ j \in 1 .. Len(aNodes) /\ n \in Members(aNodes)
  BY SMT, SMTT(30), <1>1 DEF AudioList, Members
<1>3. /\ aNodes' \in Seq(AudioNodes) /\ Distinct(aNodes')
      /\ Len(aNodes') = Len(aNodes) - 1
      /\ Members(aNodes') = Members(aNodes) \ {n}
  BY ZenonT(30), <1>1, <1>2, LeaveFacts
<1>4. Ordered(aNodes', audioRank)
  BY ZenonT(30), <1>1, <1>2, Ranks, LeaveOrdered
<1>5. aClients' \in Int /\ mMixNum' \in Int
  BY SMT, SMTT(30) DEF AudioRemove, AudioList
<1>6. ASSUME ~aOver' PROVE Counted(aNodes', Codecs, aClients') /\ mMixNum' = Len(aNodes')
  <2>1. ~aOver
    BY ZenonT(30), <1>6 DEF AudioRemove
  <2>2. Counted(aNodes, Codecs, aClients) /\ mMixNum = Len(aNodes)
    BY ZenonT(30), <2>1 DEF AudioList
  <2>3. Counted(aNodes', Codecs, IF n \in Codecs THEN aClients - 1 ELSE aClients)
    BY ZenonT(30), <1>2, <1>3, <2>2, LeaveCounted
  <2>4. aClients' = (IF n \in Codecs THEN aClients - 1 ELSE aClients) /\ mMixNum' = mMixNum - 1
    BY ZenonT(30) DEF AudioRemove
  <2> QED BY ZenonT(30), <1>3, <2>2, <2>3, <2>4
<1>7. audioRank' = audioRank
  BY ZenonT(30) DEF audioRank
<1> QED BY <1>3, <1>4, <1>5, <1>6, <1>7, ZenonT(30) DEF AudioList, Counted

\* A node joins or leaves the video mixer.
LEMMA VideoJoins ==
    ASSUME VideoList, NEW n \in VideoNodes, n \notin Members(vNodes), VideoInsert(n)
    PROVE  VideoList'
<1>1. PICK j \in 1 .. Len(vNodes) + 1 :
          Joins(vNodes, j, n, videoRank) /\ vNodes' = InsertAt(vNodes, j, n)
  BY ZenonT(30) DEF VideoInsert
<1>2. vNodes \in Seq(VideoNodes) /\ Distinct(vNodes) /\ Ordered(vNodes, videoRank)
  BY ZenonT(30) DEF VideoList
<1>3. /\ vNodes' \in Seq(VideoNodes) /\ Distinct(vNodes')
      /\ Len(vNodes') = Len(vNodes) + 1
      /\ Members(vNodes') = Members(vNodes) \cup {n}
  BY SMT, SMTT(30), <1>1, <1>2, JoinFacts
<1>4. Ordered(vNodes', videoRank)
  BY ZenonT(30), <1>1, <1>2, Ranks, JoinOrdered
<1>5. /\ vClients' = IF n \in Renders THEN vClients + 1 ELSE vClients
      /\ mCameraNum' = IF n \in Cameras THEN mCameraNum + 1 ELSE mCameraNum
      /\ mEncoderNum' = IF n \in Encoders THEN mEncoderNum + 1 ELSE mEncoderNum
      /\ vDrift' = vDrift
  BY ZenonT(30) DEF VideoInsert, Count
<1>6. /\ mCameraNum \in Nat /\ Counted(vNodes', Cameras, mCameraNum')
      /\ mEncoderNum \in Nat /\ Counted(vNodes', Encoders, mEncoderNum')
  BY ZenonT(30), <1>3, <1>5, JoinCounted DEF VideoList
<1>7. mCameraNum' <= MaxCamera /\ mEncoderNum' <= MaxEncoder /\ vClients' \in Int
  BY SMT, SMTT(30), <1>5, <1>6, VideoAssumption DEF VideoInsert, NoRoom, VideoList
<1>8. ASSUME ~vDrift'
      PROVE  /\ Counted(vNodes', Renders, vClients') /\ vClients' <= MaxVideoClient
             /\ Len(vNodes') = mCameraNum' + vClients' + mEncoderNum'
  <2>1. /\ Counted(vNodes, Renders, vClients) /\ vClients <= MaxVideoClient
        /\ Len(vNodes) = mCameraNum + vClients + mEncoderNum
    BY ZenonT(30), <1>5, <1>8 DEF VideoList
  <2>2. vClients \in Nat /\ Counted(vNodes', Renders, vClients')
    BY ZenonT(30), <1>3, <1>5, <2>1, JoinCounted
  <2>3. vClients' <= MaxVideoClient
    BY SMT, SMTT(30), <1>5, <2>1, <2>2, VideoAssumption DEF VideoInsert, NoRoom
  <2>4. Len(vNodes') = mCameraNum' + vClients' + mEncoderNum'
    BY ONLY SMT, SMTT(30), <1>3, <1>5, <1>6, <2>1, <2>2, VideoAssumption DEF VideoNodes
  <2> QED BY ZenonT(30), <2>2, <2>3, <2>4
<1>9. videoRank' = videoRank /\ vDrift' \in BOOLEAN
  BY ZenonT(30), <1>5 DEF videoRank, VideoList
<1> QED BY ZenonT(30), <1>3, <1>4, <1>6, <1>7, <1>8, <1>9 DEF VideoList, Counted

LEMMA VideoLeaves ==
    ASSUME VideoList, NEW n \in VideoNodes, VideoRemove(n)
    PROVE  VideoList'
<1>1. PICK j \in DOMAIN vNodes : vNodes[j] = n /\ vNodes' = RemoveAt(vNodes, j)
  BY ZenonT(30) DEF VideoRemove
<1>2. /\ vNodes \in Seq(VideoNodes) /\ Distinct(vNodes) /\ Ordered(vNodes, videoRank)
      /\ j \in 1 .. Len(vNodes) /\ n \in Members(vNodes)
  BY SMT, SMTT(30), <1>1 DEF VideoList, Members
<1>3. /\ vNodes' \in Seq(VideoNodes) /\ Distinct(vNodes')
      /\ Len(vNodes') = Len(vNodes) - 1
      /\ Members(vNodes') = Members(vNodes) \ {n}
  BY <1>1, <1>2, LeaveFacts
<1>4. Ordered(vNodes', videoRank)
  BY ZenonT(30), <1>1, <1>2, Ranks, LeaveOrdered
<1>5. /\ vClients' = IF n \in Renders THEN vClients - 1 ELSE vClients
      /\ mCameraNum' = IF n \in Cameras THEN mCameraNum - 1 ELSE mCameraNum
      /\ mEncoderNum' = IF n \in Encoders THEN mEncoderNum - 1 ELSE mEncoderNum
      /\ vDrift' = vDrift
  <2>1. vClients \in Int /\ mCameraNum \in Int /\ mEncoderNum \in Int
    BY SMT, SMTT(30), FS_CardinalityType DEF VideoList, Counted
  <2> QED BY ZenonT(30), <2>1 DEF VideoRemove, Count
<1>6. /\ mCameraNum \in Nat /\ Counted(vNodes', Cameras, mCameraNum')
      /\ mEncoderNum \in Nat /\ Counted(vNodes', Encoders, mEncoderNum')
  BY ZenonT(30), <1>2, <1>3, <1>5, LeaveCounted DEF VideoList
<1>7. mCameraNum' <= MaxCamera /\ mEncoderNum' <= MaxEncoder /\ vClients' \in Int
  BY SMT, SMTT(30), <1>5, <1>6, VideoAssumption DEF VideoList
<1>8. ASSUME ~vDrift'
      PROVE  /\ Counted(vNodes', Renders, vClients') /\ vClients' <= MaxVideoClient
             /\ Len(vNodes') = mCameraNum' + vClients' + mEncoderNum'
  <2>1. /\ Counted(vNodes, Renders, vClients) /\ vClients <= MaxVideoClient
        /\ Len(vNodes) = mCameraNum + vClients + mEncoderNum
    BY ZenonT(30), <1>5, <1>8 DEF VideoList
  <2>2. vClients \in Nat /\ Counted(vNodes', Renders, vClients')
    BY ZenonT(30), <1>2, <1>3, <1>5, <2>1, LeaveCounted
  <2>3. vClients' <= MaxVideoClient
    BY SMT, SMTT(30), <1>5, <2>1, <2>2, VideoAssumption
  <2>4. Len(vNodes') = mCameraNum' + vClients' + mEncoderNum'
    BY SMT, SMTT(30), <1>3, <1>5, <1>6, <2>1, <2>2, VideoAssumption DEF VideoNodes
  <2> QED BY ZenonT(30), <2>2, <2>3, <2>4
<1>9. videoRank' = videoRank /\ vDrift' \in BOOLEAN
  BY ZenonT(30), <1>5 DEF videoRank, VideoList
<1> QED BY ZenonT(30), <1>3, <1>4, <1>6, <1>7, <1>8, <1>9 DEF VideoList, Counted

\* What each kind of step does to both lists and to the sum over them.
LEMMA ListStep == ListInv /\ [Next]_vars => ListInv'
<1> SUFFICES ASSUME ListInv, [Next]_vars PROVE ListInv'
  OBVIOUS
<1>0. AudioList /\ VideoList /\ Summed
  BY ZenonT(30) DEF ListInv
<1>1. CASE Audio \/ Video \/ StartVideo \/ StartAudio \/ ResetAudio \/ RemoveAbsent \/ UNCHANGED vars
  <2>1. AudioList' /\ VideoList' /\ SameAudioList /\ SameVideoList
    BY ZenonT(30), <1>0, <1>1, ThreadsKeepLists, SameKeeps
  <2>2. mClientNum' = mClientNum \/ mClientNum' = aClients + vClients
    BY ZenonT(30), <1>1 DEF Audio, Video, StartVideo, StartAudio, ResetAudio, RemoveAbsent, vars
  <2>3. Summed'
    BY ZenonT(30), <1>0, <2>1, <2>2 DEF Summed, SameAudioList, SameVideoList
  <2> QED BY ZenonT(30), <2>1, <2>3 DEF ListInv
<1>2. ASSUME NEW n \in AudioNodes, InsertAudio(n) PROVE ListInv'
  <2>1. AudioList'
    BY ZenonT(30), <1>0, <1>2, AudioJoins DEF InsertAudio
  <2>2. SameVideoList
    BY ZenonT(30), <1>2 DEF InsertAudio, videoVars, vListVars, SameVideoList
  <2>3. VideoList'
    BY ZenonT(30), <1>0, <2>2, SameKeeps
  <2>4. Summed'
    <3>1. CASE OverLimit(n)
      BY ZenonT(30), <1>0, <1>2, <2>2, <3>1 DEF Summed, InsertAudio, AudioInsert, SameVideoList
    <3>2. CASE ~OverLimit(n)
      BY ZenonT(30), <1>2, <3>2 DEF Summed, InsertAudio, doUpdateClientNum
    <3> QED BY ZenonT(30), <3>1, <3>2
  <2> QED BY ZenonT(30), <2>1, <2>3, <2>4 DEF ListInv
<1>3. ASSUME NEW n \in Codecs, RemoveAudio(n) PROVE ListInv'
  <2>1. AudioList'
    BY ZenonT(30), <1>0, <1>3, AudioLeaves DEF RemoveAudio, AudioNodes
  <2>2. SameVideoList
    BY ZenonT(30), <1>3 DEF RemoveAudio, videoVars, vListVars, SameVideoList
  <2>3. VideoList'
    BY ZenonT(30), <1>0, <2>2, SameKeeps
  <2>4. Summed'
    BY ZenonT(30), <1>3 DEF Summed, RemoveAudio, doUpdateClientNum
  <2> QED BY ZenonT(30), <2>1, <2>3, <2>4 DEF ListInv
<1>4. ASSUME NEW n \in VideoNodes, InsertVideo(n) \/ RemoveVideo(n) PROVE ListInv'
  <2>1. SameAudioList
    BY ZenonT(30), <1>4 DEF InsertVideo, RemoveVideo, audioVars, SameAudioList
  <2>2. AudioList'
    BY ZenonT(30), <1>0, <2>1, SameKeeps
  <2>3. VideoList'
    BY ZenonT(30), <1>0, <1>4, VideoJoins, VideoLeaves DEF InsertVideo, RemoveVideo
  <2>4. Summed'
    BY ZenonT(30), <1>4 DEF Summed, InsertVideo, RemoveVideo, doUpdateClientNum
  <2> QED BY <2>2, <2>3, <2>4 DEF ListInv
<1>5. ASSUME ResetVideo PROVE ListInv'
  <2>1. SameAudioList /\ mClientNum' = mClientNum
    BY ZenonT(30), <1>5 DEF ResetVideo, audioVars, SameAudioList
  <2>2. AudioList'
    BY ZenonT(30), <1>0, <2>1, SameKeeps
  <2>3. CASE SameVideoList
    BY ZenonT(30), <1>0, <2>1, <2>2, <2>3, SameKeeps DEF ListInv, Summed, SameAudioList, SameVideoList
  <2>4. CASE VideoReset
    <3>1. UNCHANGED <<vNodes, mCameraNum, mEncoderNum>> /\ vClients' \in Int /\ vDrift' \in BOOLEAN
      BY SMT, SMTT(30), <1>0, <2>4 DEF VideoReset, VideoList
    <3>2. ~vDrift' => SameVideoList
      BY ZenonT(30), <1>0, <2>4 DEF VideoReset, VideoList, SameVideoList
    <3>3. VideoList'
      <4>1. CASE vDrift'
        BY ZenonT(30), <1>0, <3>1, <4>1 DEF VideoList, Counted, videoRank
      <4> QED BY ZenonT(30), <1>0, <3>2, <4>1, SameKeeps
    <3>4. Summed'
      BY ZenonT(30), <1>0, <2>1, <3>2 DEF Summed, SameAudioList, SameVideoList
    <3> QED BY ZenonT(30), <2>2, <3>3, <3>4 DEF ListInv
  <2> QED
    BY ZenonT(30), <1>5, <2>3, <2>4 DEF ResetVideo, VideoPost, VideoAsk, videoVars, vListVars, SameVideoList
<1> QED BY ZenonT(30), <1>1, <1>2, <1>3, <1>4, <1>5 DEF Next, Caller

LEMMA InitLists == Init => ListInv
<1> SUFFICES ASSUME Init PROVE ListInv
  OBVIOUS
<1>1. aNodes = <<>> /\ vNodes = <<>> /\ Members(<<>>) = {}
  BY SMT, SMTT(30) DEF Init, AudioInit, VideoInit, Members
<1>2. \A S : Counted(<<>>, S, 0)
  <2> SUFFICES ASSUME NEW S PROVE Counted(<<>>, S, 0)
    OBVIOUS
  <2>1. Members(<<>>) \cap S = {}
    BY ZenonT(30), <1>1
  <2> QED BY ZenonT(30), <2>1, FS_EmptySet DEF Counted
<1>3. AudioList
  BY SMT, SMTT(30), <1>1, <1>2 DEF Init, AudioInit, AudioList, Distinct, Ordered
<1>4. VideoList
  <2>1. <<>> \in Seq(VideoNodes) /\ Distinct(<<>>) /\ Ordered(<<>>, videoRank) /\ Len(<<>>) = 0
    BY SMT, SMTT(30) DEF Distinct, Ordered
  <2>2. vNodes = <<>> /\ vClients = 0 /\ mCameraNum = 0 /\ mEncoderNum = 0 /\ vDrift = FALSE
    BY ZenonT(30) DEF Init, VideoInit
  <2>3. Counted(<<>>, Cameras, 0) /\ Counted(<<>>, Encoders, 0) /\ Counted(<<>>, Renders, 0)
    BY ZenonT(30), <1>2
  <2>4. 0 <= MaxCamera /\ 0 <= MaxEncoder /\ 0 <= MaxVideoClient /\ 0 + 0 + 0 = 0
    BY SMT, SMTT(30), VideoAssumption
  <2>5. vNodes \in Seq(VideoNodes) /\ Distinct(vNodes) /\ Ordered(vNodes, videoRank)
    BY <2>1, <2>2, ZenonT(30)
  <2>6. /\ Counted(vNodes, Cameras, mCameraNum) /\ Counted(vNodes, Encoders, mEncoderNum)
        /\ Counted(vNodes, Renders, vClients)
    BY <2>2, <2>3, ZenonT(30)
  <2>7. /\ mCameraNum <= MaxCamera /\ mEncoderNum <= MaxEncoder /\ vClients <= MaxVideoClient
        /\ vClients \in Int
    BY SMT, SMTT(30), <2>2, <2>4
  <2>8. vDrift \in BOOLEAN
    BY ZenonT(30), <2>2
  <2>9. Len(vNodes) = mCameraNum + vClients + mEncoderNum
    BY <2>1, <2>2, <2>4, ZenonT(30)
  <2> QED BY ZenonT(30), <2>5, <2>6, <2>7, <2>8, <2>9 DEF VideoList
<1>5. Summed
  BY SMT, SMTT(30) DEF Init, AudioInit, VideoInit, Summed
<1> QED BY ZenonT(30), <1>3, <1>4, <1>5 DEF ListInv

\* The lists stay in the order of rank and the numbers agree with them, for any
\* set of nodes and any limits, whatever joins and leaves.
THEOREM CountsAgreeHolds == Spec => []CountsAgree
<1>1. ListInv => CountsAgree
  BY ZenonT(30) DEF ListInv, AudioList, VideoList, Summed, Counted, CountsAgree
<1> QED BY <1>1, InitLists, ListStep, PTL DEF Spec

-----------------------------------------------------------------------------
\* What ListInv says of the numbers a turn of the video thread starts from.
LEMMA InBounds ==
    ASSUME ListInv, ~vDrift
    PROVE  /\ mCameraNum \in 0 .. MaxCamera /\ vClients \in 0 .. MaxVideoClient
           /\ ~Outgrown
<1>1. Counted(vNodes, Cameras, mCameraNum) /\ Counted(vNodes, Encoders, mEncoderNum)
      /\ Counted(vNodes, Renders, vClients)
  BY ZenonT(30) DEF ListInv, VideoList
<1>2. mCameraNum \in Nat /\ mEncoderNum \in Nat /\ vClients \in Nat
  BY ZenonT(30), <1>1, FS_CardinalityType DEF Counted
<1>3. Cardinality(Metas) = MaxCamera + MaxVideoClient + MaxEncoder
  BY ONLY SMT, SMTT(30), FS_Interval, VideoAssumption DEF Metas
<1> QED BY SMT, SMTT(30), <1>2, <1>3, VideoAssumption DEF ListInv, VideoList, Outgrown

\* Everything but the video thread leaves its indices and its place alone.
LEMMA ThreadAlone ==
    ASSUME ThreadInv, Audio \/ Caller \/ StartVideo \/ ResetVideo \/ UNCHANGED vars
    PROVE  /\ UNCHANGED <<offsetDec, offsetEnc, i>> /\ (vDrift => vDrift')
           /\ at'["video"] \in {at["video"], "born"}
<1>1. UNCHANGED <<offsetDec, offsetEnc, i>> /\ (vDrift => vDrift')
  <2>1. CASE UNCHANGED videoVars
    BY ZenonT(30), <2>1 DEF videoVars, vListVars, turnVars
  <2>2. CASE ResetVideo
    <3>1. UNCHANGED <<offsetDec, offsetEnc, i>>
      BY ZenonT(30), <2>2 DEF ResetVideo, VideoPost, VideoAsk, VideoReset, videoVars, turnVars
    <3>2. vDrift => vDrift'
      BY ZenonT(30), <2>2 DEF ResetVideo, VideoPost, VideoAsk, VideoReset, videoVars, vListVars
    <3> QED BY ZenonT(30), <3>1, <3>2
  <2>3. ASSUME NEW n \in VideoNodes, InsertVideo(n) \/ RemoveVideo(n)
        PROVE  UNCHANGED <<offsetDec, offsetEnc, i>> /\ (vDrift => vDrift')
    BY SMT, SMTT(30), <2>3 DEF InsertVideo, VideoInsert, RemoveVideo, VideoRemove, turnVars
  <2> QED
    BY ZenonT(30), <2>1, <2>2, <2>3 DEF Audio, Caller, StartVideo, vars, InsertAudio, RemoveAudio,
       RemoveAbsent, StartAudio, ResetAudio, VideoStart, VideoStartFails
<1>2. at \in [Mixers -> Places] /\ "video" \in Mixers
  BY ZenonT(30) DEF ThreadInv, Places, Mixers
<1>3. ASSUME Audio PROVE at'["video"] = at["video"]
  BY ZenonT(30), <1>2, <1>3
    DEF Audio, AudioThread, Born, Ended, AudioEnter, AudioTop, AudioUnwanted, AudioLeave,
         AudioStarved, AudioMixed, AudioCrossed, Woken, Goto
<1>4. ASSUME Caller PROVE at'["video"] = at["video"]
  BY ZenonT(30), <1>2, <1>4 DEF Caller, InsertAudio, AudioInsert, RemoveAudio, AudioRemove, InsertVideo,
         VideoInsert, RemoveVideo, VideoRemove, RemoveAbsent, StartAudio, AudioStart,
         AudioStartFails, RunRefused, RunFails, run, ResetAudio, AudioReset, requestExit, Goto,
         threadVars
<1>5. ASSUME StartVideo \/ ResetVideo PROVE at'["video"] \in {at["video"], "born"}
  <2>1. at' = at \/ at' = [at EXCEPT !["video"] = "born"]
    <3>1. CASE StartVideo
      BY <3>1, ZenonT(30) DEF StartVideo, VideoStart, VideoStartFails, run, RunFails, Goto, threadVars
    <3>2. CASE ResetVideo
      BY <3>2, ZenonT(30) DEF ResetVideo, VideoPost, VideoAsk, VideoReset, requestExit, ExitAwaited,
         threadVars
    <3> QED BY <1>5, <3>1, <3>2, ZenonT(30)
  <2> QED BY ONLY <1>2, <2>1, ZenonT(30)
<1>6. ASSUME UNCHANGED vars PROVE at'["video"] = at["video"]
  BY ZenonT(30), <1>6 DEF vars, threadVars
<1> QED BY ZenonT(30), <1>1, <1>3, <1>4, <1>5, <1>6

LEMMA RouteStep == ThreadInv /\ ListInv /\ RouteInv /\ [Next]_vars => RouteInv'
<1> SUFFICES ASSUME ThreadInv, ListInv, RouteInv, [Next]_vars PROVE RouteInv'
  BY ZenonT(30)
<1>0. at \in [Mixers -> Places] /\ "video" \in Mixers /\ vDrift \in BOOLEAN
  BY ZenonT(30) DEF ThreadInv, Places, Mixers, ListInv, VideoList
<1>1. CASE Audio \/ Caller \/ StartVideo \/ ResetVideo \/ UNCHANGED vars
  BY ZenonT(30), <1>1, ThreadAlone DEF RouteInv, IndicesInBounds
<1>2. ASSUME Video PROVE RouteInv'
  <2>0. VideoThread
    BY ZenonT(30), <1>2 DEF Video
  <2>1. CASE \/ (Born("video", "loop") \/ Ended("video")) /\ UNCHANGED videoVars
             \/ VideoTop \/ VideoTry \/ RouteCamera
    <3>1. UNCHANGED <<offsetDec, offsetEnc, i, vDrift>>
      BY ZenonT(30), <2>1 DEF VideoTop, VideoTry, RouteCamera, videoVars, vListVars, turnVars
    <3>2. at'["video"] # "overrun"
      BY ZenonT(30), <1>0, <2>1 DEF Born, Ended, VideoTop, VideoTry, RouteCamera, Goto
    <3> QED BY ZenonT(30), <3>1, <3>2 DEF RouteInv, IndicesInBounds
  <2>2. CASE VideoPull
    <3>1. vDrift' = vDrift /\ i' = i /\ offsetDec' = mCameraNum /\ offsetEnc' = mCameraNum + vClients
      BY ZenonT(30), <2>2 DEF VideoPull, vListVars
    <3>2. at'["video"] # "overrun"
      BY ZenonT(30), <1>0, <2>2 DEF VideoPull, Goto
    <3> QED BY SMT, SMTT(30), <3>1, <3>2, InBounds, VideoAssumption DEF RouteInv, IndicesInBounds
  <2>3. CASE RouteWindow
    BY SMT, SMTT(30), <2>3 DEF RouteWindow, threadVars, vListVars, RouteInv, IndicesInBounds
  <2>4. CASE VideoPush
    <3>1. vDrift' = vDrift /\ i' = 0 /\ offsetDec' = 0 /\ offsetEnc' = 0
      BY ZenonT(30), <2>4 DEF VideoPush, TurnOver, vListVars
    <3>2. at'["video"] # "overrun"
      BY ZenonT(30), <1>0, <2>4 DEF VideoPush, Goto
    <3> QED BY ONLY SMT, SMTT(30), <3>1, <3>2, VideoAssumption DEF RouteInv, IndicesInBounds
  <2>5. CASE VideoOverrun
    <3>1. UNCHANGED <<offsetDec, offsetEnc, i, vDrift>>
      BY ZenonT(30), <2>5 DEF VideoOverrun, videoVars, vListVars, turnVars
    <3>2. vDrift
      <4> SUFFICES ASSUME ~vDrift PROVE FALSE
        BY ZenonT(30), <1>0
      <4>1. /\ offsetDec \in 0 .. MaxCamera /\ i \in Nat
            /\ offsetEnc \in 0 .. MaxCamera + MaxVideoClient
        BY ZenonT(30) DEF RouteInv
      <4>2. offsetEnc + 1 \in Metas
        BY ONLY SMT, SMTT(30), <4>1, VideoAssumption DEF Metas
      <4>3. i < vClients => offsetDec + i + 1 \in Metas
        BY SMT, SMTT(30), <4>1, InBounds, VideoAssumption DEF Metas
      <4> QED BY ZenonT(30), <2>5, <4>2, <4>3, InBounds DEF VideoOverrun
    <3> QED BY ZenonT(30), <3>1, <3>2 DEF RouteInv, IndicesInBounds
  <2> QED BY ZenonT(30), <2>0, <2>1, <2>2, <2>3, <2>4, <2>5 DEF VideoThread
<1> QED BY ZenonT(30), <1>1, <1>2 DEF Next

\* The video thread stays inside mMetas[] whatever joins or leaves while it routes
\* pictures without mLockQ, until a reset forgets callers that are inside.
THEOREM IndicesInBoundsHolds == Spec => []IndicesInBounds
<1>1. Init => ThreadInv /\ ListInv
  BY ZenonT(30), InitThread, InitLists
<1>2. Init => RouteInv
  BY ONLY SMT, SMTT(30), VideoAssumption DEF Init, ThreadInit, VideoInit, RouteInv, IndicesInBounds, Mixers
<1>3. RouteInv => IndicesInBounds
  BY DEF RouteInv
<1> QED BY <1>1, <1>2, <1>3, ThreadStep, ListStep, RouteStep, PTL DEF Spec
-----------------------------------------------------------------------------
\* The video list is the cameras, then the windows, then the encoders, and the
\* numbers say where one kind ends and the next begins.
Placed == Borders(vNodes, Cameras, Encoders, mCameraNum, mEncoderNum)

\* One camera and one encoder, as MAX_VIDEO_CAMERA and MAX_VIDEO_ENCODER have it.
OneOfEach == MaxCamera <= 1 /\ MaxEncoder <= 1

\* What the thread has pulled is where it will look for it.
PulledInv ==
    /\ offsetDec \in Nat /\ offsetEnc \in Nat
    /\ \A e \in Encoders \cap Members(pulled) : rxBuffer[offsetEnc + 1] \in {e, None}
    /\ \A c \in Cameras \cap Members(pulled) : offsetDec # 0 /\ rxBuffer[1] \in {c, None}

\* How far the routing has come: the windows served so far have the encoder's
\* picture, none of those counted at the pull is left out at the end, and then
\* the encoder has the camera's.
RoutingInv ==
    /\ i \in Nat /\ vClients >= offsetEnc - offsetDec
    /\ \A k \in 1 .. i : txBuffer[offsetDec + k] = rxBuffer[offsetEnc + 1]

RoutedInv ==
    /\ \A k \in 1 .. offsetEnc - offsetDec : txBuffer[offsetDec + k] = rxBuffer[offsetEnc + 1]
    /\ offsetDec # 0 => txBuffer[offsetEnc + 1] = rxBuffer[1]

PictureInv ==
    /\ Placed
    /\ txBuffer = [k \in Metas |-> txBuffer[k]]
    /\ at["video"] # "none" => "video" \in mRunning
    /\ at["video"] \notin {"route", "push", "overrun"} => i = 0
    /\ ~vDrift /\ ~dipped => /\ at["video"] \in {"route", "push"} => PulledInv
                             /\ at["video"] = "route" => RoutingInv
                             /\ at["video"] = "push" => RoutedInv

LEMMA PulledKeeps ==
    ASSUME PulledInv, UNCHANGED <<rxBuffer, offsetDec, offsetEnc, pulled>>
    PROVE  PulledInv'
<1>1. rxBuffer' = rxBuffer /\ offsetDec' = offsetDec /\ offsetEnc' = offsetEnc /\ pulled' = pulled
  BY ONLY UNCHANGED <<rxBuffer, offsetDec, offsetEnc, pulled>>
<1>2. Members(pulled') = Members(pulled)
  BY ONLY <1>1, ZenonT(30)
<1> QED BY ZenonT(30), <1>1, <1>2 DEF PulledInv, Members

LEMMA VideoKinds ==
    \A m \in VideoNodes : /\ m \in Cameras <=> videoRank[m] = 0
                          /\ m \in Encoders <=> videoRank[m] = 2
                          /\ videoRank[m] \in 0 .. 2
  BY SMT, SMTT(30), VideoAssumption DEF videoRank, VideoNodes

LEMMA PlacedStep ==
    ASSUME ListInv, Placed, [Next]_vars
    PROVE  Placed'
<1>0. vNodes \in Seq(VideoNodes)
  BY ZenonT(30) DEF ListInv, VideoList
<1>1. CASE UNCHANGED <<vNodes, mCameraNum, mEncoderNum>>
  BY ZenonT(30), <1>1 DEF Placed, Borders
<1>2. ASSUME NEW n \in VideoNodes, InsertVideo(n) PROVE Placed'
  <2>1. PICK j \in 1 .. Len(vNodes) + 1 :
            Joins(vNodes, j, n, videoRank) /\ vNodes' = InsertAt(vNodes, j, n)
    BY ZenonT(30), <1>2 DEF InsertVideo, VideoInsert
  <2>2. /\ mCameraNum' = IF n \in Cameras THEN mCameraNum + 1 ELSE mCameraNum
        /\ mEncoderNum' = IF n \in Encoders THEN mEncoderNum + 1 ELSE mEncoderNum
    BY ZenonT(30), <1>2 DEF InsertVideo, VideoInsert, Count
  <2>3. Borders(vNodes, Cameras, Encoders, mCameraNum, mEncoderNum)
    BY DEF Placed
  <2>4. Borders(vNodes', Cameras, Encoders, mCameraNum', mEncoderNum')
    BY ZenonT(30), <1>0, <2>1, <2>2, <2>3, JoinBorders, VideoKinds
  <2> QED BY ZenonT(30), <2>4 DEF Placed, Borders
<1>3. ASSUME NEW n \in VideoNodes, RemoveVideo(n) PROVE Placed'
  <2>1. PICK j \in DOMAIN vNodes : vNodes[j] = n /\ vNodes' = RemoveAt(vNodes, j)
    BY ZenonT(30), <1>3 DEF RemoveVideo, VideoRemove
  <2>2. mCameraNum \in Nat /\ mEncoderNum \in Nat /\ j \in 1 .. Len(vNodes)
    BY SMT, SMTT(30), <1>0, <2>1 DEF Placed, Borders
  <2>3. /\ mCameraNum' = IF n \in Cameras THEN mCameraNum + (-1) ELSE mCameraNum
        /\ mEncoderNum' = IF n \in Encoders THEN mEncoderNum + (-1) ELSE mEncoderNum
    BY ZenonT(30), <1>3 DEF RemoveVideo, VideoRemove, Count
  <2>4. /\ mCameraNum' = IF vNodes[j] \in Cameras THEN mCameraNum - 1 ELSE mCameraNum
        /\ mEncoderNum' = IF vNodes[j] \in Encoders THEN mEncoderNum - 1 ELSE mEncoderNum
    BY ZenonT(30), <2>1, <2>2, <2>3
  <2>5. Borders(vNodes, Cameras, Encoders, mCameraNum, mEncoderNum)
    BY DEF Placed
  <2>6. Borders(vNodes', Cameras, Encoders, mCameraNum', mEncoderNum')
    BY ZenonT(30), <1>0, <2>1, <2>2, <2>4, <2>5, LeaveBorders
  <2> QED BY ZenonT(30), <2>6 DEF Placed, Borders
<1>4. CASE Audio \/ Video \/ StartVideo \/ StartAudio \/ ResetAudio \/ RemoveAbsent \/ UNCHANGED vars
  BY ZenonT(30), <1>1, <1>4, ThreadsKeepLists DEF SameVideoList
<1>5. CASE ResetVideo
  BY ZenonT(30), <1>1, <1>5 DEF ResetVideo, VideoPost, VideoAsk, VideoReset, videoVars, vListVars
<1>6. CASE (\E n \in AudioNodes : InsertAudio(n)) \/ (\E n \in Codecs : RemoveAudio(n))
  BY ZenonT(30), <1>1, <1>6 DEF InsertAudio, RemoveAudio, videoVars, vListVars
<1> QED BY ZenonT(30), <1>2, <1>3, <1>4, <1>5, <1>6 DEF Next, Caller

\* What the video thread finds when others have had their turn: its own state, and
\* no fewer windows unless dipped or vDrift says so.
Waited ==
    /\ UNCHANGED <<rxBuffer, txBuffer, offsetDec, offsetEnc, i, pulled, shown>>
    /\ (vDrift => vDrift') /\ (dipped => dipped')
    /\ at["video"] = "route" /\ ~vDrift' /\ ~dipped' => vClients' >= vClients

LEMMA VideoWaits ==
    ASSUME ListInv, Audio \/ Caller \/ StartVideo \/ ResetVideo \/ UNCHANGED vars
    PROVE  Waited
<1>0. vClients \in Int
  BY ZenonT(30) DEF ListInv, VideoList
<1>1. CASE UNCHANGED videoVars
  BY ONLY SMT, SMTT(30), <1>0, <1>1 DEF videoVars, vListVars, turnVars, Waited
<1>2. ASSUME NEW n \in VideoNodes, InsertVideo(n) PROVE Waited
  <2>1. UNCHANGED <<vDrift, turnVars, shown>>
    BY ZenonT(30), <1>2 DEF InsertVideo, VideoInsert
  <2>2. vClients' = IF n \in Renders THEN vClients + 1 ELSE vClients
    BY ZenonT(30), <1>2 DEF InsertVideo, VideoInsert, Count
  <2> QED BY SMT, SMTT(30), <1>0, <2>1, <2>2 DEF turnVars, Waited
<1>3. ASSUME NEW n \in VideoNodes, RemoveVideo(n) PROVE Waited
  <2>1. /\ UNCHANGED <<rxBuffer, txBuffer, offsetDec, offsetEnc, i, pulled, shown, vDrift>>
        /\ dipped' = (dipped \/ (at["video"] = "route" /\ n \in Renders))
    BY ZenonT(30), <1>3 DEF RemoveVideo, VideoRemove
  <2>2. n \notin Renders => vClients' = vClients
    BY ZenonT(30), <1>3 DEF RemoveVideo, VideoRemove, Count
  <2>3. at["video"] = "route" /\ ~dipped' => vClients' >= vClients
    <3>1. at["video"] = "route" /\ ~dipped' => vClients' = vClients
      BY ZenonT(30), <2>1, <2>2
    <3> QED BY ONLY SMT, SMTT(30), <1>0, <3>1
  <2> QED BY ZenonT(30), <2>1, <2>3 DEF Waited
<1>4. CASE ResetVideo
  <2>1. CASE VideoPost \/ VideoAsk
    BY ONLY SMT, SMTT(30), <1>0, <2>1 DEF VideoPost, VideoAsk, videoVars, vListVars, turnVars, Waited
  <2>2. CASE VideoReset
    <3>1. UNCHANGED <<turnVars, shown>> /\ vDrift' = (vDrift \/ vClients' # vClients)
      BY ZenonT(30), <2>2 DEF VideoReset
    <3>2. ~vDrift' => vClients' = vClients
      BY ZenonT(30), <3>1
    <3>3. ~vDrift' => vClients' >= vClients
      BY ONLY SMT, SMTT(30), <1>0, <3>2
    <3>4. UNCHANGED <<rxBuffer, txBuffer, offsetDec, offsetEnc, i, pulled, shown, dipped>>
      BY ZenonT(30), <3>1 DEF turnVars
    <3> QED BY ZenonT(30), <3>1, <3>3, <3>4 DEF Waited
  <2> QED BY ZenonT(30), <1>4, <2>1, <2>2 DEF ResetVideo
<1>5. Audio \/ StartVideo \/ UNCHANGED vars => UNCHANGED videoVars
  BY ZenonT(30) DEF Audio, StartVideo, VideoStart, VideoStartFails, vars
<1>6. (\E n \in AudioNodes : InsertAudio(n)) \/ (\E n \in Codecs : RemoveAudio(n))
        \/ RemoveAbsent \/ StartAudio \/ ResetAudio => UNCHANGED videoVars
  BY ZenonT(30) DEF InsertAudio, RemoveAudio, RemoveAbsent, StartAudio, ResetAudio
<1> QED BY ZenonT(30), <1>1, <1>2, <1>3, <1>4, <1>5, <1>6 DEF Caller

\* A new video thread is born only where there was none.
LEMMA VideoBorn ==
    ASSUME ThreadInv, at["video"] # "none" => "video" \in mRunning,
           Audio \/ Caller \/ StartVideo \/ ResetVideo \/ UNCHANGED vars
    PROVE  /\ at'["video"] = at["video"] \/ (at["video"] = "none" /\ at'["video"] = "born")
           /\ at'["video"] # "none" => "video" \in mRunning'
<1>0. at \in [Mixers -> Places] /\ "video" \in Mixers /\ "audio" # "video"
  BY ZenonT(30) DEF ThreadInv, Places, Mixers
<1>1. CASE UNCHANGED <<at, mRunning>>
  BY ZenonT(30), <1>1
<1>2. CASE Audio
  <2>1. at'["video"] = at["video"]
    BY ZenonT(30), <1>0, <1>2 DEF Audio, AudioThread, Born, Ended, AudioEnter, AudioTop, AudioUnwanted,
         AudioLeave, AudioStarved, AudioMixed, AudioCrossed, Woken, Goto
  <2>2. mRunning' = mRunning \/ mRunning' = mRunning \ {"audio"}
    BY ZenonT(30), <1>2 DEF Audio, AudioThread, Born, Ended, AudioEnter, AudioTop, AudioUnwanted,
         AudioLeave, AudioStarved, AudioMixed, AudioCrossed, Woken
  <2> QED BY ZenonT(30), <1>0, <2>1, <2>2
<1>3. CASE StartAudio
  <2>1. \/ UNCHANGED <<at, mRunning>>
        \/ at' = [at EXCEPT !["audio"] = "born"] /\ mRunning' = mRunning \cup {"audio"}
    BY ZenonT(30), <1>3
      DEF StartAudio, AudioStart, AudioStartFails, RunRefused, RunFails, run, Goto, threadVars
  <2> QED BY ZenonT(30), <1>0, <1>1, <2>1
<1>4. CASE StartVideo
  <2>1. \/ UNCHANGED <<at, mRunning>>
        \/ /\ "video" \notin mRunning
           /\ at' = [at EXCEPT !["video"] = "born"] /\ mRunning' = mRunning \cup {"video"}
    BY ZenonT(30), <1>4 DEF StartVideo, VideoStart, VideoStartFails, run, RunFails, Goto, threadVars
  <2> QED BY ZenonT(30), <1>0, <1>1, <2>1
<1>5. ResetVideo \/ ResetAudio \/ UNCHANGED vars => UNCHANGED <<at, mRunning>>
  BY ZenonT(30) DEF ResetVideo, VideoPost, VideoAsk, VideoReset, requestExit, ExitAwaited, ResetAudio,
         AudioReset, threadVars, vars
<1>6. ASSUME \/ \E n \in AudioNodes : InsertAudio(n)
             \/ \E n \in Codecs : RemoveAudio(n)
             \/ \E n \in VideoNodes : InsertVideo(n) \/ RemoveVideo(n)
             \/ RemoveAbsent
      PROVE  UNCHANGED <<at, mRunning>>
  BY ZenonT(30), <1>6 DEF InsertAudio, AudioInsert, RemoveAudio, AudioRemove, InsertVideo, VideoInsert,
         RemoveVideo, VideoRemove, RemoveAbsent, threadVars
<1> QED BY ZenonT(30), <1>1, <1>2, <1>3, <1>4, <1>5, <1>6 DEF Caller

\* Nobody else disturbs what the video thread has routed.
LEMMA PictureWaits ==
    ASSUME ThreadInv, ListInv, PictureInv, Placed',
           Audio \/ Caller \/ StartVideo \/ ResetVideo \/ UNCHANGED vars
    PROVE  PictureInv'
<1>1. Waited
  BY ZenonT(30), VideoWaits
<1>2. /\ at'["video"] = at["video"] \/ (at["video"] = "none" /\ at'["video"] = "born")
      /\ at'["video"] # "none" => "video" \in mRunning'
  BY ZenonT(30), VideoBorn DEF PictureInv
<1>3. txBuffer' = [k \in Metas |-> txBuffer'[k]] /\ i' = i
  <2>1. txBuffer' = txBuffer /\ i' = i
    BY ZenonT(30), <1>1 DEF Waited
  <2> QED BY ZenonT(30), <2>1 DEF PictureInv
<1>4. at'["video"] \notin {"route", "push", "overrun"} => i' = 0
  BY ZenonT(30), <1>2, <1>3 DEF PictureInv
<1>5. ASSUME ~vDrift', ~dipped'
      PROVE  /\ at'["video"] \in {"route", "push"} => PulledInv'
             /\ at'["video"] = "route" => RoutingInv'
             /\ at'["video"] = "push" => RoutedInv'
  <2>1. ~vDrift /\ ~dipped
    BY ZenonT(30), <1>1, <1>5 DEF Waited
  <2>2. at'["video"] \in {"route", "push"} => at'["video"] = at["video"]
    BY ZenonT(30), <1>2
  <2>3. UNCHANGED <<rxBuffer, txBuffer, offsetDec, offsetEnc, i, pulled>>
    BY ZenonT(30), <1>1 DEF Waited
  <2>4. PulledInv => PulledInv'
    BY ZenonT(30), <2>3, PulledKeeps
  <2>5. RoutedInv => RoutedInv'
    BY ZenonT(30), <2>3 DEF RoutedInv
  <2>6. at["video"] = "route" /\ PulledInv /\ RoutingInv => RoutingInv'
    <3>1. at["video"] = "route" => vClients' >= vClients
      BY ZenonT(30), <1>1, <1>5 DEF Waited
    <3>2. vClients \in Int /\ vClients' \in Int
      <4>1. VideoList'
        BY ZenonT(30), ListStep DEF ListInv, Next
      <4> QED BY ZenonT(30), <4>1 DEF ListInv, VideoList
    <3> QED BY ONLY SMT, SMTT(30), <2>3, <3>1, <3>2 DEF PulledInv, RoutingInv
  <2> QED BY ZenonT(30), <2>1, <2>2, <2>4, <2>5, <2>6 DEF PictureInv
<1> QED BY ZenonT(30), <1>2, <1>3, <1>4, <1>5 DEF PictureInv

\* Under mLockQ the list is as the numbers say: what is pulled is in its place.
LEMMA PulledRight ==
    ASSUME OneOfEach, ListInv, Placed, ~vDrift, VideoPull
    PROVE  PulledInv' /\ offsetEnc' - offsetDec' = vClients /\ vClients \in Nat
<1>1. /\ Counted(vNodes, Renders, vClients) /\ vNodes \in Seq(VideoNodes)
      /\ Len(vNodes) = mCameraNum + vClients + mEncoderNum
      /\ mCameraNum <= MaxCamera /\ mEncoderNum <= MaxEncoder
  BY ZenonT(30) DEF ListInv, VideoList
<1>2. /\ mCameraNum \in Nat /\ mEncoderNum \in Nat /\ DOMAIN vNodes = 1 .. Len(vNodes)
      /\ \A k \in 1 .. Len(vNodes) : /\ vNodes[k] \in Cameras <=> k <= mCameraNum
                                     /\ vNodes[k] \in Encoders <=> k > Len(vNodes) - mEncoderNum
  BY SMT, SMTT(30), <1>1 DEF Placed, Borders
<1>3. vClients \in Nat
  BY ZenonT(30), <1>1, FS_CardinalityType DEF Counted
<1>4. mCameraNum <= 1 /\ mEncoderNum <= 1
  BY SMT, SMTT(30), <1>1, <1>2, VideoAssumption DEF OneOfEach
<1>5. PICK got : rxBuffer' = [k \in Metas |-> IF k > Len(vNodes) THEN Old
                                              ELSE IF vNodes[k] \in got THEN vNodes[k] ELSE None]
  BY ZenonT(30) DEF VideoPull
<1>6. offsetDec' = mCameraNum /\ offsetEnc' = mCameraNum + vClients /\ pulled' = vNodes
  BY ZenonT(30) DEF VideoPull
<1>7. ASSUME NEW k \in 1 .. Len(vNodes) PROVE rxBuffer'[k] \in {vNodes[k], None}
  <2>1. ~Outgrown /\ Cardinality(Metas) = MaxCamera + MaxVideoClient + MaxEncoder
    BY SMT, SMTT(30), FS_Interval, VideoAssumption DEF Metas, VideoPull
  <2>2. k \in Metas /\ ~(k > Len(vNodes))
    BY ONLY SMT, SMTT(30), <1>1, <2>1, VideoAssumption DEF Metas, Outgrown
  <2> QED BY ZenonT(30), <1>5, <2>2
<1>8. ASSUME NEW m \in Encoders \cap Members(pulled') PROVE rxBuffer'[offsetEnc' + 1] \in {m, None}
  <2>1. PICK k \in 1 .. Len(vNodes) : vNodes[k] = m
    BY ZenonT(30), <1>2, <1>6 DEF Members
  <2>2. k > Len(vNodes) - mEncoderNum
    BY ZenonT(30), <1>2, <2>1
  <2>3. k = offsetEnc' + 1
    BY ONLY SMT, SMTT(30), <1>1, <1>2, <1>3, <1>4, <1>6, <2>2
  <2> QED BY ZenonT(30), <1>7, <2>1, <2>3
<1>9. ASSUME NEW m \in Cameras \cap Members(pulled') PROVE offsetDec' # 0 /\ rxBuffer'[1] \in {m, None}
  <2>1. PICK k \in 1 .. Len(vNodes) : vNodes[k] = m
    BY ZenonT(30), <1>2, <1>6 DEF Members
  <2>2. k <= mCameraNum
    BY ZenonT(30), <1>2, <2>1
  <2>3. k = 1 /\ offsetDec' # 0
    BY ONLY SMT, SMTT(30), <1>2, <1>4, <1>6, <2>2
  <2> QED BY ZenonT(30), <1>7, <2>1, <2>3
<1>10. offsetDec' \in Nat /\ offsetEnc' \in Nat /\ offsetEnc' - offsetDec' = vClients
  BY SMT, SMTT(30), <1>2, <1>3, <1>6
<1> QED BY ZenonT(30), <1>3, <1>8, <1>9, <1>10 DEF PulledInv, Members

\* The video thread's own steps.
LEMMA PictureRuns ==
    ASSUME OneOfEach, ThreadInv, ListInv, PictureInv, Placed', Video
    PROVE  PictureInv'
<1>0. at \in [Mixers -> Places] /\ "video" \in Mixers /\ VideoThread
  BY ZenonT(30) DEF ThreadInv, Places, Mixers, Video
<1>1. CASE \/ (Born("video", "loop") \/ Ended("video")) /\ UNCHANGED videoVars
           \/ VideoTop \/ VideoTry \/ VideoOverrun
  <2>1. UNCHANGED <<txBuffer, i>>
    BY ZenonT(30), <1>1 DEF VideoTop, VideoTry, VideoOverrun, videoVars, turnVars
  <2>2. /\ at'["video"] # "route" /\ at'["video"] # "push"
        /\ at'["video"] # "overrun" => at["video"] \in {"born", "end", "loop", "semaphore"}
        /\ at'["video"] # "none" => mRunning' = mRunning /\ at["video"] # "none"
    <3>1. CASE Born("video", "loop") \/ Ended("video")
      BY ZenonT(30), <1>0, <3>1 DEF Born, Ended, Goto
    <3>2. CASE VideoTop \/ VideoTry
      BY ZenonT(30), <1>0, <3>2 DEF VideoTop, VideoTry, Goto
    <3>3. CASE VideoOverrun
      <4>1. at["video"] # "none" /\ mRunning' = mRunning
        BY ZenonT(30), <3>3 DEF VideoOverrun
      <4>2. at'["video"] = "overrun"
        BY ZenonT(30), <1>0, <3>3 DEF VideoOverrun, Goto
      <4> QED BY ZenonT(30), <4>1, <4>2
    <3> QED BY ZenonT(30), <1>1, <3>1, <3>2, <3>3
  <2>3. txBuffer' = [k \in Metas |-> txBuffer'[k]]
    BY ZenonT(30), <2>1 DEF PictureInv
  <2>4. at'["video"] # "none" => "video" \in mRunning'
    BY ZenonT(30), <2>2 DEF PictureInv
  <2>5. at'["video"] \notin {"route", "push", "overrun"} => i' = 0
    BY ZenonT(30), <2>1, <2>2 DEF PictureInv
  <2> QED BY ZenonT(30), <2>2, <2>3, <2>4, <2>5 DEF PictureInv
<1>2. CASE VideoPull
  <2>1. /\ at["video"] = "pull" /\ at'["video"] = "route" /\ mRunning' = mRunning
        /\ UNCHANGED <<txBuffer, i, vDrift, dipped, vClients>>
    BY ZenonT(30), <1>0, <1>2 DEF VideoPull, Goto, vListVars
  <2>2. txBuffer' = [k \in Metas |-> txBuffer'[k]] /\ "video" \in mRunning' /\ i' = 0
    <3>1. txBuffer' = [k \in Metas |-> txBuffer'[k]]
      BY ZenonT(30), <2>1 DEF PictureInv
    <3>2. "video" \in mRunning' /\ i' = 0
      BY ZenonT(30), <2>1 DEF PictureInv
    <3> QED BY <3>1, <3>2, ZenonT(30)
  <2>3. ASSUME ~vDrift' PROVE PulledInv' /\ RoutingInv'
    <3>1. PulledInv' /\ offsetEnc' - offsetDec' = vClients /\ vClients \in Nat
      BY ZenonT(30), <1>2, <2>1, <2>3, PulledRight DEF PictureInv
    <3>2. RoutingInv'
      BY ONLY SMT, SMTT(30), <2>1, <2>2, <3>1 DEF RoutingInv
    <3> QED BY ZenonT(30), <3>1, <3>2
  <2> QED BY ZenonT(30), <2>1, <2>2, <2>3 DEF PictureInv
<1>3. CASE RouteWindow
  <2>1. /\ at["video"] = "route" /\ at' = at /\ mRunning' = mRunning /\ i' = i + 1
        /\ UNCHANGED <<rxBuffer, offsetDec, offsetEnc, pulled, vDrift, dipped, vClients>>
        /\ offsetDec + i + 1 \in Metas
        /\ txBuffer' = [txBuffer EXCEPT ![offsetDec + i + 1] = rxBuffer[offsetEnc + 1]]
    BY ZenonT(30), <1>3 DEF RouteWindow, threadVars, vListVars
  <2>2. txBuffer = [k \in Metas |-> txBuffer[k]]
    BY ZenonT(30) DEF PictureInv
  <2>3. txBuffer' = [k \in Metas |-> txBuffer'[k]]
    BY ZenonT(30), <2>1, <2>2
  <2>4. "video" \in mRunning' /\ at'["video"] = "route"
    BY ZenonT(30), <2>1 DEF PictureInv
  <2>5. ASSUME ~vDrift', ~dipped' PROVE PulledInv' /\ RoutingInv'
    <3>1. PulledInv /\ RoutingInv
      BY ZenonT(30), <2>1, <2>5 DEF PictureInv
    <3>2. PulledInv'
      BY ZenonT(30), <2>1, <3>1, PulledKeeps
    <3>3. i \in Nat /\ offsetDec \in Nat
      BY ZenonT(30), <3>1 DEF PulledInv, RoutingInv
    <3>4. ASSUME NEW k \in 1 .. i' PROVE txBuffer'[offsetDec' + k] = rxBuffer'[offsetEnc' + 1]
      <4>1. CASE k = i + 1
        <5>1. offsetDec + k = offsetDec + i + 1
          BY SMT, SMTT(30), <3>3, <4>1
        <5>2. txBuffer'[offsetDec + i + 1] = rxBuffer[offsetEnc + 1]
          BY ZenonT(30), <2>1, <2>2
        <5> QED BY ZenonT(30), <2>1, <5>1, <5>2
      <4>2. CASE k # i + 1
        <5>1. k \in 1 .. i /\ offsetDec + k # offsetDec + i + 1
          BY SMT, SMTT(30), <2>1, <3>3, <4>2
        <5>2. txBuffer[offsetDec + k] = rxBuffer[offsetEnc + 1]
          BY ZenonT(30), <3>1, <5>1 DEF RoutingInv
        <5>3. offsetDec + k \in Metas
          BY SMT, SMTT(30), <2>1, <3>3, <5>1, VideoAssumption DEF Metas
        <5>4. txBuffer'[offsetDec + k] = txBuffer[offsetDec + k]
          BY ZenonT(30), <2>1, <2>2, <5>1, <5>3
        <5> QED BY ZenonT(30), <2>1, <5>2, <5>4
      <4> QED BY ZenonT(30), <4>1, <4>2
    <3>5. i' \in Nat /\ vClients' >= offsetEnc' - offsetDec'
      BY ONLY SMT, SMTT(30), <2>1, <3>1, <3>3 DEF RoutingInv
    <3> QED BY ZenonT(30), <3>2, <3>4, <3>5 DEF RoutingInv
  <2> QED BY ZenonT(30), <2>3, <2>4, <2>5 DEF PictureInv
<1>4. CASE RouteCamera
  <2>1. /\ at["video"] = "route" /\ at'["video"] = "push" /\ mRunning' = mRunning /\ i >= vClients
        /\ UNCHANGED <<rxBuffer, offsetDec, offsetEnc, i, pulled, vDrift, dipped, vClients>>
    BY ZenonT(30), <1>0, <1>4 DEF RouteCamera, Goto, vListVars
  <2>2. /\ offsetDec = 0 \/ offsetEnc + 1 \in Metas
        /\ txBuffer' = IF offsetDec = 0 THEN txBuffer
                       ELSE [txBuffer EXCEPT ![offsetEnc + 1] = rxBuffer[1]]
    BY ZenonT(30), <1>4 DEF RouteCamera
  <2>3. txBuffer = [k \in Metas |-> txBuffer[k]]
    BY ZenonT(30) DEF PictureInv
  <2>4. txBuffer' = [k \in Metas |-> txBuffer'[k]]
    BY ZenonT(30), <2>2, <2>3
  <2>5. "video" \in mRunning'
    BY ZenonT(30), <2>1 DEF PictureInv
  <2>6. ASSUME ~vDrift', ~dipped' PROVE PulledInv' /\ RoutedInv'
    <3>1. PulledInv /\ RoutingInv
      BY ZenonT(30), <2>1, <2>6 DEF PictureInv
    <3>2. PulledInv'
      BY ZenonT(30), <2>1, <3>1, PulledKeeps
    <3>3. i \in Nat /\ offsetDec \in Nat /\ offsetEnc \in Nat /\ vClients >= offsetEnc - offsetDec
      BY ZenonT(30), <3>1 DEF PulledInv, RoutingInv
    <3>4. offsetDec # 0 => txBuffer'[offsetEnc + 1] = rxBuffer[1]
      BY ZenonT(30), <2>2, <2>3
    <3>5. ASSUME NEW k \in 1 .. offsetEnc - offsetDec
          PROVE  txBuffer'[offsetDec + k] = rxBuffer[offsetEnc + 1]
      <4>1. k \in 1 .. i
        <5>1. vClients \in Int
          BY ZenonT(30) DEF ListInv, VideoList
        <5> QED BY ONLY SMT, SMTT(30), <2>1, <3>3, <5>1
      <4>2. txBuffer[offsetDec + k] = rxBuffer[offsetEnc + 1]
        BY ZenonT(30), <3>1, <4>1 DEF RoutingInv
      <4>3. CASE offsetDec = 0
        BY ZenonT(30), <2>2, <4>2, <4>3
      <4>4. CASE offsetDec # 0
        <5>1. offsetDec + k \in Metas /\ offsetDec + k # offsetEnc + 1
          BY SMT, SMTT(30), <2>2, <3>3, <4>4, VideoAssumption DEF Metas
        <5>2. txBuffer' = [txBuffer EXCEPT ![offsetEnc + 1] = rxBuffer[1]]
          BY ZenonT(30), <2>2, <4>4
        <5>3. txBuffer'[offsetDec + k] = txBuffer[offsetDec + k]
          BY ZenonT(30), <2>3, <5>1, <5>2
        <5> QED BY ZenonT(30), <4>2, <5>3
      <4> QED BY ZenonT(30), <4>3, <4>4
    <3>6. RoutedInv'
      BY ZenonT(30), <2>1, <3>4, <3>5 DEF RoutedInv
    <3> QED BY ZenonT(30), <3>2, <3>6
  <2> QED BY ZenonT(30), <2>1, <2>4, <2>5, <2>6 DEF PictureInv
<1>5. CASE VideoPush
  <2>1. /\ at["video"] = "push" /\ at'["video"] = "loop" /\ mRunning' = mRunning /\ i' = 0
        /\ txBuffer' = Stale
    BY ZenonT(30), <1>0, <1>5 DEF VideoPush, Goto, TurnOver
  <2>2. txBuffer' = [k \in Metas |-> txBuffer'[k]]
    BY ZenonT(30), <2>1 DEF Stale
  <2>3. "video" \in mRunning'
    BY ZenonT(30), <2>1 DEF PictureInv
  <2> QED BY ZenonT(30), <2>1, <2>2, <2>3 DEF PictureInv
<1> QED BY ZenonT(30), <1>0, <1>1, <1>2, <1>3, <1>4, <1>5 DEF VideoThread

LEMMA PictureStep ==
    ASSUME OneOfEach PROVE ThreadInv /\ ListInv /\ PictureInv /\ [Next]_vars => PictureInv'
<1> SUFFICES ASSUME ThreadInv, ListInv, PictureInv, [Next]_vars PROVE PictureInv'
  OBVIOUS
<1>1. Placed'
  BY ZenonT(30), PlacedStep DEF PictureInv
<1>2. CASE Video
  BY ZenonT(30), <1>1, <1>2, PictureRuns
<1>3. CASE Audio \/ Caller \/ StartVideo \/ ResetVideo \/ UNCHANGED vars
  BY ZenonT(30), <1>1, <1>3, PictureWaits
<1> QED BY ZenonT(30), <1>2, <1>3 DEF Next

\* What a push shows, if the numbers are the ones the pictures were routed for.
LEMMA PushedRight ==
    ASSUME OneOfEach, ListInv, PictureInv, ~vDrift, ~dipped, at["video"] = "push", Unchanged, Push,
           NEW n \in DOMAIN shown'
    PROVE  /\ n \in Renders => \A e \in Encoders \cap Members(pulled) : shown'[n] \in {e, None}
           /\ n \in Encoders => \A c \in Cameras \cap Members(pulled) : shown'[n] \in {c, None}
<1>1. PulledInv /\ RoutedInv /\ Placed
  BY ZenonT(30) DEF PictureInv
<1>2. /\ Counted(vNodes, Renders, vClients) /\ vNodes \in Seq(VideoNodes)
      /\ Len(vNodes) = mCameraNum + vClients + mEncoderNum /\ mEncoderNum <= MaxEncoder
  BY ZenonT(30) DEF ListInv, VideoList
<1>3. /\ mCameraNum \in Nat /\ mEncoderNum \in Nat /\ DOMAIN vNodes = 1 .. Len(vNodes)
      /\ \A k \in 1 .. Len(vNodes) : /\ vNodes[k] \in Cameras <=> k <= mCameraNum
                                     /\ vNodes[k] \in Encoders <=> k > Len(vNodes) - mEncoderNum
  BY ONLY SMT, SMTT(30), <1>1, <1>2 DEF Placed, Borders
<1>4. vClients \in Nat /\ mEncoderNum <= 1
  <2>1. vClients \in Nat
    BY ZenonT(30), <1>2, FS_CardinalityType DEF Counted
  <2> QED BY SMT, SMTT(30), <1>2, <1>3, <2>1, VideoAssumption DEF OneOfEach
<1>5. offsetDec = mCameraNum /\ offsetEnc = mCameraNum + vClients
  BY ZenonT(30) DEF Unchanged
<1>6. PICK p \in 1 .. Len(vNodes) : vNodes[p] = n /\ shown'[n] = txBuffer[p]
  <2> DEFINE p == CHOOSE k \in DOMAIN vNodes : vNodes[k] = n
  <2>1. n \in {vNodes[k] : k \in DOMAIN vNodes} /\ shown'[n] = txBuffer[p]
    BY ZenonT(30) DEF Push
  <2>2. \E k \in DOMAIN vNodes : vNodes[k] = n
    BY ZenonT(30), <2>1
  <2>3. p \in DOMAIN vNodes /\ vNodes[p] = n
    BY ZenonT(30), <2>2
  <2> QED BY ZenonT(30), <1>3, <2>1, <2>3
<1>7. ASSUME n \in Renders, NEW e \in Encoders \cap Members(pulled) PROVE shown'[n] \in {e, None}
  <2>1. ~(p <= mCameraNum) /\ ~(p > Len(vNodes) - mEncoderNum)
    <3>1. n \notin Cameras /\ n \notin Encoders
      BY ZenonT(30), <1>7, VideoAssumption
    <3> QED BY ZenonT(30), <1>3, <1>6, <3>1
  <2>2. p - offsetDec \in 1 .. offsetEnc - offsetDec /\ offsetDec + (p - offsetDec) = p
    BY ONLY SMT, SMTT(30), <1>2, <1>3, <1>4, <1>5, <2>1
  <2>3. txBuffer[p] = rxBuffer[offsetEnc + 1]
    BY ZenonT(30), <1>1, <2>2 DEF RoutedInv
  <2> QED BY ZenonT(30), <1>1, <1>6, <2>3 DEF PulledInv
<1>8. ASSUME n \in Encoders, NEW c \in Cameras \cap Members(pulled) PROVE shown'[n] \in {c, None}
  <2>1. p > Len(vNodes) - mEncoderNum
    BY ZenonT(30), <1>3, <1>6, <1>8
  <2>2. p = offsetEnc + 1
    BY ONLY SMT, SMTT(30), <1>2, <1>3, <1>4, <1>5, <2>1
  <2>3. offsetDec # 0 /\ rxBuffer[1] \in {c, None}
    BY ZenonT(30), <1>1 DEF PulledInv
  <2>4. txBuffer[p] = rxBuffer[1]
    BY ZenonT(30), <1>1, <2>2, <2>3 DEF RoutedInv
  <2> QED BY ZenonT(30), <1>6, <2>3, <2>4
<1> QED BY ZenonT(30), <1>7, <1>8

LEMMA InitPictures == Init => PictureInv
<1> SUFFICES ASSUME Init PROVE PictureInv
  OBVIOUS
<1>1. vNodes = <<>> /\ mCameraNum = 0 /\ mEncoderNum = 0 /\ i = 0 /\ txBuffer = Stale
  BY ZenonT(30) DEF Init, VideoInit
<1>2. at["video"] = "none"
  BY ZenonT(30) DEF Init, ThreadInit, Mixers
<1>3. Placed
  BY SMT, SMTT(30), <1>1 DEF Placed, Borders
<1>4. txBuffer = [k \in Metas |-> txBuffer[k]]
  BY ZenonT(30), <1>1 DEF Stale
<1> QED BY ZenonT(30), <1>1, <1>2, <1>3, <1>4 DEF PictureInv

\* With one camera and one encoder, as MAX_VIDEO_CAMERA and MAX_VIDEO_ENCODER have
\* it, and any number of windows: whatever joins and leaves while the video thread
\* routes pictures without mLockQ, a push that finds the numbers unchanged shows
\* every window the encoder's picture and gives the encoder the camera's, unless
\* a window has left meanwhile or a reset has forgotten callers.
THEOREM RightPictureHolds == ASSUME OneOfEach PROVE Spec => RightPicture
<1> DEFINE Shows == \A n \in DOMAIN shown' : shown' # shown /\ ~vDrift /\ ~dipped =>
         /\ n \in Renders => \A e \in Encoders \cap Members(pulled) : shown'[n] \in {e, None}
         /\ n \in Encoders => \A c \in Cameras \cap Members(pulled) : shown'[n] \in {c, None}
<1>1. ASSUME ListInv, PictureInv, [Next]_vars PROVE Shows
  <2>1. CASE UNCHANGED shown
    BY ZenonT(30), <2>1
  <2>2. CASE Audio \/ Caller \/ StartVideo \/ ResetVideo \/ UNCHANGED vars
    BY ZenonT(30), <1>1, <2>1, <2>2, VideoWaits DEF Waited
  <2>3. CASE VideoTop
    <3>1. DOMAIN shown' = {}
      BY ZenonT(30), <2>3 DEF VideoTop, Unpushed
    <3> QED BY ZenonT(30), <3>1
  <2>4. CASE VideoPush
    <3>1. CASE Unchanged
      <4>1. at["video"] = "push" /\ Push
        BY ZenonT(30), <2>4, <3>1 DEF VideoPush
      <4> QED BY ZenonT(30), <1>1, <3>1, <4>1, PushedRight
    <3>2. CASE ~Unchanged
      BY ZenonT(30), <2>1, <2>4, <3>2 DEF VideoPush
    <3> QED BY ZenonT(30), <3>1, <3>2
  <2>5. CASE \/ (Born("video", "loop") \/ Ended("video")) /\ UNCHANGED videoVars
             \/ VideoTry \/ VideoPull \/ VideoOverrun \/ RouteWindow \/ RouteCamera
    <3>1. UNCHANGED shown
      BY ZenonT(30), <2>5 DEF VideoTry, VideoPull, VideoOverrun, RouteWindow, RouteCamera, videoVars
    <3> QED BY ZenonT(30), <2>1, <3>1
  <2> QED BY ZenonT(30), <1>1, <2>2, <2>3, <2>4, <2>5 DEF Next, Video, VideoThread
<1>2. Init => ThreadInv /\ ListInv /\ PictureInv
  BY InitThread, InitLists, InitPictures, ZenonT(30)
<1>3. ThreadInv /\ ListInv /\ PictureInv /\ [Next]_vars => (ThreadInv /\ ListInv /\ PictureInv)'
  BY ThreadStep, ListStep, PictureStep, ZenonT(30)
<1> HIDE DEF Shows
<1>4. ListInv /\ PictureInv /\ [Next]_vars => [Shows]_vars
  BY <1>1, ZenonT(30)
<1>5. Spec => [][Shows]_vars
  BY <1>2, <1>3, <1>4, PTL DEF Spec
<1> QED BY <1>5, PTL DEF RightPicture, Shows

-----------------------------------------------------------------------------
\* fastmix_add is the last of the partial sums of its input.
LEMMA AddIsSum ==
    ASSUME NEW in
    PROVE  \E s : IsSum(s, in, MaxMix) /\ fastmix_add(in) = s[MaxMix]
<1> DEFINE s == CHOOSE sum : IsSum(sum, in, MaxMix)
<1>1. \E sum : IsSum(sum, in, MaxMix)
  BY ZenonT(30), SumExists, AudioAssumption
<1>2. IsSum(s, in, MaxMix)
  BY ZenonT(30), <1>1
<1>3. fastmix_add(in) = s[MaxMix]
  BY ZenonT(30) DEF fastmix_add, IsSum
<1> QED BY ZenonT(30), <1>2, <1>3

\* What the nodes of list in live deliver, in their slots.
Delivered(list, live) == [k \in Slots |-> IF k \in live THEN Sample[list[k]] ELSE 0]
Sampled(list, n) == \A k \in 1 .. n : Sample[list[k]] \in Int

\* What is subtracted from the sum leaves the sum of the others.
LEMMA MixedRight ==
    ASSUME NEW n \in 0 .. MaxMix, NEW list, Sampled(list, n),
           NEW live \in SUBSET (1 .. n), NEW j \in 1 .. n
    PROVE  fastmix_add(Delivered(list, live)) - Delivered(list, live)[j] =
             fastmix_add(Delivered(list, live \ {j}))
<1> DEFINE in == Delivered(list, live)
           g  == Delivered(list, live \ {j})
<1>0. MaxMix \in Nat /\ j \in 1 .. MaxMix
  BY ONLY SMT, SMTT(30), AudioAssumption
<1>1. Integral(in, MaxMix)
  BY SMT, SMTT(30), <1>0 DEF Slots, Integral, Delivered, Sampled
<1>2. Without(g, in, j, MaxMix)
  BY ZenonT(30), <1>0 DEF Slots, Without, Delivered
<1> HIDE DEF g, in
<1>3. PICK s : IsSum(s, in, MaxMix) /\ fastmix_add(in) = s[MaxMix]
  BY ZenonT(30), AddIsSum
<1>4. PICK t : IsSum(t, g, MaxMix) /\ fastmix_add(g) = t[MaxMix]
  BY ZenonT(30), AddIsSum
<1>5. t[MaxMix] = s[MaxMix] - in[j]
  <2>1. /\ MaxMix \in Nat /\ Integral(in, MaxMix) /\ IsSum(s, in, MaxMix)
        /\ Without(g, in, j, MaxMix) /\ IsSum(t, g, MaxMix)
    BY ZenonT(30), <1>0, <1>1, <1>2, <1>3, <1>4
  <2> QED BY ONLY SMT, SMTT(30), <2>1, SumWithout
<1> QED BY ZenonT(30), <1>3, <1>4, <1>5 DEF g, in

\* The slots are muted when a round begins, and every node has one.
MixInv ==
    /\ Len(aNodes) <= MaxMix
    /\ at["audio"] = "wait" => inKeep = {} /\ outKeep = {}
    /\ MixMinus

\* A round that succeeds.
LEMMA RoundRight ==
    ASSUME AudioList, MixInv, AudioMixed
    PROVE  MixMinus'
<1> DEFINE n == Len(aNodes)
<1>1. /\ aNodes \in Seq(AudioNodes) /\ MaxMix \in Nat /\ n \in Nat /\ n \in 0 .. MaxMix
      /\ \A k \in 1 .. n : aNodes[k] \in AudioNodes
      /\ inKeep = {} /\ outKeep = {}
  BY SMT, SMTT(30), AudioAssumption DEF AudioList, MixInv, AudioMixed, Woken
<1>2. Sampled(aNodes, n)
  BY SMT, SMTT(30), <1>1, AudioAssumption DEF Sampled
<1>3. PICK loud \in {{}, {2}, DOMAIN aNodes} :
          LET in  == fastmix_pre_amp([k \in Slots |-> IF k <= n THEN Sample[aNodes[k]] ELSE Peak],
                                     inKeep')
              out == fastmix_sub_amp(fastmix_add(in), in, outKeep')
          IN  /\ Pull(n, loud)
              /\ round' = [list |-> aNodes, live |-> {k \in 1 .. n : k = 1 \/ k \in loud},
                           pushed |-> SubSeq(out, 1, n)]
  BY ZenonT(30) DEF AudioMixed
<1> DEFINE live == {k \in 1 .. n : k = 1 \/ k \in loud}
           in   == Delivered(aNodes, live)
           out  == fastmix_sub_amp(fastmix_add(in), in, 1 .. n)
<1>4. inKeep' = live /\ outKeep' = 1 .. n
  <2>1. Pull(n, loud)
    BY ZenonT(30), <1>3
  <2> QED BY ZenonT(30), <1>1, <2>1 DEF Pull
<1>5. fastmix_pre_amp([k \in Slots |-> IF k <= n THEN Sample[aNodes[k]] ELSE Peak], inKeep') = in
  BY SMT, SMTT(30), <1>1, <1>4 DEF fastmix_pre_amp, Slots, Delivered
<1>6. round' = [list |-> aNodes, live |-> live, pushed |-> SubSeq(out, 1, n)]
  BY ZenonT(30), <1>3, <1>4, <1>5
<1>7. ASSUME NEW j \in 1 .. n
      PROVE  SubSeq(out, 1, n)[j] = sature32(fastmix_add(Delivered(aNodes, live \ {j})))
  <2>1. fastmix_add(in) - in[j] = fastmix_add(Delivered(aNodes, live \ {j}))
    <3>1. live \in SUBSET (1 .. n) /\ n \in 0 .. MaxMix
      BY ZenonT(30), <1>1
    <3> HIDE DEF live, n
    <3> QED BY ONLY SMT, SMTT(30), <1>2, <1>7, <3>1, MixedRight
  <2> HIDE DEF live, in
  <2>2. out[j] = sature32(fastmix_add(in) - in[j])
    <3>1. j \in Slots
      BY ONLY SMT, SMTT(30), <1>1 DEF Slots
    <3> HIDE DEF n
    <3> QED BY ZenonT(30), <1>7, <3>1 DEF fastmix_sub_amp
  <2>3. SubSeq(out, 1, n)[j] = out[j]
    <3>1. DOMAIN out = 1 .. MaxMix
      BY ZenonT(30) DEF fastmix_sub_amp, Slots
    <3> HIDE DEF out
    <3> QED BY ONLY SMT, SMTT(30), <1>1, <3>1, AudioAssumption
  <2> QED BY ZenonT(30), <2>1, <2>2, <2>3
<1> HIDE DEF live, out
<1>8. /\ round'.list = aNodes /\ DOMAIN round'.list = 1 .. n
      /\ round'.live = live /\ round'.pushed = SubSeq(out, 1, n)
  BY ONLY SMT, SMTT(30), <1>1, <1>6
<1> QED BY ZenonT(30), <1>7, <1>8 DEF MixMinus, Delivered

\* The thread that is not mixing, and everybody else, leaves the slots alone.
Untouched ==
    /\ UNCHANGED ampVars
    /\ at'["audio"] = "wait" => at["audio"] = "wait"

LEMMA UntouchedKeeps ==
    ASSUME MixInv, Untouched, Len(aNodes') <= MaxMix
    PROVE  MixInv'
<1>1. MixMinus /\ round' = round /\ inKeep' = inKeep /\ outKeep' = outKeep
  BY ZenonT(30) DEF MixInv, Untouched, ampVars
<1>2. MixMinus'
  BY ZenonT(30), <1>1 DEF MixMinus
<1> QED BY ZenonT(30), <1>1, <1>2 DEF MixInv, Untouched

LEMMA CallersUntouched ==
    ASSUME ThreadInv, [Caller \/ StartVideo \/ ResetVideo \/ Video]_vars
    PROVE  Untouched
<1>0. at \in [Mixers -> Places] /\ "audio" \in Mixers
  BY ZenonT(30) DEF ThreadInv, Places, Mixers
<1>1. CASE StartVideo \/ ResetVideo \/ Video
  <2>1. AudioFrame
    BY ZenonT(30), <1>1, VideoElsewhere, VideoCallsElsewhere
  <2>2. UNCHANGED ampVars
    BY ZenonT(30), <1>1 DEF StartVideo, ResetVideo, Video, audioVars, ampVars
  <2> QED BY ZenonT(30), <2>1, <2>2 DEF Untouched, AudioFrame
<1>2. CASE \/ \E n \in AudioNodes : InsertAudio(n)
           \/ \E n \in Codecs : RemoveAudio(n)
           \/ \E n \in VideoNodes : InsertVideo(n) \/ RemoveVideo(n)
           \/ RemoveAbsent
           \/ UNCHANGED vars
  <2>1. \A n : InsertAudio(n) \/ RemoveAudio(n) => UNCHANGED ampVars /\ at' = at
    BY ZenonT(30) DEF InsertAudio, AudioInsert, RemoveAudio, AudioRemove, threadVars, ampVars
  <2>2. \A n : InsertVideo(n) \/ RemoveVideo(n) => UNCHANGED ampVars /\ at' = at
    BY ZenonT(30) DEF InsertVideo, VideoInsert, RemoveVideo, VideoRemove, threadVars, audioVars, ampVars
  <2>3. RemoveAbsent \/ UNCHANGED vars => UNCHANGED ampVars /\ at' = at
    BY ZenonT(30) DEF RemoveAbsent, threadVars, audioVars, ampVars, vars
  <2> QED BY ZenonT(30), <1>2, <2>1, <2>2, <2>3 DEF Untouched
<1>3. CASE StartAudio \/ ResetAudio
  <2>1. UNCHANGED ampVars /\ (at' = at \/ at' = [at EXCEPT !["audio"] = "born"])
    BY ZenonT(30), <1>3 DEF StartAudio, ResetAudio, AudioStart, AudioStartFails, AudioReset, requestExit,
                run, RunRefused, RunFails, Goto, threadVars, audioVars, ampVars
  <2> QED BY ZenonT(30), <1>0, <2>1 DEF Untouched
<1> QED BY ZenonT(30), <1>1, <1>2, <1>3 DEF Caller

\* The list never outgrows the slots.
LEMMA SlotsSuffice ==
    ASSUME AudioList, MixInv, [Next]_vars
    PROVE  Len(aNodes') <= MaxMix
<1>0. aNodes \in Seq(AudioNodes) /\ Len(aNodes) <= MaxMix /\ MaxMix \in Nat /\ Len(aNodes) \in Nat
  BY SMT, SMTT(30), AudioAssumption DEF AudioList, MixInv
<1>1. CASE SameAudioList
  BY ZenonT(30), <1>0, <1>1 DEF SameAudioList
<1>2. ASSUME NEW n \in AudioNodes, AudioInsert(n) PROVE Len(aNodes') <= MaxMix
  <2>1. PICK j \in 1 .. Len(aNodes) + 1 : aNodes' = InsertAt(aNodes, j, n)
    BY ZenonT(30), <1>2 DEF AudioInsert
  <2>2. Len(aNodes') = Len(aNodes) + 1
    <3>1. Len(InsertAt(aNodes, j, n)) = Len(aNodes) + 1
      BY ONLY ZenonT(30), <1>0, <1>2, Lengths
    <3> QED BY ZenonT(30), <2>1, <3>1
  <2>3. ~(Len(aNodes) >= MaxMix)
    BY ZenonT(30), <1>2 DEF AudioInsert, AudioFull
  <2> QED BY ONLY SMT, SMTT(30), <1>0, <2>2, <2>3
<1>3. ASSUME NEW n \in AudioNodes, AudioRemove(n) PROVE Len(aNodes') <= MaxMix
  <2>1. PICK j \in DOMAIN aNodes : aNodes' = RemoveAt(aNodes, j)
    BY ZenonT(30), <1>3 DEF AudioRemove
  <2>2. j \in 1 .. Len(aNodes)
    BY SMT, SMTT(30), <1>0
  <2>3. Len(RemoveAt(aNodes, j)) = Len(aNodes) - 1
    BY ONLY ZenonT(30), <1>0, <2>2, Lengths
  <2> QED BY ONLY SMT, SMTT(30), <1>0, <2>1, <2>3
<1>4. CASE \E n \in VideoNodes : InsertVideo(n) \/ RemoveVideo(n)
  BY ZenonT(30), <1>0, <1>4 DEF InsertVideo, RemoveVideo, audioVars
<1>5. CASE ResetVideo
  BY ZenonT(30), <1>0, <1>5 DEF ResetVideo, audioVars
<1>6. ASSUME NEW n \in Codecs, RemoveAudio(n) PROVE AudioRemove(n) /\ n \in AudioNodes
  BY ZenonT(30), <1>6 DEF RemoveAudio, AudioNodes
<1>7. ASSUME NEW n \in AudioNodes, InsertAudio(n) PROVE AudioInsert(n)
  BY ZenonT(30), <1>7 DEF InsertAudio
<1> QED BY ZenonT(30), <1>1, <1>2, <1>3, <1>4, <1>5, <1>6, <1>7, ThreadsKeepLists DEF Next, Caller

\* The audio thread.
LEMMA AudioMixes ==
    ASSUME ThreadInv, AudioList, MixInv, Audio, Len(aNodes') <= MaxMix
    PROVE  MixInv'
<1>0. at \in [Mixers -> Places] /\ "audio" \in Mixers
  BY ZenonT(30) DEF ThreadInv, Places, Mixers
<1>1. CASE \/ (Born("audio", "enter") \/ Ended("audio")) /\ UNCHANGED audioVars
           \/ AudioEnter \/ AudioUnwanted \/ AudioLeave
  <2>1. UNCHANGED ampVars
    BY ZenonT(30), <1>1 DEF AudioEnter, AudioUnwanted, AudioLeave, audioVars, ampVars
  <2>2. at'["audio"] # "wait"
    BY ZenonT(30), <1>0, <1>1 DEF Born, Ended, AudioEnter, AudioUnwanted, AudioLeave, Goto
  <2> QED BY ZenonT(30), <2>1, <2>2, UntouchedKeeps DEF Untouched
<1>2. CASE AudioTop
  <2>1. inKeep' = {} /\ outKeep' = {} /\ round' = NoRound
    BY ZenonT(30), <1>2 DEF AudioTop
  <2>2. DOMAIN round'.list = {}
    BY SMT, SMTT(30), <2>1 DEF NoRound
  <2>3. MixMinus'
    BY ZenonT(30), <2>2 DEF MixMinus
  <2> QED BY ZenonT(30), <2>1, <2>3 DEF MixInv
<1>3. CASE Woken
  <2>1. at'["audio"] # "wait"
    BY ZenonT(30), <1>0, <1>3 DEF Woken, Goto
  <2>2. MixMinus'
    <3>1. CASE UNCHANGED round
      BY ZenonT(30), <3>1 DEF MixInv, MixMinus
    <3>2. CASE AudioMixed
      BY ZenonT(30), <3>2, RoundRight
    <3> QED BY ZenonT(30), <1>0, <1>3, <3>1, <3>2, <1>1, <1>2
        DEF Audio, AudioThread, AudioStarved, AudioCrossed, ampVars, MixInv
  <2> QED BY ZenonT(30), <2>1, <2>2 DEF MixInv
<1> QED BY ZenonT(30), <1>1, <1>2, <1>3 DEF Audio, AudioThread, AudioStarved, AudioMixed, AudioCrossed

LEMMA MixStep == ThreadInv /\ ListInv /\ MixInv /\ [Next]_vars => MixInv'
<1> SUFFICES ASSUME ThreadInv, ListInv, MixInv, [Next]_vars PROVE MixInv'
  OBVIOUS
<1>1. AudioList /\ Len(aNodes') <= MaxMix
  BY ZenonT(30), SlotsSuffice DEF ListInv
<1> QED BY ZenonT(30), <1>1, AudioMixes, CallersUntouched, UntouchedKeeps DEF Next

LEMMA InitMix == Init => MixInv
<1> SUFFICES ASSUME Init PROVE MixInv
  OBVIOUS
<1>1. /\ Len(aNodes) = 0 /\ inKeep = {} /\ outKeep = {} /\ DOMAIN round.list = {}
      /\ MaxMix \in Nat /\ 0 <= MaxMix
  BY SMT, SMTT(30), AudioAssumption DEF Init, AudioInit, NoRound
<1> QED BY ZenonT(30), <1>1 DEF MixInv, MixMinus

\* Every node of a round hears the saturated sum of the others, of that round,
\* whatever rounds failed before it and whoever joined or left.
THEOREM MixMinusHolds == Spec => []MixMinus
<1>1. Init => ThreadInv /\ ListInv /\ MixInv
  BY InitThread, InitLists, InitMix
<1>2. MixInv => MixMinus
  BY ZenonT(30) DEF MixInv
<1> QED BY <1>1, <1>2, ThreadStep, ListStep, MixStep, PTL DEF Spec

=============================================================================
