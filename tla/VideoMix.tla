------------------------------ MODULE VideoMix ------------------------------
(***************************************************************************)
(* VideoConfMix: a list of nodes and a thread that pulls a picture from    *)
(* each of them, hands the encoder's to the callers' windows and the       *)
(* camera's to the encoder.  The list is read twice, and the pictures are  *)
(* routed in between with mLockQ released.                                 *)
(*                                                                         *)
(* A picture is the node it was pulled from in this turn of the loop, Old  *)
(* when it is left over from an earlier turn, None when there is none.     *)
(***************************************************************************)
EXTENDS MixThread, NodeLists, FiniteSets

CONSTANTS
    Cameras, Renders, Encoders,            \* the nodes, in the order of rank
    MaxCamera, MaxVideoClient, MaxEncoder, \* MAX_VIDEO_...
    Old, None

VideoNodes == Cameras \cup Renders \cup Encoders

\* mMetas[], which the code numbers from 0.
Metas == 1 .. MaxCamera + MaxVideoClient + MaxEncoder

ASSUME VideoAssumption ==
    /\ Cameras \cap Renders = {} /\ Cameras \cap Encoders = {} /\ Renders \cap Encoders = {}
    /\ MaxCamera \in Nat /\ MaxVideoClient \in Nat /\ MaxEncoder \in Nat \ {0}
    /\ Old # None /\ {Old, None} \cap VideoNodes = {}

VARIABLES
    vNodes,                   \* mNodeList
    vClients,                 \* IConfMix::mClientNum of the video mixer
    mCameraNum, mEncoderNum,
    semCount,
    rxBuffer, txBuffer,       \* mMetas[].rxBuffer, mMetas[].txBuffer
    offsetDec, offsetEnc, i,  \* the thread's locals
    pulled,                   \* the list as it was pulled
    shown,                    \* node -> picture, of the last push
    dipped,                   \* a window has left while pictures were routed
    vDrift                    \* reset has forgotten callers that are still inside

vListVars == <<vNodes, vClients, mCameraNum, mEncoderNum, vDrift>>
turnVars == <<rxBuffer, txBuffer, offsetDec, offsetEnc, i, pulled, dipped>>
videoVars == <<vListVars, semCount, turnVars, shown>>

Unpushed == [n \in {} |-> None]
Stale == [k \in Metas |-> Old]

VideoInit ==
    /\ vNodes = <<>> /\ vClients = 0 /\ mCameraNum = 0 /\ mEncoderNum = 0
    /\ semCount = 0
    /\ rxBuffer = Stale /\ txBuffer = Stale
    /\ offsetDec = 0 /\ offsetEnc = 0 /\ i = 0 /\ pulled = <<>> /\ dipped = FALSE
    /\ shown = Unpushed /\ vDrift = FALSE

-----------------------------------------------------------------------------
(* The thread.                                                             *)

Outgrown == Len(vNodes) > Cardinality(Metas)

\* The numbers of nodes are the ones the indices were computed from.
Unchanged == offsetDec = mCameraNum /\ offsetEnc = mCameraNum + vClients

VideoTop ==
    /\ at["video"] = "loop"
    /\ Goto("video", IF "video" \in mExitPending THEN "end" ELSE "semaphore")
    /\ shown' = Unpushed
    /\ UNCHANGED <<mRunning, mExitPending, mFailed, vListVars, semCount, turnVars>>

VideoTry_waits ==
    /\ at["video"] = "semaphore"
    /\ semCount > 0 /\ semCount' = semCount - 1
    /\ Goto("video", IF "video" \in mExitPending THEN "end" ELSE "pull")
    /\ UNCHANGED <<mRunning, mExitPending, mFailed, vListVars, turnVars, shown>>
\* sem_trywait.
VideoTry ==
    /\ at["video"] = "semaphore"
    /\ semCount' = IF semCount > 0 THEN semCount - 1 ELSE 0
    /\ Goto("video", IF semCount > 0 /\ "video" \in mExitPending THEN "end" ELSE "pull")
    /\ UNCHANGED <<mRunning, mExitPending, mFailed, vListVars, turnVars, shown>>

VideoPull_beyond ==
    /\ at["video"] = "pull" /\ ~Outgrown
    /\ rxBuffer' = [k \in Metas |-> IF k > Len(vNodes) THEN Old ELSE vNodes[k]]
    /\ offsetDec' = mCameraNum
    /\ offsetEnc' = mCameraNum + vClients + mEncoderNum
    /\ pulled' = vNodes
    /\ Goto("video", "route")
    /\ UNCHANGED <<mRunning, mExitPending, mFailed, vListVars, semCount, txBuffer, i, dipped,
                   shown>>
\* Under mLockQ: every node is pulled, and either all of them have a picture or
\* none has.
VideoPull ==
    /\ at["video"] = "pull" /\ ~Outgrown
    /\ \E got \in {VideoNodes, {}} :
          rxBuffer' = [k \in Metas |-> IF k > Len(vNodes) THEN Old
                                       ELSE IF vNodes[k] \in got THEN vNodes[k] ELSE None]
    /\ offsetDec' = mCameraNum
    /\ offsetEnc' = mCameraNum + vClients
    /\ pulled' = vNodes
    /\ Goto("video", "route")
    /\ UNCHANGED <<mRunning, mExitPending, mFailed, vListVars, semCount, txBuffer, i, dipped,
                   shown>>

\* A list that has outgrown mMetas[], or an index outside it: anything may
\* follow, and the model ends here.
VideoOverrun ==
    /\ \/ at["video"] = "pull" /\ Outgrown
       \/ /\ at["video"] = "route"
          /\ \/ i < vClients /\ ~({offsetEnc + 1, offsetDec + i + 1} \subseteq Metas)
             \/ i >= vClients /\ offsetDec # 0 /\ offsetEnc + 1 \notin Metas
       \/ at["video"] = "push" /\ Unchanged /\ Outgrown
    /\ Goto("video", "overrun")
    /\ UNCHANGED <<mRunning, mExitPending, mFailed, videoVars>>

\* One turn of the loop over the callers, whose number is read without mLockQ.
RouteWindow ==
    /\ at["video"] = "route" /\ i < vClients
    /\ {offsetEnc + 1, offsetDec + i + 1} \subseteq Metas
    /\ txBuffer' = [txBuffer EXCEPT ![offsetDec + i + 1] = rxBuffer[offsetEnc + 1]]
    /\ i' = i + 1
    /\ UNCHANGED <<threadVars, vListVars, semCount, rxBuffer, offsetDec, offsetEnc, pulled,
                   shown, dipped>>

RouteCamera ==
    /\ at["video"] = "route" /\ i >= vClients
    /\ offsetDec = 0 \/ offsetEnc + 1 \in Metas
    /\ txBuffer' = IF offsetDec = 0 THEN txBuffer
                   ELSE [txBuffer EXCEPT ![offsetEnc + 1] = rxBuffer[1]]
    /\ Goto("video", "push")
    /\ UNCHANGED <<mRunning, mExitPending, mFailed, vListVars, semCount, rxBuffer,
                   offsetDec, offsetEnc, i, pulled, shown, dipped>>

Push == shown' = [n \in {vNodes[k] : k \in DOMAIN vNodes} |->
                    txBuffer[CHOOSE k \in DOMAIN vNodes : vNodes[k] = n]]

\* What the buffers hold now is left over for the next turn.
TurnOver ==
    /\ rxBuffer' = Stale /\ txBuffer' = Stale
    /\ offsetDec' = 0 /\ offsetEnc' = 0 /\ i' = 0 /\ pulled' = <<>> /\ dipped' = FALSE

VideoPush_unchecked ==
    /\ at["video"] = "push" /\ ~Outgrown
    /\ Push
    /\ TurnOver
    /\ Goto("video", "loop")
    /\ UNCHANGED <<mRunning, mExitPending, mFailed, vListVars, semCount>>
\* Under mLockQ again: the pictures are pushed if the numbers of nodes are the
\* ones they were routed for.
VideoPush ==
    /\ at["video"] = "push"
    /\ IF Unchanged THEN ~Outgrown /\ Push ELSE UNCHANGED shown
    /\ TurnOver
    /\ Goto("video", "loop")
    /\ UNCHANGED <<mRunning, mExitPending, mFailed, vListVars, semCount>>

VideoThread ==
    \/ (Born("video", "loop") \/ Ended("video")) /\ UNCHANGED videoVars
    \/ VideoTop \/ VideoTry \/ VideoPull \/ RouteWindow \/ RouteCamera
    \/ VideoPush \/ VideoOverrun

-----------------------------------------------------------------------------
(* What the conference calls, each under mLockQ.                           *)

videoRank == [n \in VideoNodes |->
                IF n \in Cameras THEN 0 ELSE IF n \in Renders THEN 1 ELSE 2]

NoRoom(n) ==
    \/ n \in Renders /\ vClients >= MaxVideoClient
    \/ n \in Cameras /\ mCameraNum >= MaxCamera
    \/ n \in Encoders /\ mEncoderNum >= MaxEncoder

Count(n, d) ==
    /\ vClients' = IF n \in Renders THEN vClients + d ELSE vClients
    /\ mCameraNum' = IF n \in Cameras THEN mCameraNum + d ELSE mCameraNum
    /\ mEncoderNum' = IF n \in Encoders THEN mEncoderNum + d ELSE mEncoderNum

VideoInsert(n) ==
    /\ ~NoRoom(n)
    /\ \E j \in 1 .. Len(vNodes) + 1 :
          Joins(vNodes, j, n, videoRank) /\ vNodes' = InsertAt(vNodes, j, n)
    /\ Count(n, 1)
    /\ UNCHANGED <<vDrift, semCount, turnVars, shown, threadVars>>

VideoRemove(n) ==
    /\ \E k \in DOMAIN vNodes : vNodes[k] = n /\ vNodes' = RemoveAt(vNodes, k)
    /\ Count(n, -1)
    /\ dipped' = (dipped \/ (at["video"] = "route" /\ n \in Renders))
    /\ UNCHANGED <<vDrift, semCount, rxBuffer, txBuffer, offsetDec, offsetEnc, i, pulled, shown, threadVars>>

\* start returning NO_ERROR, and start returning an error: a node that does not
\* start, or no thread.
VideoStart ==
    /\ IF "video" \in mRunning THEN UNCHANGED threadVars ELSE run("video")
    /\ UNCHANGED videoVars

VideoStartFails ==
    /\ "video" \notin mRunning
    /\ RunFails("video") \/ UNCHANGED threadVars
    /\ UNCHANGED videoVars

\* reset in three steps: sem_post, requestExit, and what follows the wait.
VideoPost ==
    /\ semCount' = semCount + 1
    /\ UNCHANGED <<threadVars, vListVars, turnVars, shown>>

VideoAsk == requestExit("video") /\ UNCHANGED videoVars

VideoReset ==
    /\ ExitAwaited("video")
    /\ vClients' = IF "video" \in mFailed THEN vClients ELSE 0
    /\ vDrift' = (vDrift \/ vClients' # vClients)
    /\ UNCHANGED <<vNodes, mCameraNum, mEncoderNum, semCount, turnVars, shown>>
=============================================================================
