----------------------------- MODULE MixThread -----------------------------
(***************************************************************************)
(* The Thread class as the two mixers of a conference use it: what run and *)
(* requestExit do to the flags under mLock, and the stub _threadLoop that  *)
(* surrounds a mixer's own threadLoop.                                     *)
(***************************************************************************)
Mixers == {"audio", "video"}

VARIABLES
    mRunning,       \* mixers whose thread is running
    mExitPending,   \* mixers whose thread has been asked to leave
    mFailed,        \* mixers whose mStatus is not NO_ERROR
    at              \* where each mixer's thread is; "none" when there is none

threadVars == <<mRunning, mExitPending, mFailed, at>>

ThreadInit ==
    /\ mRunning = {} /\ mExitPending = {} /\ mFailed = {}
    /\ at = [m \in Mixers |-> "none"]

Goto(m, place) == at' = [at EXCEPT ![m] = place]

\* run of a thread that is already there is refused and changes nothing.
RunRefused(m) == m \in mRunning /\ UNCHANGED threadVars

\* run creates the thread; whatever was asked of the last one is forgotten.
run(m) ==
    /\ m \notin mRunning
    /\ mRunning' = mRunning \cup {m}
    /\ mExitPending' = mExitPending \ {m}
    /\ mFailed' = mFailed \ {m}
    /\ Goto(m, "born")

\* run when no thread can be created.
RunFails(m) ==
    /\ m \notin mRunning
    /\ mExitPending' = mExitPending \ {m}
    /\ mFailed' = mFailed \cup {m}
    /\ UNCHANGED <<mRunning, at>>

requestExit(m) ==
    /\ mExitPending' = mExitPending \cup {m}
    /\ UNCHANGED <<mRunning, mFailed, at>>

\* The second half of requestExitAndWait, whose first half is requestExit.
ExitAwaited(m) ==
    /\ m \notin mRunning
    /\ mExitPending' = mExitPending \ {m}
    /\ UNCHANGED <<mRunning, mFailed, at>>

\* _threadLoop enters threadLoop, at first, unless the thread is unwanted already.
Born(m, first) ==
    /\ at[m] = "born"
    /\ Goto(m, IF m \in mExitPending THEN "end" ELSE first)
    /\ UNCHANGED <<mRunning, mExitPending, mFailed>>

\* The end of _threadLoop, after threadLoop has returned false.
Ended(m) ==
    /\ at[m] = "end"
    /\ mExitPending' = mExitPending \cup {m}
    /\ mRunning' = mRunning \ {m}
    /\ Goto(m, "none")
    /\ UNCHANGED mFailed
=============================================================================
