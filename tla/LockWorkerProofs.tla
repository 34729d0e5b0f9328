-------------------------- MODULE LockWorkerProofs --------------------------
(***************************************************************************)
(* Proofs about LockWorker, for every set of workers and of faults: the    *)
(* workers use the library as FileLock assumes, and status 0 is clean.     *)
(***************************************************************************)
EXTENDS LockWorker, FileLockProofs

(* Each step of the workers is a step of the library or leaves it alone.   *)
LEMMA WorkerStepIsLockStep == [Next]_workerVars => [NextLock]_lockVars
<1> SUFFICES ASSUME [Next]_workerVars
             PROVE  [NextLock]_lockVars
  OBVIOUS
<1>1. ASSUME NEW p \in Procs, WorkerStep(p)
      PROVE  NextLock
  BY <1>1 DEF WorkerStep, CallGetLock, InsideLibrary, CallUnlock, LeaveLoop,
              GiveUp, NextLock, CallerStep
<1>2. ASSUME NEW p \in Procs, Sigint(p)
      PROVE  [NextLock]_lockVars
  BY <1>2 DEF Sigint, NextLock, CallerStep
<1>3. ASSUME NEW p \in Procs, Kill(p)
      PROVE  NextLock
  BY <1>3 DEF Kill, NextLock, CallerStep
<1>4. CASE DirectoryStep
  BY <1>4 DEF DirectoryStep, NextLock
<1>5. CASE UNCHANGED workerVars
  BY <1>5 DEF workerVars, lockVars
<1> QED BY <1>1, <1>2, <1>3, <1>4, <1>5 DEF Next

(* The workers run the library as module FileLock describes it: what holds *)
(* of every program that calls get_lock() and unlock() holds of worker.c.  *)
THEOREM WorkersFollowLibrary == Spec => SpecLock
<1>1. Init => InitLock
  BY DEF Init
<1> QED BY <1>1, WorkerStepIsLockStep, PTL DEF Spec, SpecLock

(* At most one worker at a time is between get_lock() and unlock().        *)
THEOREM WorkersExclude ==
  ASSUME CleanerIsCareful PROVE Spec => []MutualExclusion
BY WorkersFollowLibrary, MutualExclusionHolds, PTL

-----------------------------------------------------------------------------
(* Status 0 is given on the way out, by a worker whose file is not there. *)
ZeroIsGone == \A p \in Procs : status[p] = 0 => pc[p] = "gone" /\ lck # p

WorkerIInv ==
  /\ TypeOK
  /\ status \in [Procs -> {Running, Killed, 0, 1}]
  /\ OwnersKeepTrack
  /\ WatchersKeepTrack
  /\ ZeroIsGone

(* Only the way out at the head of the loop makes the status 0.            *)
LEMMA ZeroInvariant ==
  WorkerIInv /\ [Next]_workerVars
    => ZeroIsGone' /\ status' \in [Procs -> {Running, Killed, 0, 1}]
<1> SUFFICES ASSUME WorkerIInv, [Next]_workerVars
             PROVE  ZeroIsGone' /\ status' \in [Procs -> {Running, Killed, 0, 1}]
  OBVIOUS
<1> USE ProcsAssumption, StatusAssumption DEF WorkerIInv, ZeroIsGone
<1>1. \A p \in Procs : pc[p] = "gone" /\ lck # p => pc'[p] = "gone" /\ lck' # p
  BY GoneStaysGone, WorkerStepIsLockStep
<1>2. CASE UNCHANGED status
  BY <1>1, <1>2
<1>3. ASSUME NEW p \in Procs, LeaveLoop(p)
      PROVE  ZeroIsGone' /\ status' \in [Procs -> {Running, Killed, 0, 1}]
  <2>1. pc'[p] = "gone" /\ lck' # p
    BY <1>3 DEF LeaveLoop, Exit, Goto, TypeOK, OwnersKeepTrack,
                FileOwnerLabels, HoldingLabels
  <2>2. status' = [status EXCEPT ![p] = 0]
    BY <1>3 DEF LeaveLoop, Finish
  <2> QED BY <1>1, <2>1, <2>2
<1>4. ASSUME NEW p \in Procs, GiveUp(p) \/ Kill(p)
      PROVE  ZeroIsGone' /\ status' \in [Procs -> {Running, Killed, 0, 1}]
  <2>1. PICK result \in {1, Killed} : status' = [status EXCEPT ![p] = result]
    BY <1>4 DEF GiveUp, Kill, Finish
  <2> QED BY <1>1, <2>1
<1>5. ASSUME ~UNCHANGED status
      PROVE  \E p \in Procs : LeaveLoop(p) \/ GiveUp(p) \/ Kill(p)
  BY <1>5 DEF Next, WorkerStep, CallGetLock, InsideLibrary, CallUnlock,
              Sigint, DirectoryStep, workerVars
<1> QED BY <1>2, <1>3, <1>4, <1>5

(* The inductive invariant behind CleanExit: a worker with exit status 0   *)
(* is gone and owns no lock file (worker.c lines 24 to 48).                *)
THEOREM WorkerIInvHolds == Spec => []WorkerIInv
<1>1. Init => WorkerIInv
  BY InitEstablishesIInv, ProcsAssumption, StatusAssumption
     DEF Init, InitLock, IInv, WorkerIInv, OwnersKeepTrack, WatchersKeepTrack,
         ZeroIsGone
<1>2. WorkerIInv /\ [Next]_workerVars => WorkerIInv'
  BY WorkerStepIsLockStep, TypeInvariant, TrackInvariant, ZeroInvariant
     DEF WorkerIInv
<1> QED BY <1>1, <1>2, PTL DEF Spec

(* A worker with exit status 0 leaves neither a lock file of its own nor a *)
(* watch, whatever fails and whoever removes lock files.                   *)
THEOREM CleanExitHolds == Spec => []CleanExit
<1>1. WorkerIInv => CleanExit
  BY DEF WorkerIInv, ZeroIsGone, WatchersKeepTrack, WatchLabels, CleanExit
<1> QED BY <1>1, WorkerIInvHolds, PTL
=============================================================================
