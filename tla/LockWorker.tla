----------------------------- MODULE LockWorker -----------------------------
(***************************************************************************)
(* t2/src/worker.c on top of FileLock: workers that take and give back the *)
(* lock of one target file until SIGINT tells them to stop, as t2/runme.sh *)
(* starts and stops them.  The count of locks and the statistics line are  *)
(* left out: no step depends on them.                                      *)
(***************************************************************************)
EXTENDS FileLock, Naturals

CONSTANTS
  Running,   \* the status of a worker that has not exited
  Killed     \* the status of a worker that a signal ended

ASSUME StatusAssumption == 0 \notin {Running, Killed}

VARIABLES
  keepRunning,   \* keepRunning[p]: SIGINT has not reached p
  status         \* status[p]: the exit status of p, Killed or Running

workerVars == <<pc, lck, content, watching, pending, keepRunning, status>>

Init ==
  /\ InitLock
  /\ keepRunning = [p \in Procs |-> TRUE]
  /\ status = [p \in Procs |-> Running]

Finish(p, result) == status' = [status EXCEPT ![p] = result]

-----------------------------------------------------------------------------
(* Mistake: while (1).                                                     *)
CallGetLockForever(p) ==
  /\ GetLock(p) \/ GetLockRefused(p)
  /\ UNCHANGED <<keepRunning, status>>

(* while (keep_running): the test and the call that follows it.            *)
CallGetLock(p) ==
  /\ keepRunning[p]
  /\ GetLock(p) \/ GetLockRefused(p)
  /\ UNCHANGED <<keepRunning, status>>

InsideLibrary(p) ==
  /\ LibraryStep(p)
  /\ UNCHANGED <<keepRunning, status>>

(* After sleep(1), with the lock.                                          *)
CallUnlock(p) ==
  /\ Unlock(p) \/ UnlockRefused(p)
  /\ UNCHANGED <<keepRunning, status>>

LeaveLoop(p) ==
  /\ pc[p] = "idle"
  /\ ~keepRunning[p]
  /\ Exit(p)
  /\ Finish(p, 0)
  /\ UNCHANGED keepRunning

(* get_lock returned NULL, or unlock did not return 0.                     *)
GiveUp(p) ==
  /\ pc[p] \in {"failed", "errored"}
  /\ Exit(p)
  /\ Finish(p, 1)
  /\ UNCHANGED keepRunning

(* handle_sigint.  A read() of the inotify queue that the signal finds     *)
(* blocked is restarted or ends with EINTR, depending on the kernel.       *)
Sigint(p) ==
  /\ pc[p] # "gone"
  /\ keepRunning' = [keepRunning EXCEPT ![p] = FALSE]
  /\ Interrupt(p) \/ UNCHANGED lockVars
  /\ UNCHANGED status

Kill(p) ==
  /\ Crash(p)
  /\ Finish(p, Killed)
  /\ UNCHANGED keepRunning

DirectoryStep ==
  /\ DeleteOther \/ RemoveByHand
  /\ UNCHANGED <<keepRunning, status>>

WorkerStep(p) ==
  CallGetLock(p) \/ InsideLibrary(p) \/ CallUnlock(p) \/ LeaveLoop(p)
  \/ GiveUp(p)

Next ==
  \/ \E p \in Procs : WorkerStep(p) \/ Sigint(p) \/ Kill(p)
  \/ DirectoryStep

(* Every worker that can run is scheduled: no worker is ever suspended.  A *)
(* read() of an empty queue may fail, but it does not have to.             *)
BlockedInRead(p) == pc[p] = "wait" /\ ~pending[p]
WorkersRun ==
  \A p \in Procs : WF_workerVars(WorkerStep(p) /\ ~BlockedInRead(p))

Spec == Init /\ [][Next]_workerVars
FairSpec == Spec /\ WorkersRun

-----------------------------------------------------------------------------
WorkerTypeOK ==
  /\ TypeOK
  /\ keepRunning \in [Procs -> BOOLEAN]
  /\ status \in [Procs -> {Running, Killed, 0, 1}]

AllStopped == \A p \in Procs : pc[p] = "gone"
AllSignalled == \A p \in Procs : pc[p] = "gone" \/ ~keepRunning[p]

(* A worker that exits with status 0 leaves no lock file of its own behind *)
(* and no watch: only failures (status 1) and kills leak the lock.         *)
CleanExit ==
  \A p \in Procs : status[p] = 0 => lck # p /\ p \notin watching

(* The `wait' of runme.sh ends after `kill -INT' of all the workers, even  *)
(* though a worker that waits in get_lock() sees the flag only after it    *)
(* got the lock once more: the workers drain one after the other, unless   *)
(* a lock file that somebody left behind stays for ever.  Where orphans    *)
(* are removed by hand, the removal wakes the waiters as an unlink() does. *)
ShutdownCompletes == AllSignalled ~> (AllStopped \/ []Orphaned)

(* The lock keeps moving: a free lock somebody waits for is taken, by some *)
(* process.                                                                *)
FreeLockIsTaken ==
  (lck = None /\ \E p \in Procs : pc[p] = "wait")
    ~> (lck # None \/ \A p \in Procs : pc[p] \notin {"open", "wait"})
=============================================================================
