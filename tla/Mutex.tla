-------------------------------- MODULE Mutex --------------------------------
(***************************************************************************)
(* What t2/src/lock.c promises its callers: a lock that one process at a   *)
(* time holds and gives back.  The promise is weaker than that of a mutex  *)
(* of a thread library: nothing of the lock outlives its holder but a      *)
(* file, so a holder that dies or fails on the way abandons the lock, and  *)
(* it stays abandoned until somebody outside the protocol reclaims it.     *)
(***************************************************************************)
CONSTANT Procs     \* processes that share one target file

VARIABLES
  holders,    \* the processes that are entitled to use the target file
  abandoned   \* the lock is taken and nobody will give it back

mutexVars == <<holders, abandoned>>

Init ==
  /\ holders = {}
  /\ abandoned = FALSE

Acquire(p) ==
  /\ holders = {}
  /\ ~abandoned
  /\ holders' = {p}
  /\ UNCHANGED abandoned

Release(p) ==
  /\ holders = {p}
  /\ holders' = {}
  /\ UNCHANGED abandoned

Abandon(p) ==
  /\ holders = {p}
  /\ holders' = {}
  /\ abandoned' = TRUE

Reclaim ==
  /\ abandoned
  /\ abandoned' = FALSE
  /\ UNCHANGED holders

Next ==
  \/ \E p \in Procs : Acquire(p) \/ Release(p) \/ Abandon(p)
  \/ Reclaim

Spec == Init /\ [][Next]_mutexVars
=============================================================================
