---------------------------- MODULE MCLockWorker ----------------------------
(***************************************************************************)
(* Small instances of LockWorker for TLC.                                  *)
(***************************************************************************)
EXTENDS LockWorker

AllFaults == FaultPoints
=============================================================================
