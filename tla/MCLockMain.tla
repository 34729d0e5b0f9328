----------------------------- MODULE MCLockMain -----------------------------
(***************************************************************************)
(* Small instances of LockMain for TLC.                                    *)
(***************************************************************************)
EXTENDS LockMain, TLC

Symmetry == Permutations(Procs)
(* One fault of each kind of effect: nothing done, the lock file left      *)
(* behind, the lock given back all the same, death.                        *)
MainFaults == {"setup", "read", "rmwatch", "verify", "unlink", "close", "crash"}
AllFileFaults == {"fopen", "fclose"}
=============================================================================
