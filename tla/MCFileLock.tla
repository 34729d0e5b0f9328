----------------------------- MODULE MCFileLock -----------------------------
(***************************************************************************)
(* Small instances of FileLock for TLC.                                    *)
(***************************************************************************)
EXTENDS FileLock, TLC

Symmetry == Permutations(Procs)
AllFaults == FaultPoints
NoFaults == {}
=============================================================================
