------------------------------ MODULE LockMain ------------------------------
(***************************************************************************)
(* t2/src/main.c on top of FileLock: each process takes the lock, appends  *)
(* one line with its pid and the time to the target file, and gives the    *)
(* lock back.  fopen(.., "a") has no effect others see; the time is read   *)
(* after sleep(1), and the line reaches the file at fclose().  The clock   *)
(* of the system is never set back.                                        *)
(***************************************************************************)
EXTENDS FileLock, Naturals, Sequences

CONSTANTS
  Running,     \* the status of a process that has not exited
  Killed,      \* the status of a process that a signal ended
  FileFaults,  \* subset of {"fopen", "fclose"}: the calls that may fail
  MaxClock     \* bound of the clock

ASSUME FileFaultsAssumption == FileFaults \subseteq {"fopen", "fclose"}
ASSUME MaxClockAssumption == MaxClock \in Nat
ASSUME StatusAssumption == 0 \notin {Running, Killed}
ASSUME NoneAssumption == None \notin {0, 1}

VARIABLES
  clock,     \* time(NULL)
  stamp,     \* stamp[p]: the time p has read, None before
  outcome,   \* outcome[p]: the result of do_something_with_file, None before
  journal,   \* the lines of the target file
  status     \* status[p]: the exit status of p, Killed or Running

mainVars ==
  <<pc, lck, content, watching, pending, clock, stamp, outcome, journal, status>>

Line(p) == [pid |-> p, time |-> stamp[p]]

Init ==
  /\ InitLock
  /\ clock = 0
  /\ stamp = [p \in Procs |-> None]
  /\ outcome = [p \in Procs |-> None]
  /\ journal = <<>>
  /\ status = [p \in Procs |-> Running]

Finish(p, result) == status' = [status EXCEPT ![p] = result]

-----------------------------------------------------------------------------
(* main() calls get_lock once: the process is done when it is idle again.  *)
CallGetLock(p) ==
  /\ outcome[p] = None
  /\ GetLock(p) \/ GetLockRefused(p)
  /\ UNCHANGED <<clock, stamp, outcome, journal, status>>

InsideLibrary(p) ==
  /\ LibraryStep(p)
  /\ UNCHANGED <<clock, stamp, outcome, journal, status>>

(* do_something_with_file: fopen() ...                                     *)
OpenTargetFails(p) ==
  /\ pc[p] = "held"
  /\ stamp[p] = None /\ outcome[p] = None
  /\ "fopen" \in FileFaults
  /\ outcome' = [outcome EXCEPT ![p] = 1]
  /\ UNCHANGED <<pc, lck, content, watching, pending, clock, stamp, journal,
                 status>>

(* Mistake: the time is read before the lock is taken.                     *)
ReadClockEarly(p) ==
  /\ pc[p] \in {"idle", "open", "wait", "held"}
  /\ stamp[p] = None /\ outcome[p] = None
  /\ stamp' = [stamp EXCEPT ![p] = clock]
  /\ UNCHANGED <<pc, lck, content, watching, pending, clock, outcome, journal,
                 status>>

(* Mistake: an off-by-one in the time.                                     *)
ReadClockAhead(p) ==
  /\ pc[p] = "held"
  /\ stamp[p] = None /\ outcome[p] = None
  /\ stamp' = [stamp EXCEPT ![p] = clock + 1]
  /\ UNCHANGED <<pc, lck, content, watching, pending, clock, outcome, journal,
                 status>>

(* ... time(NULL) ...                                                      *)
ReadClock(p) ==
  /\ pc[p] = "held"
  /\ stamp[p] = None /\ outcome[p] = None
  /\ stamp' = [stamp EXCEPT ![p] = clock]
  /\ UNCHANGED <<pc, lck, content, watching, pending, clock, outcome, journal,
                 status>>

(* ... and fprintf() with the fclose() that writes the line.               *)
AppendLine(p) ==
  /\ pc[p] = "held"
  /\ stamp[p] # None /\ outcome[p] = None
  /\ journal' = Append(journal, Line(p))
  /\ outcome' = [outcome EXCEPT ![p] = 0]
  /\ UNCHANGED <<pc, lck, content, watching, pending, clock, stamp, status>>

AppendLineFails(p) ==
  /\ pc[p] = "held"
  /\ stamp[p] # None /\ outcome[p] = None
  /\ "fclose" \in FileFaults
  /\ journal' \in {journal, Append(journal, Line(p))}
  /\ outcome' = [outcome EXCEPT ![p] = 1]
  /\ UNCHANGED <<pc, lck, content, watching, pending, clock, stamp, status>>

(* unlock() is called whatever the outcome.                                *)
CallUnlock(p) ==
  /\ outcome[p] # None
  /\ Unlock(p) \/ UnlockRefused(p)
  /\ UNCHANGED <<clock, stamp, outcome, journal, status>>

(* Mistake: the result of do_something_with_file is not looked at.         *)
LeaveWithUnlockResult(p) ==
  /\ pc[p] = "idle" => outcome[p] # None
  /\ Exit(p)
  /\ Finish(p, IF pc[p] = "idle" THEN 0 ELSE 1)
  /\ UNCHANGED <<clock, stamp, outcome, journal>>

(* Status 0 needs all three calls to have succeeded.                       *)
Leave(p) ==
  /\ pc[p] = "idle" => outcome[p] # None
  /\ Exit(p)
  /\ Finish(p, IF pc[p] = "idle" /\ outcome[p] = 0 THEN 0 ELSE 1)
  /\ UNCHANGED <<clock, stamp, outcome, journal>>

Kill(p) ==
  /\ Crash(p)
  /\ Finish(p, Killed)
  /\ UNCHANGED <<clock, stamp, outcome, journal>>

Tick ==
  /\ clock < MaxClock
  /\ clock' = clock + 1
  /\ UNCHANGED <<pc, lck, content, watching, pending, stamp, outcome, journal,
                 status>>

DirectoryStep ==
  /\ DeleteOther \/ RemoveByHand
  /\ UNCHANGED <<clock, stamp, outcome, journal, status>>

Next ==
  \/ \E p \in Procs :
       \/ CallGetLock(p) \/ InsideLibrary(p) \/ CallUnlock(p)
       \/ OpenTargetFails(p) \/ ReadClock(p) \/ AppendLine(p)
       \/ AppendLineFails(p) \/ Leave(p) \/ Kill(p)
  \/ Tick
  \/ DirectoryStep

Spec == Init /\ [][Next]_mainVars

-----------------------------------------------------------------------------
MainTypeOK ==
  /\ TypeOK
  /\ clock \in 0..MaxClock
  /\ stamp \in [Procs -> 0..MaxClock \cup {None}]
  /\ outcome \in [Procs -> {None, 0, 1}]
  /\ journal \in Seq([pid : Procs, time : 0..MaxClock])
  /\ status \in [Procs -> {Running, Killed, 0, 1}]

(* The lines of the target file are in the order of the times they carry:  *)
(* reading the time and writing the line happen under one lock.            *)
JournalInTimeOrder ==
  \A i, j \in DOMAIN journal : i < j => journal[i].time <= journal[j].time

LinesOf(p) == {i \in DOMAIN journal : journal[i].pid = p}

(* Status 0 is a receipt: exactly one line of the process is in the file,  *)
(* and the process left no lock file behind.  No other way out writes a    *)
(* second line.                                                            *)
StatusZeroIsReceipt ==
  \A p \in Procs :
    /\ Cardinality(LinesOf(p)) <= 1
    /\ status[p] = 0 => Cardinality(LinesOf(p)) = 1 /\ lck # p
=============================================================================
