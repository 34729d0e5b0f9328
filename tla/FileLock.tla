------------------------------ MODULE FileLock ------------------------------
(***************************************************************************)
(* get_lock() and unlock() of t2/src/lock.c, called by the processes that  *)
(* share one target file.  The lock is the file "<target>.lck": creating   *)
(* it with O_EXCL takes the lock, unlinking it gives the lock back, and a  *)
(* process that finds it blocks in read() on an inotify watch of the       *)
(* directory.  Each system call that other processes can see is a step.    *)
(*                                                                         *)
(* A file that still has a name is identified by the process that created  *)
(* it: a process creates a lock file only after it is done with the one    *)
(* before, and a process whose call failed exits, as both callers do.      *)
(***************************************************************************)
EXTENDS FiniteSets

CONSTANTS
  Procs,     \* processes, standing for their pids too
  None,      \* no process, and no pid
  Faults,    \* the system calls that may fail, and "crash"
  Cleaner    \* what lock files somebody removes by hand: "absent" (none),
             \* "orphans" (those nobody holds), "any"

FaultPoints ==
  {"setup", "open", "read", "rmwatch", "write", "verify", "unlink", "close",
   "crash"}

ASSUME ProcsAssumption   == None \notin Procs
ASSUME FaultsAssumption  == Faults \subseteq FaultPoints
ASSUME CleanerAssumption == Cleaner \in {"absent", "orphans", "any"}

VARIABLES
  pc,        \* pc[p]: the next system call of p
  lck,       \* the creator of the file named "<target>.lck", None without one
  content,   \* content[p]: the pid in the lock file that p created last
  watching,  \* processes with an inotify watch on the directory
  pending    \* pending[p]: p's inotify queue holds an event (equal events of
             \* the queue are merged by the kernel)

lockVars == <<pc, lck, content, watching, pending>>

Labels ==
  {"idle", "open", "wait", "created", "write", "held", "unlink", "close",
   "failed", "errored", "gone"}

(* The processes between their open() and their unlink().                  *)
HoldingLabels == {"created", "write", "held", "unlink"}
Holding(p) == pc[p] \in HoldingLabels

(* The lock file exists and its creator will never remove it.              *)
Orphaned == lck # None /\ ~Holding(lck)

InitLock ==
  /\ pc = [p \in Procs |-> "idle"]
  /\ lck = None
  /\ content = [p \in Procs |-> None]
  /\ watching = {}
  /\ pending = [p \in Procs |-> FALSE]

Goto(p, label) == pc' = [pc EXCEPT ![p] = label]

(* rm_watch() or the end of the inotify descriptor: the queue goes too.    *)
DropWatch(p) ==
  /\ watching' = watching \ {p}
  /\ pending' = [pending EXCEPT ![p] = FALSE]

(* A file of the directory is deleted: an IN_DELETE event for every watch. *)
NotifyWatchers ==
  pending' = [q \in Procs |-> pending[q] \/ q \in watching]

-----------------------------------------------------------------------------
(* Mistake: the watch is left for later, after the first open().           *)
GetLockWatchless(p) ==
  /\ pc[p] = "idle"
  /\ Goto(p, "open")
  /\ UNCHANGED <<lck, content, watching, pending>>

(* The checks of get_lock and inotify_add_watch(): the watch stands before *)
(* the first open().                                                       *)
GetLock(p) ==
  /\ pc[p] = "idle"
  /\ watching' = watching \cup {p}
  /\ Goto(p, "open")
  /\ UNCHANGED <<lck, content, pending>>

GetLockRefused(p) ==
  /\ pc[p] = "idle"
  /\ "setup" \in Faults
  /\ Goto(p, "failed")
  /\ UNCHANGED <<lck, content, watching, pending>>

(* Mistake: open() without O_EXCL.                                         *)
OpenWithoutExcl(p) ==
  /\ pc[p] = "open"
  /\ lck' = p
  /\ content' = [content EXCEPT ![p] = None]
  /\ Goto(p, "created")
  /\ UNCHANGED <<watching, pending>>

(* open(O_CREAT | O_EXCL) creates the file ...                             *)
OpenCreates(p) ==
  /\ pc[p] = "open"
  /\ lck = None
  /\ lck' = p
  /\ content' = [content EXCEPT ![p] = None]
  /\ Goto(p, "created")
  /\ UNCHANGED <<watching, pending>>

(* ... or says EEXIST, and the process goes on to read() the queue.        *)
OpenFindsFile(p) ==
  /\ pc[p] = "open"
  /\ lck # None
  /\ Goto(p, "wait")
  /\ UNCHANGED <<lck, content, watching, pending>>

(* Mistake: the watch is good for one event.                               *)
ReadEventOneShot(p) ==
  /\ pc[p] = "wait"
  /\ pending[p]
  /\ DropWatch(p)
  /\ Goto(p, "open")
  /\ UNCHANGED <<lck, content>>

(* Any event wakes the reader: it reads the whole queue and tries again.   *)
ReadEvent(p) ==
  /\ pc[p] = "wait"
  /\ pending[p]
  /\ pending' = [pending EXCEPT ![p] = FALSE]
  /\ Goto(p, "open")
  /\ UNCHANGED <<lck, content, watching>>

(* A signal ends the read() with EINTR: try again.                         *)
Interrupt(p) ==
  /\ pc[p] = "wait"
  /\ Goto(p, "open")
  /\ UNCHANGED <<lck, content, watching, pending>>

(* Mistake: the cleanup unlinks the lock file too.                         *)
ErrorCleanupUnlinks(p) ==
  /\ \/ pc[p] = "open" /\ "open" \in Faults
     \/ pc[p] = "wait" /\ "read" \in Faults
  /\ DropWatch(p)
  /\ lck' = None
  /\ Goto(p, "failed")
  /\ UNCHANGED content

(* The label error_cleanup of get_lock: no lock file was created.          *)
ErrorCleanup(p) ==
  /\ \/ pc[p] = "open" /\ "open" \in Faults
     \/ pc[p] = "wait" /\ "read" \in Faults
  /\ DropWatch(p)
  /\ Goto(p, "failed")
  /\ UNCHANGED <<lck, content>>

RmWatch(p) ==
  /\ pc[p] = "created"
  /\ DropWatch(p)
  /\ Goto(p, "write")
  /\ UNCHANGED <<lck, content>>

(* rm_watch() or close() fails: NULL, and the new lock file is left.       *)
RmWatchFails(p) ==
  /\ pc[p] = "created"
  /\ "rmwatch" \in Faults
  /\ DropWatch(p)
  /\ Goto(p, "failed")
  /\ UNCHANGED <<lck, content>>

WritePid(p) ==
  /\ pc[p] = "write"
  /\ content' = [content EXCEPT ![p] = p]
  /\ Goto(p, "held")
  /\ UNCHANGED <<lck, watching, pending>>

(* dprintf() fails, or the malloc() after it: NULL, the lock file is left. *)
WritePidFails(p) ==
  /\ pc[p] = "write"
  /\ "write" \in Faults
  /\ content' \in {content, [content EXCEPT ![p] = p]}
  /\ Goto(p, "failed")
  /\ UNCHANGED <<lck, watching, pending>>

(* unlock() reads the pid back through its own descriptor.                 *)
Unlock(p) ==
  /\ pc[p] = "held"
  /\ content[p] = p
  /\ Goto(p, "unlink")
  /\ UNCHANGED <<lck, content, watching, pending>>

UnlockRefused(p) ==
  /\ pc[p] = "held"
  /\ content[p] # p \/ "verify" \in Faults
  /\ Goto(p, "errored")
  /\ UNCHANGED <<lck, content, watching, pending>>

(* unlink() removes the file that has the name now, whoever created it.    *)
Unlink(p) ==
  /\ pc[p] = "unlink"
  /\ lck # None
  /\ lck' = None
  /\ NotifyWatchers
  /\ Goto(p, "close")
  /\ UNCHANGED <<content, watching>>

(* Mistake: nobody looks at the result of unlink().                        *)
UnlinkFailureIgnored(p) ==
  /\ pc[p] = "unlink"
  /\ lck = None \/ "unlink" \in Faults
  /\ Goto(p, "close")
  /\ UNCHANGED <<lck, content, watching, pending>>

UnlinkFails(p) ==
  /\ pc[p] = "unlink"
  /\ lck = None \/ "unlink" \in Faults
  /\ Goto(p, "errored")
  /\ UNCHANGED <<lck, content, watching, pending>>

Close(p) ==
  /\ pc[p] = "close"
  /\ Goto(p, "idle")
  /\ UNCHANGED <<lck, content, watching, pending>>

(* Mistake: after a failed close() the whole unlock() is tried again.      *)
CloseRetriesUnlock(p) ==
  /\ pc[p] = "close"
  /\ "close" \in Faults
  /\ Goto(p, "unlink")
  /\ UNCHANGED <<lck, content, watching, pending>>

CloseFails(p) ==
  /\ pc[p] = "close"
  /\ "close" \in Faults
  /\ Goto(p, "errored")
  /\ UNCHANGED <<lck, content, watching, pending>>

(* The caller exits, on its own account or with status 1 after a failure.  *)
Exit(p) ==
  /\ pc[p] \in {"idle", "failed", "errored"}
  /\ Goto(p, "gone")
  /\ UNCHANGED <<lck, content, watching, pending>>

(* SIGKILL: the kernel closes the descriptors, the lock file stays.        *)
Crash(p) ==
  /\ "crash" \in Faults
  /\ pc[p] # "gone"
  /\ DropWatch(p)
  /\ Goto(p, "gone")
  /\ UNCHANGED <<lck, content>>

-----------------------------------------------------------------------------
(* Somebody deletes another file of the directory.                         *)
DeleteOther ==
  /\ NotifyWatchers
  /\ UNCHANGED <<pc, lck, content, watching>>

(* Somebody deletes the lock file by hand.                                 *)
RemoveByHand ==
  /\ lck # None
  /\ \/ Cleaner = "orphans" /\ Orphaned
     \/ Cleaner = "any"
  /\ lck' = None
  /\ NotifyWatchers
  /\ UNCHANGED <<pc, content, watching>>

(* The steps of p inside get_lock and unlock once it has called them.      *)
LibraryStep(p) ==
  \/ OpenCreates(p) \/ OpenFindsFile(p) \/ ReadEvent(p) \/ ErrorCleanup(p)
  \/ RmWatch(p) \/ RmWatchFails(p) \/ WritePid(p) \/ WritePidFails(p)
  \/ Unlink(p) \/ UnlinkFails(p) \/ Close(p) \/ CloseFails(p)

(* Those that call the library, leave it, or die in it.                    *)
CallerStep(p) ==
  \/ GetLock(p) \/ GetLockRefused(p) \/ Unlock(p) \/ UnlockRefused(p)
  \/ Interrupt(p) \/ Exit(p) \/ Crash(p)

NextLock ==
  \/ \E p \in Procs : LibraryStep(p) \/ CallerStep(p)
  \/ DeleteOther
  \/ RemoveByHand

SpecLock == InitLock /\ [][NextLock]_lockVars

-----------------------------------------------------------------------------
(* Every variable keeps its type.                                          *)
TypeOK ==
  /\ pc \in [Procs -> Labels]
  /\ lck \in Procs \cup {None}
  /\ content \in [Procs -> Procs \cup {None}]
  /\ watching \subseteq Procs
  /\ pending \in [Procs -> BOOLEAN]

(* At most one process is between its successful open() and its unlink():  *)
(* what the callers of get_lock take for granted while they use the file.  *)
MutualExclusion ==
  \A p, q \in Procs : Holding(p) /\ Holding(q) => p = q

(* A process about to block in read() with an empty queue waits for a file *)
(* that still exists: the unlink() that would free it cannot have happened *)
(* between its open() and its read() unseen (lock.c lines 50, 61, 70).     *)
NoLostWakeup ==
  \A p \in Procs : pc[p] = "wait" /\ ~pending[p] => lck # None

(* What the safety of the lock rests on, inductively: whoever is past      *)
(* its open() created the file that has the name now, whoever is before it *)
(* in get_lock() has a watch, and only watches have events.                *)
HolderNamesFile == \A p \in Procs : Holding(p) => lck = p
WaitersWatch ==
  \A p \in Procs : pc[p] \in {"open", "wait"} => p \in watching
IInv == TypeOK /\ HolderNamesFile /\ WaitersWatch /\ NoLostWakeup

(* unlock() removes the lock file its caller created, never the file of a  *)
(* process that holds the lock now: what the pid check of lines 161 to 165 *)
(* is for.                                                                 *)
UnlinksOwnFile ==
  [][\A p \in Procs : pc[p] = "unlink" /\ pc'[p] = "close" => lck = p]_lockVars

(* The library implements the lock of module Mutex: the processes that got *)
(* the lock hold it up to their unlink(), and it is abandoned when the     *)
(* lock file outlives the holder.                                          *)
AbstractLock ==
  INSTANCE Mutex WITH
    holders <- {p \in Procs : Holding(p)},
    abandoned <- Orphaned
ImplementsMutex == AbstractLock!Spec
=============================================================================
