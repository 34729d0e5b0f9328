--------------------------- MODULE FileLockProofs ---------------------------
(***************************************************************************)
(* Proofs about FileLock, for every set of processes and of faults.  The   *)
(* lock is safe as long as nobody removes by hand a lock file that is in   *)
(* use.                                                                    *)
(***************************************************************************)
EXTENDS FileLock, TLAPS

CleanerIsCareful == Cleaner # "any"

-----------------------------------------------------------------------------
(* Every call of the library and of its callers keeps the types.           *)
LEMMA TypeInvariant == TypeOK /\ [NextLock]_lockVars => TypeOK'
<1> USE ProcsAssumption DEF TypeOK, Labels
<1> SUFFICES ASSUME TypeOK, [NextLock]_lockVars
             PROVE  TypeOK'
  OBVIOUS
<1>1. ASSUME NEW p \in Procs, LibraryStep(p)
      PROVE  TypeOK'
  <2>1. CASE OpenCreates(p) \/ OpenFindsFile(p) \/ ReadEvent(p)
    BY <2>1 DEF OpenCreates, OpenFindsFile, ReadEvent, Goto
  <2>2. CASE ErrorCleanup(p) \/ RmWatch(p) \/ RmWatchFails(p)
    BY <2>2 DEF ErrorCleanup, RmWatch, RmWatchFails, DropWatch, Goto
  <2>3. CASE WritePid(p) \/ WritePidFails(p)
    BY <2>3 DEF WritePid, WritePidFails, Goto
  <2>4. CASE Unlink(p)
    BY <2>4 DEF Unlink, NotifyWatchers, Goto
  <2>5. CASE UnlinkFails(p) \/ Close(p) \/ CloseFails(p)
    BY <2>5 DEF UnlinkFails, Close, CloseFails, Goto
  <2> QED BY <1>1, <2>1, <2>2, <2>3, <2>4, <2>5 DEF LibraryStep
<1>2. ASSUME NEW p \in Procs, CallerStep(p)
      PROVE  TypeOK'
  <2>1. CASE GetLock(p) \/ GetLockRefused(p)
    BY <2>1 DEF GetLock, GetLockRefused, Goto
  <2>2. CASE Unlock(p) \/ UnlockRefused(p)
    BY <2>2 DEF Unlock, UnlockRefused, Goto
  <2>3. CASE Interrupt(p) \/ Exit(p) \/ Crash(p)
    BY <2>3 DEF Interrupt, Exit, Crash, DropWatch, Goto
  <2> QED BY <1>2, <2>1, <2>2, <2>3 DEF CallerStep
<1>3. CASE DeleteOther \/ RemoveByHand
  BY <1>3 DEF DeleteOther, RemoveByHand, NotifyWatchers
<1>4. CASE UNCHANGED lockVars
  BY <1>4 DEF lockVars
<1> QED BY <1>1, <1>2, <1>3, <1>4 DEF NextLock

(* Every variable keeps its type, whatever fails and whoever cleans up.    *)
THEOREM TypeCorrect == SpecLock => []TypeOK
<1>1. InitLock => TypeOK
  BY ProcsAssumption DEF InitLock, TypeOK, Labels
<1> QED BY <1>1, TypeInvariant, PTL DEF SpecLock

-----------------------------------------------------------------------------
(* Each step keeps who created the file that has the name, and who holds   *)
(* it.                                                                     *)
LEMMA HolderInvariant ==
  CleanerIsCareful /\ TypeOK /\ HolderNamesFile /\ [NextLock]_lockVars
    => HolderNamesFile'
<1> SUFFICES ASSUME CleanerIsCareful, TypeOK, HolderNamesFile,
                    [NextLock]_lockVars
             PROVE  HolderNamesFile'
  OBVIOUS
<1> USE ProcsAssumption
    DEF TypeOK, HolderNamesFile, Holding, HoldingLabels, Goto
<1>1. ASSUME NEW p \in Procs, LibraryStep(p)
      PROVE  HolderNamesFile'
  <2>1. CASE OpenCreates(p)
    BY <2>1 DEF OpenCreates
  <2>2. CASE OpenFindsFile(p) \/ ReadEvent(p) \/ ErrorCleanup(p)
    BY <2>2 DEF OpenFindsFile, ReadEvent, ErrorCleanup
  <2>3. CASE RmWatch(p) \/ RmWatchFails(p)
    BY <2>3 DEF RmWatch, RmWatchFails
  <2>4. CASE WritePid(p) \/ WritePidFails(p)
    BY <2>4 DEF WritePid, WritePidFails
  <2>5. CASE Unlink(p)
    BY <2>5 DEF Unlink
  <2>6. CASE UnlinkFails(p) \/ Close(p) \/ CloseFails(p)
    BY <2>6 DEF UnlinkFails, Close, CloseFails
  <2> QED BY <1>1, <2>1, <2>2, <2>3, <2>4, <2>5, <2>6 DEF LibraryStep
<1>2. ASSUME NEW p \in Procs, CallerStep(p)
      PROVE  HolderNamesFile'
  <2>1. CASE GetLock(p) \/ GetLockRefused(p)
    BY <2>1 DEF GetLock, GetLockRefused
  <2>2. CASE Unlock(p) \/ UnlockRefused(p)
    BY <2>2 DEF Unlock, UnlockRefused
  <2>3. CASE Interrupt(p) \/ Exit(p) \/ Crash(p)
    BY <2>3 DEF Interrupt, Exit, Crash
  <2> QED BY <1>2, <2>1, <2>2, <2>3 DEF CallerStep
<1>3. CASE DeleteOther
  BY <1>3 DEF DeleteOther
<1>4. CASE RemoveByHand
  BY <1>4 DEF RemoveByHand, CleanerIsCareful, Orphaned
<1>5. CASE UNCHANGED lockVars
  BY <1>5 DEF lockVars
<1> QED BY <1>1, <1>2, <1>3, <1>4, <1>5 DEF NextLock

(* Nobody can miss the unlink() it waits for: the watch stands before the  *)
(* first open() and is dropped only on the way out.                        *)
LEMMA WakeupInvariant ==
  TypeOK /\ WaitersWatch /\ NoLostWakeup /\ [NextLock]_lockVars
    => WaitersWatch' /\ NoLostWakeup'
<1> SUFFICES ASSUME TypeOK, WaitersWatch, NoLostWakeup, [NextLock]_lockVars
             PROVE  WaitersWatch' /\ NoLostWakeup'
  OBVIOUS
<1> USE ProcsAssumption
    DEF TypeOK, WaitersWatch, NoLostWakeup, Goto, DropWatch, NotifyWatchers
<1>1. ASSUME NEW p \in Procs, LibraryStep(p)
      PROVE  WaitersWatch' /\ NoLostWakeup'
  <2>1. CASE OpenCreates(p)
    BY <2>1 DEF OpenCreates
  <2>2. CASE OpenFindsFile(p)
    BY <2>2 DEF OpenFindsFile
  <2>3. CASE ReadEvent(p)
    BY <2>3 DEF ReadEvent
  <2>4. CASE ErrorCleanup(p) \/ RmWatch(p) \/ RmWatchFails(p)
    BY <2>4 DEF ErrorCleanup, RmWatch, RmWatchFails
  <2>5. CASE WritePid(p) \/ WritePidFails(p)
    BY <2>5 DEF WritePid, WritePidFails
  <2>6. CASE Unlink(p)
    BY <2>6 DEF Unlink
  <2>7. CASE UnlinkFails(p) \/ Close(p) \/ CloseFails(p)
    BY <2>7 DEF UnlinkFails, Close, CloseFails
  <2> QED
    BY <1>1, <2>1, <2>2, <2>3, <2>4, <2>5, <2>6, <2>7 DEF LibraryStep
<1>2. ASSUME NEW p \in Procs, CallerStep(p)
      PROVE  WaitersWatch' /\ NoLostWakeup'
  <2>1. CASE GetLock(p) \/ GetLockRefused(p)
    BY <2>1 DEF GetLock, GetLockRefused
  <2>2. CASE Unlock(p) \/ UnlockRefused(p)
    BY <2>2 DEF Unlock, UnlockRefused
  <2>3. CASE Interrupt(p) \/ Exit(p) \/ Crash(p)
    BY <2>3 DEF Interrupt, Exit, Crash
  <2> QED BY <1>2, <2>1, <2>2, <2>3 DEF CallerStep
<1>3. CASE DeleteOther \/ RemoveByHand
  BY <1>3 DEF DeleteOther, RemoveByHand
<1>4. CASE UNCHANGED lockVars
  BY <1>4 DEF lockVars
<1> QED BY <1>1, <1>2, <1>3, <1>4 DEF NextLock

-----------------------------------------------------------------------------
(* Before the first call nobody holds, waits or watches.                   *)
LEMMA InitEstablishesIInv == InitLock => IInv
BY ProcsAssumption
   DEF InitLock, IInv, TypeOK, Labels, HolderNamesFile, WaitersWatch,
       NoLostWakeup, Holding, HoldingLabels

(* Types, holders and watches together are kept by every step.             *)
LEMMA IInvIsInductive ==
  CleanerIsCareful /\ IInv /\ [NextLock]_lockVars => IInv'
BY TypeInvariant, HolderInvariant, WakeupInvariant DEF IInv

(* The inductive invariant of the lock holds in every reachable state, as  *)
(* long as lock files in use are not removed by hand (lock.c lines 58 to   *)
(* 84).                                                                    *)
THEOREM IInvHolds == ASSUME CleanerIsCareful PROVE SpecLock => []IInv
<1>1. CleanerIsCareful
  OBVIOUS
<1>2. IInv /\ [NextLock]_lockVars => IInv'
  BY <1>1, IInvIsInductive
<1> QED BY <1>2, InitEstablishesIInv, PTL DEF SpecLock

(* At most one process holds the lock, whatever fails or dies, provided    *)
(* that lock files in use are left alone.                                  *)
THEOREM MutualExclusionHolds ==
  ASSUME CleanerIsCareful PROVE SpecLock => []MutualExclusion
<1>1. IInv => MutualExclusion
  BY DEF IInv, HolderNamesFile, MutualExclusion
<1> QED BY <1>1, IInvHolds, PTL

(* No wake-up is lost, even when lock files in use are removed by hand.    *)
THEOREM NoLostWakeupHolds == SpecLock => []NoLostWakeup
<1>1. InitLock => TypeOK /\ WaitersWatch /\ NoLostWakeup
  BY InitEstablishesIInv DEF IInv
<1>2. TypeOK /\ WaitersWatch /\ NoLostWakeup /\ [NextLock]_lockVars
        => (TypeOK /\ WaitersWatch /\ NoLostWakeup)'
  BY TypeInvariant, WakeupInvariant
<1> QED BY <1>1, <1>2, PTL DEF SpecLock

(* unlock() never removes the lock file of another process.                *)
THEOREM UnlinksOwnFileHolds ==
  ASSUME CleanerIsCareful PROVE SpecLock => UnlinksOwnFile
<1>1. IInv /\ [NextLock]_lockVars
        => [\A p \in Procs :
              pc[p] = "unlink" /\ pc'[p] = "close" => lck = p]_lockVars
  BY DEF IInv, HolderNamesFile, Holding, HoldingLabels
<1> QED BY <1>1, IInvHolds, PTL DEF SpecLock, UnlinksOwnFile

-----------------------------------------------------------------------------
(* The steps of the lock file seen as steps of the abstract lock.          *)
HoldingSet == {p \in Procs : Holding(p)}

(* At most one process holds: the set of holders is what Mutex calls the   *)
(* holder.                                                                 *)
LEMMA HoldingSetIsHolder ==
  ASSUME TypeOK, HolderNamesFile
  PROVE  \A p \in Procs : Holding(p) => HoldingSet = {p} /\ lck = p
BY DEF HoldingSet, HolderNamesFile

(* A step that changes neither the file nor who holds it is a stutter.     *)
LEMMA SilentStep ==
  ASSUME TypeOK, TypeOK', UNCHANGED lck,
         \A p \in Procs : Holding(p)' <=> Holding(p)
  PROVE  UNCHANGED AbstractLock!mutexVars
<1>1. HoldingSet' = HoldingSet
  BY DEF HoldingSet
<1>2. Orphaned' = Orphaned
  BY DEF Orphaned, TypeOK
<1> QED BY <1>1, <1>2 DEF AbstractLock!mutexVars, HoldingSet

(* open() that creates the file takes the lock.                            *)
LEMMA CreateAcquires ==
  ASSUME TypeOK, TypeOK', HolderNamesFile, NEW p \in Procs, OpenCreates(p)
  PROVE  AbstractLock!Acquire(p)
<1> USE ProcsAssumption DEF TypeOK, Holding, HoldingLabels
<1>1. HoldingSet = {} /\ ~Orphaned
  BY DEF OpenCreates, HoldingSet, HolderNamesFile, Orphaned
<1>2. \A q \in Procs : Holding(q)' <=> q = p
  BY <1>1 DEF OpenCreates, HoldingSet, Goto
<1>3. HoldingSet' = {p}
  BY <1>2 DEF HoldingSet
<1>4. Orphaned' = Orphaned
  BY <1>1, <1>2 DEF OpenCreates, Orphaned
<1> QED BY <1>1, <1>3, <1>4 DEF AbstractLock!Acquire, HoldingSet

(* unlink() of the lock file by its creator gives the lock back.           *)
LEMMA UnlinkReleases ==
  ASSUME TypeOK, TypeOK', HolderNamesFile, NEW p \in Procs, Unlink(p)
  PROVE  AbstractLock!Release(p)
<1> USE ProcsAssumption DEF TypeOK, Holding, HoldingLabels
<1>1. HoldingSet = {p} /\ lck = p
  BY HoldingSetIsHolder DEF Unlink
<1>2. \A q \in Procs : ~Holding(q)'
  BY <1>1 DEF Unlink, Goto, HoldingSet
<1>3. HoldingSet' = {}
  BY <1>2 DEF HoldingSet
<1>4. Orphaned' = Orphaned
  BY <1>1 DEF Unlink, Orphaned, HoldingSet
<1> QED BY <1>1, <1>3, <1>4 DEF AbstractLock!Release, HoldingSet

(* A holder that stops with its lock file in place abandons the lock.      *)
LEMMA StoppingAbandons ==
  ASSUME TypeOK, TypeOK', HolderNamesFile, NEW p \in Procs, Holding(p),
         UNCHANGED lck, NEW label \in {"failed", "errored", "gone"},
         Goto(p, label)
  PROVE  AbstractLock!Abandon(p)
<1> USE ProcsAssumption DEF TypeOK, Holding, HoldingLabels
<1>1. HoldingSet = {p} /\ lck = p
  BY HoldingSetIsHolder
<1>2. \A q \in Procs : ~Holding(q)'
  BY <1>1 DEF Goto, HoldingSet
<1>3. HoldingSet' = {}
  BY <1>2 DEF HoldingSet
<1>4. Orphaned'
  BY <1>1, <1>2 DEF Orphaned
<1> QED BY <1>1, <1>3, <1>4 DEF AbstractLock!Abandon, HoldingSet

(* An orphan removed by hand is a lock reclaimed.                          *)
LEMMA RemovalReclaims ==
  ASSUME CleanerIsCareful, TypeOK, TypeOK', HolderNamesFile, RemoveByHand
  PROVE  AbstractLock!Reclaim
<1>1. Orphaned /\ lck' = None /\ pc' = pc
  BY DEF RemoveByHand, CleanerIsCareful
<1>2. ~Orphaned'
  BY <1>1 DEF Orphaned
<1>3. HoldingSet' = HoldingSet
  BY <1>1 DEF HoldingSet, Holding
<1> QED BY <1>1, <1>2, <1>3 DEF AbstractLock!Reclaim, HoldingSet

(* Every step of the library is a step of Mutex or leaves its variables    *)
(* alone.                                                                  *)
LEMMA StepRefines ==
  ASSUME CleanerIsCareful, TypeOK, TypeOK', HolderNamesFile,
         [NextLock]_lockVars
  PROVE  [AbstractLock!Next]_(AbstractLock!mutexVars)
<1> USE DEF TypeOK, Holding, HoldingLabels
<1>1. ASSUME NEW p \in Procs, LibraryStep(p)
      PROVE  [AbstractLock!Next]_(AbstractLock!mutexVars)
  <2>1. CASE OpenCreates(p)
    BY <2>1, CreateAcquires DEF AbstractLock!Next
  <2>2. CASE Unlink(p)
    BY <2>2, UnlinkReleases DEF AbstractLock!Next
  <2>3. CASE RmWatchFails(p) \/ WritePidFails(p) \/ UnlinkFails(p)
    <3>1. Holding(p) /\ UNCHANGED lck
          /\ \E label \in {"failed", "errored", "gone"} : Goto(p, label)
      BY <2>3 DEF RmWatchFails, WritePidFails, UnlinkFails
    <3> QED BY <3>1, StoppingAbandons DEF AbstractLock!Next
  <2>4. CASE OpenFindsFile(p) \/ ReadEvent(p) \/ ErrorCleanup(p)
    <3>1. UNCHANGED lck /\ \A q \in Procs : Holding(q)' <=> Holding(q)
      BY <2>4 DEF OpenFindsFile, ReadEvent, ErrorCleanup, Goto
    <3> QED BY <3>1, SilentStep
  <2>5. CASE RmWatch(p) \/ WritePid(p) \/ Close(p) \/ CloseFails(p)
    <3>1. UNCHANGED lck /\ \A q \in Procs : Holding(q)' <=> Holding(q)
      BY <2>5 DEF RmWatch, WritePid, Close, CloseFails, Goto
    <3> QED BY <3>1, SilentStep
  <2> QED BY <1>1, <2>1, <2>2, <2>3, <2>4, <2>5 DEF LibraryStep
<1>2. ASSUME NEW p \in Procs, CallerStep(p)
      PROVE  [AbstractLock!Next]_(AbstractLock!mutexVars)
  <2>1. CASE GetLock(p) \/ GetLockRefused(p) \/ Interrupt(p) \/ Exit(p)
    <3>1. UNCHANGED lck /\ \A q \in Procs : Holding(q)' <=> Holding(q)
      BY <2>1 DEF GetLock, GetLockRefused, Interrupt, Exit, Goto
    <3> QED BY <3>1, SilentStep
  <2>2. CASE Unlock(p)
    <3>1. UNCHANGED lck /\ \A q \in Procs : Holding(q)' <=> Holding(q)
      BY <2>2 DEF Unlock, Goto
    <3> QED BY <3>1, SilentStep
  <2>3. CASE UnlockRefused(p)
    <3>1. Holding(p) /\ UNCHANGED lck /\ Goto(p, "errored")
      BY <2>3 DEF UnlockRefused
    <3> QED BY <3>1, StoppingAbandons DEF AbstractLock!Next
  <2>4. CASE Crash(p) /\ Holding(p)
    <3>1. UNCHANGED lck /\ Goto(p, "gone")
      BY <2>4 DEF Crash
    <3> QED BY <2>4, <3>1, StoppingAbandons DEF AbstractLock!Next
  <2>5. CASE Crash(p) /\ ~Holding(p)
    <3>1. UNCHANGED lck /\ \A q \in Procs : Holding(q)' <=> Holding(q)
      BY <2>5 DEF Crash, Goto
    <3> QED BY <3>1, SilentStep
  <2> QED BY <1>2, <2>1, <2>2, <2>3, <2>4, <2>5 DEF CallerStep
<1>3. CASE RemoveByHand
  BY <1>3, RemovalReclaims DEF AbstractLock!Next
<1>4. CASE DeleteOther \/ UNCHANGED lockVars
  <2>1. UNCHANGED lck /\ \A q \in Procs : Holding(q)' <=> Holding(q)
    BY <1>4 DEF DeleteOther, lockVars
  <2> QED BY <2>1, SilentStep
<1> QED BY <1>1, <1>2, <1>3, <1>4 DEF NextLock

(* get_lock() and unlock() implement the lock of module Mutex: taking it   *)
(* is the open() that creates the file, giving it back is the unlink(),    *)
(* every failure in between abandons it, and nothing else changes it.      *)
THEOREM FileLockImplementsMutex ==
  ASSUME CleanerIsCareful PROVE SpecLock => ImplementsMutex
<1>1. InitLock => AbstractLock!Init
  BY DEF InitLock, AbstractLock!Init, Holding, HoldingLabels, Orphaned
<1>2. IInv /\ IInv' /\ [NextLock]_lockVars
        => [AbstractLock!Next]_(AbstractLock!mutexVars)
  BY StepRefines DEF IInv
<1> QED
  BY <1>1, <1>2, IInvHolds, PTL DEF SpecLock, ImplementsMutex, AbstractLock!Spec

-----------------------------------------------------------------------------
(* Where a process may be while its file has the name, and while its watch *)
(* stands.  This needs no care of those who remove lock files.             *)
FileOwnerLabels == HoldingLabels \cup {"failed", "errored", "gone"}
WatchLabels == {"open", "wait", "created"}

OwnersKeepTrack == \A p \in Procs : lck = p => pc[p] \in FileOwnerLabels
WatchersKeepTrack == \A p \in watching : pc[p] \in WatchLabels

(* In every step whoever owns the lock file is where one is owned, and     *)
(* whoever has a watch is where one waits.                                 *)
LEMMA TrackInvariant ==
  TypeOK /\ OwnersKeepTrack /\ WatchersKeepTrack /\ [NextLock]_lockVars
    => OwnersKeepTrack' /\ WatchersKeepTrack'
<1> SUFFICES ASSUME TypeOK, OwnersKeepTrack, WatchersKeepTrack,
                    [NextLock]_lockVars
             PROVE  OwnersKeepTrack' /\ WatchersKeepTrack'
  OBVIOUS
<1> USE ProcsAssumption
    DEF TypeOK, OwnersKeepTrack, WatchersKeepTrack, FileOwnerLabels,
        HoldingLabels, WatchLabels, Goto, DropWatch
<1>1. ASSUME NEW p \in Procs, LibraryStep(p)
      PROVE  OwnersKeepTrack' /\ WatchersKeepTrack'
  <2>1. CASE OpenCreates(p)
    BY <2>1 DEF OpenCreates
  <2>2. CASE OpenFindsFile(p) \/ ReadEvent(p) \/ ErrorCleanup(p)
    BY <2>2 DEF OpenFindsFile, ReadEvent, ErrorCleanup
  <2>3. CASE RmWatch(p) \/ RmWatchFails(p)
    BY <2>3 DEF RmWatch, RmWatchFails
  <2>4. CASE WritePid(p) \/ WritePidFails(p)
    BY <2>4 DEF WritePid, WritePidFails
  <2>5. CASE Unlink(p)
    BY <2>5 DEF Unlink
  <2>6. CASE UnlinkFails(p) \/ Close(p) \/ CloseFails(p)
    BY <2>6 DEF UnlinkFails, Close, CloseFails
  <2> QED BY <1>1, <2>1, <2>2, <2>3, <2>4, <2>5, <2>6 DEF LibraryStep
<1>2. ASSUME NEW p \in Procs, CallerStep(p)
      PROVE  OwnersKeepTrack' /\ WatchersKeepTrack'
  <2>1. CASE GetLock(p) \/ GetLockRefused(p)
    BY <2>1 DEF GetLock, GetLockRefused
  <2>2. CASE Unlock(p) \/ UnlockRefused(p)
    BY <2>2 DEF Unlock, UnlockRefused
  <2>3. CASE Interrupt(p) \/ Exit(p) \/ Crash(p)
    BY <2>3 DEF Interrupt, Exit, Crash
  <2> QED BY <1>2, <2>1, <2>2, <2>3 DEF CallerStep
<1>3. CASE DeleteOther \/ RemoveByHand
  BY <1>3 DEF DeleteOther, RemoveByHand
<1>4. CASE UNCHANGED lockVars
  BY <1>4 DEF lockVars
<1> QED BY <1>1, <1>2, <1>3, <1>4 DEF NextLock

(* A process that is gone does not come back, and never owns a file again. *)
LEMMA GoneStaysGone ==
  ASSUME TypeOK, [NextLock]_lockVars, NEW p \in Procs, pc[p] = "gone"
  PROVE  pc'[p] = "gone" /\ (lck # p => lck' # p)
<1> USE ProcsAssumption DEF TypeOK, Goto
<1>1. ASSUME NEW q \in Procs, LibraryStep(q)
      PROVE  pc'[p] = "gone" /\ (lck # p => lck' # p)
  BY <1>1 DEF LibraryStep, OpenCreates, OpenFindsFile, ReadEvent,
       ErrorCleanup, RmWatch, RmWatchFails, WritePid, WritePidFails, Unlink,
       UnlinkFails, Close, CloseFails
<1>2. ASSUME NEW q \in Procs, CallerStep(q)
      PROVE  pc'[p] = "gone" /\ (lck # p => lck' # p)
  BY <1>2 DEF CallerStep, GetLock, GetLockRefused, Unlock, UnlockRefused,
       Interrupt, Exit, Crash
<1>3. CASE DeleteOther \/ RemoveByHand \/ UNCHANGED lockVars
  BY <1>3 DEF DeleteOther, RemoveByHand, lockVars
<1> QED BY <1>1, <1>2, <1>3 DEF NextLock
=============================================================================
