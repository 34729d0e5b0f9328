--------------------------- MODULE LockMainProofs ---------------------------
(***************************************************************************)
(* Proofs about LockMain, for every set of processes, of faults and every  *)
(* bound of the clock: what status 0 promises, and, as long as lock files  *)
(* in use are left alone, the order of the lines.                          *)
(***************************************************************************)
EXTENDS LockMain, FileLockProofs, FiniteSetTheorems

callerVars == <<clock, stamp, outcome, journal, status>>

(* The steps inside do_something_with_file.                                *)
FileStep(p) ==
  OpenTargetFails(p) \/ ReadClock(p) \/ AppendLine(p) \/ AppendLineFails(p)

(* The other steps that change what the callers keep.                      *)
LeaveStep(p) == Leave(p) \/ Kill(p)

(* Every step is one of these: the library moves and the callers' data     *)
(* stay, or a caller works on the file while it holds the lock, or it goes.*)
LEMMA StepKinds ==
  ASSUME [Next]_mainVars
  PROVE  \/ UNCHANGED callerVars
         \/ UNCHANGED lockVars /\ \E p \in Procs : FileStep(p)
         \/ \E p \in Procs : LeaveStep(p)
         \/ Tick
<1>1. CASE UNCHANGED mainVars
  BY <1>1 DEF mainVars, callerVars
<1>2. ASSUME NEW p \in Procs, CallGetLock(p) \/ InsideLibrary(p) \/ CallUnlock(p)
      PROVE  UNCHANGED callerVars
  BY <1>2 DEF CallGetLock, InsideLibrary, CallUnlock, callerVars
<1>3. ASSUME NEW p \in Procs, FileStep(p)
      PROVE  UNCHANGED lockVars
  BY <1>3 DEF FileStep, OpenTargetFails, ReadClock, AppendLine,
              AppendLineFails, lockVars
<1>4. CASE DirectoryStep
  BY <1>4 DEF DirectoryStep, callerVars
<1> QED BY <1>1, <1>2, <1>3, <1>4 DEF Next, FileStep, LeaveStep

(* Every step of main() is a step of the library, or one that leaves the   *)
(* variables of the library alone.                                         *)
LEMMA MainStepIsLockStep == [Next]_mainVars => [NextLock]_lockVars
<1> SUFFICES ASSUME [Next]_mainVars
             PROVE  [NextLock]_lockVars
  OBVIOUS
<1>1. ASSUME NEW p \in Procs,
             CallGetLock(p) \/ InsideLibrary(p) \/ CallUnlock(p) \/ LeaveStep(p)
      PROVE  NextLock
  BY <1>1 DEF CallGetLock, InsideLibrary, CallUnlock, LeaveStep, Leave, Kill,
              NextLock, CallerStep
<1>2. ASSUME NEW p \in Procs, FileStep(p)
      PROVE  UNCHANGED lockVars
  BY <1>2 DEF FileStep, OpenTargetFails, ReadClock, AppendLine,
              AppendLineFails, lockVars
<1>3. CASE DirectoryStep
  BY <1>3 DEF DirectoryStep, NextLock
<1>4. CASE Tick \/ UNCHANGED mainVars
  BY <1>4 DEF Tick, mainVars, lockVars
<1> QED BY <1>1, <1>2, <1>3, <1>4 DEF Next, FileStep, LeaveStep

(* The one-shot processes run the library as module FileLock describes it. *)
THEOREM MainFollowsLibrary == Spec => SpecLock
<1>1. Init => InitLock
  BY DEF Init
<1> QED BY <1>1, MainStepIsLockStep, PTL DEF Spec, SpecLock

-----------------------------------------------------------------------------
(* Every step keeps the types.                                             *)
LEMMA MainTypeInvariant == MainTypeOK /\ [Next]_mainVars => MainTypeOK'
<1> SUFFICES ASSUME MainTypeOK, [Next]_mainVars
             PROVE  MainTypeOK'
  OBVIOUS
<1> USE MaxClockAssumption DEF MainTypeOK
<1>1. TypeOK'
  BY MainStepIsLockStep, TypeInvariant
<1>2. CASE UNCHANGED callerVars
  BY <1>1, <1>2 DEF callerVars
<1>3. ASSUME NEW p \in Procs, FileStep(p)
      PROVE  MainTypeOK'
  <2>1. CASE OpenTargetFails(p)
    BY <1>1, <2>1 DEF OpenTargetFails
  <2>2. CASE ReadClock(p)
    BY <1>1, <2>2 DEF ReadClock
  <2>3. CASE AppendLine(p) \/ AppendLineFails(p)
    <3>1. Line(p) \in [pid : Procs, time : 0..MaxClock]
      BY <2>3 DEF AppendLine, AppendLineFails, Line
    <3>2. journal' \in Seq([pid : Procs, time : 0..MaxClock])
      <4> DEFINE L == [pid : Procs, time : 0..MaxClock]
      <4>1. journal \in Seq(L) /\ Line(p) \in L
        BY <3>1
      <4>2. journal' \in {journal, Append(journal, Line(p))}
        BY <2>3 DEF AppendLine, AppendLineFails
      <4> HIDE DEF L
      <4>3. Append(journal, Line(p)) \in Seq(L)
        BY <4>1
      <4>4. journal' \in Seq(L)
        BY <4>1, <4>2, <4>3
      <4> QED BY <4>4 DEF L
    <3> QED BY <1>1, <2>3, <3>2 DEF AppendLine, AppendLineFails
  <2> QED BY <1>3, <2>1, <2>2, <2>3 DEF FileStep
<1>4. ASSUME NEW p \in Procs, LeaveStep(p)
      PROVE  MainTypeOK'
  BY <1>1, <1>4 DEF LeaveStep, Leave, Kill, Finish
<1>5. CASE Tick
  BY <1>1, <1>5 DEF Tick
<1> QED BY <1>2, <1>3, <1>4, <1>5, StepKinds

(* The types hold at the start.                                            *)
LEMMA InitEstablishesType == Init => MainTypeOK
BY InitEstablishesIInv, MaxClockAssumption DEF Init, MainTypeOK, IInv

(* Every variable of the one-shot processes keeps its type.                *)
THEOREM MainTypeCorrect == Spec => []MainTypeOK
BY InitEstablishesType, MainTypeInvariant, PTL DEF Spec

-----------------------------------------------------------------------------
(* How far a process has come says what it has done with the file: nothing *)
(* before it holds the lock, all of it once it gives the lock back.        *)
FileWorkIsUnderLock ==
  \A p \in Procs :
    /\ pc[p] \in {"open", "wait", "created", "write"}
         => stamp[p] = None /\ outcome[p] = None
    /\ pc[p] = "idle" /\ outcome[p] = None => stamp[p] = None
    /\ pc[p] \in {"unlink", "close"} => outcome[p] # None

(* Whoever reads the clock or writes its line holds the lock, in every     *)
(* step.                                                                   *)
LEMMA FileWorkInvariant ==
  MainTypeOK /\ FileWorkIsUnderLock /\ [Next]_mainVars
    => FileWorkIsUnderLock'
<1> SUFFICES ASSUME MainTypeOK, FileWorkIsUnderLock, [Next]_mainVars
             PROVE  FileWorkIsUnderLock'
  OBVIOUS
<1> USE DEF MainTypeOK, TypeOK, FileWorkIsUnderLock, Goto
<1>1. ASSUME NEW p \in Procs, CallGetLock(p) \/ CallUnlock(p)
      PROVE  FileWorkIsUnderLock'
  BY <1>1 DEF CallGetLock, CallUnlock, GetLock, GetLockRefused, Unlock,
              UnlockRefused
<1>2. ASSUME NEW p \in Procs, InsideLibrary(p)
      PROVE  FileWorkIsUnderLock'
  BY <1>2 DEF InsideLibrary, LibraryStep, OpenCreates, OpenFindsFile,
       ReadEvent, ErrorCleanup, RmWatch, RmWatchFails, WritePid,
       WritePidFails, Unlink, UnlinkFails, Close, CloseFails
<1>3. ASSUME NEW p \in Procs, FileStep(p)
      PROVE  FileWorkIsUnderLock'
  <2>1. pc[p] = "held" /\ pc' = pc
    BY <1>3 DEF FileStep, OpenTargetFails, ReadClock, AppendLine,
                AppendLineFails
  <2>2. \A q \in Procs : q # p => stamp'[q] = stamp[q] /\ outcome'[q] = outcome[q]
    BY <1>3 DEF FileStep, OpenTargetFails, ReadClock, AppendLine,
                AppendLineFails
  <2> QED BY <2>1, <2>2
<1>4. ASSUME NEW p \in Procs, LeaveStep(p)
      PROVE  FileWorkIsUnderLock'
  BY <1>4 DEF LeaveStep, Leave, Kill, Exit, Crash
<1>5. CASE Tick \/ DirectoryStep \/ UNCHANGED mainVars
  BY <1>5 DEF Tick, DirectoryStep, DeleteOther, RemoveByHand, mainVars
<1> QED BY <1>1, <1>2, <1>3, <1>4, <1>5 DEF Next, FileStep, LeaveStep

(* Past write() and dprintf() lies the lock, and there is no other way in. *)
LEMMA OnlyWritersGetTheLock ==
  ASSUME TypeOK, [NextLock]_lockVars, NEW p \in Procs, pc'[p] = "held"
  PROVE  pc[p] \in {"write", "held"}
<1> USE DEF TypeOK, Goto
<1>1. ASSUME NEW q \in Procs, LibraryStep(q)
      PROVE  pc[p] \in {"write", "held"}
  BY <1>1 DEF LibraryStep, OpenCreates, OpenFindsFile, ReadEvent,
       ErrorCleanup, RmWatch, RmWatchFails, WritePid, WritePidFails, Unlink,
       UnlinkFails, Close, CloseFails
<1>2. ASSUME NEW q \in Procs, CallerStep(q)
      PROVE  pc[p] \in {"write", "held"}
  BY <1>2 DEF CallerStep, GetLock, GetLockRefused, Unlock, UnlockRefused,
       Interrupt, Exit, Crash
<1>3. CASE DeleteOther \/ RemoveByHand \/ UNCHANGED lockVars
  BY <1>3 DEF DeleteOther, RemoveByHand, lockVars
<1> QED BY <1>1, <1>2, <1>3 DEF NextLock

-----------------------------------------------------------------------------
(* Why the lines are in order: no line and no time read is ahead of the    *)
(* clock, and while a holder is between its time and its line no other     *)
(* line arrives.                                                           *)
LinesBeforeClock == \A i \in DOMAIN journal : journal[i].time <= clock
StampsBeforeClock == \A p \in Procs : stamp[p] # None => stamp[p] <= clock
About(p) == pc[p] = "held" /\ stamp[p] # None /\ outcome[p] = None
StampsAfterLines ==
  \A p \in Procs :
    About(p) => \A i \in DOMAIN journal : journal[i].time <= stamp[p]

OrderIInv ==
  /\ MainTypeOK
  /\ FileWorkIsUnderLock
  /\ LinesBeforeClock
  /\ StampsBeforeClock
  /\ StampsAfterLines
  /\ JournalInTimeOrder

(* What a line at the end does to the order.                               *)
LEMMA AppendKeepsOrder ==
  ASSUME OrderIInv, MutualExclusion, NEW p \in Procs, About(p),
         journal' = Append(journal, Line(p)), UNCHANGED <<pc, clock, stamp>>,
         outcome'[p] # None,
         \A q \in Procs : q # p => outcome'[q] = outcome[q]
  PROVE  LinesBeforeClock' /\ StampsAfterLines' /\ JournalInTimeOrder'
<1> USE MaxClockAssumption
<1> DEFINE L == [pid : Procs, time : 0..MaxClock]
<1>1. journal \in Seq(L) /\ Line(p) \in L /\ Line(p).time = stamp[p]
  BY DEF OrderIInv, MainTypeOK, About, Line
<1>2. /\ DOMAIN journal' = DOMAIN journal \cup {Len(journal) + 1}
      /\ \A i \in DOMAIN journal :
           i < Len(journal) + 1 /\ journal'[i] = journal[i]
      /\ journal'[Len(journal) + 1] = Line(p)
      /\ Len(journal) \in Nat /\ DOMAIN journal \subseteq Nat
  <2> HIDE DEF L
  <2> QED BY <1>1
<1>3. \A i \in DOMAIN journal : journal[i].time <= stamp[p]
  BY DEF OrderIInv, StampsAfterLines
<1>4. LinesBeforeClock'
  BY <1>1, <1>2 DEF OrderIInv, LinesBeforeClock, StampsBeforeClock, About
<1>5. \A q \in Procs : ~About(q)'
  BY DEF About, MutualExclusion, Holding, HoldingLabels
<1>6. JournalInTimeOrder'
  <2> SUFFICES ASSUME NEW i \in DOMAIN journal', NEW j \in DOMAIN journal',
                      i < j
               PROVE  journal'[i].time <= journal'[j].time
    BY DEF JournalInTimeOrder
  <2>1. i \in DOMAIN journal
    BY <1>2
  <2>2. CASE j \in DOMAIN journal
    BY <1>2, <2>1, <2>2 DEF OrderIInv, JournalInTimeOrder
  <2>3. CASE j = Len(journal) + 1
    BY <1>1, <1>2, <1>3, <2>1, <2>3
  <2> QED BY <1>2, <2>2, <2>3
<1> QED BY <1>4, <1>5, <1>6 DEF StampsAfterLines

(* Each step keeps the lines in order, and no pending time is before the   *)
(* last line.                                                              *)
LEMMA OrderInvariant ==
  OrderIInv /\ MutualExclusion /\ [Next]_mainVars => OrderIInv'
<1> SUFFICES ASSUME OrderIInv, MutualExclusion, [Next]_mainVars
             PROVE  OrderIInv'
  OBVIOUS
<1>1. MainTypeOK' /\ FileWorkIsUnderLock'
  BY MainTypeInvariant, FileWorkInvariant DEF OrderIInv
<1>2. MainTypeOK /\ TypeOK /\ clock \in Nat /\ [NextLock]_lockVars
  BY MainStepIsLockStep, MaxClockAssumption DEF OrderIInv, MainTypeOK
<1>3. ASSUME UNCHANGED <<stamp, outcome, journal>>, clock' >= clock
      PROVE  OrderIInv'
  <2>1. \A p \in Procs : About(p)' => About(p)
    BY <1>2, <1>3, OnlyWritersGetTheLock
       DEF About, OrderIInv, FileWorkIsUnderLock
  <2>2. StampsAfterLines' /\ JournalInTimeOrder'
    BY <1>3, <2>1 DEF OrderIInv, StampsAfterLines, JournalInTimeOrder
  <2>3. LinesBeforeClock'
    <3> SUFFICES ASSUME NEW i \in DOMAIN journal
                 PROVE  journal[i].time <= clock'
      BY <1>3 DEF LinesBeforeClock
    <3>1. journal[i].time \in 0..MaxClock
      <4> DEFINE L == [pid : Procs, time : 0..MaxClock]
      <4>1. journal \in Seq(L)
        BY <1>2 DEF MainTypeOK
      <4> HIDE DEF L
      <4>2. journal[i] \in L
        BY <4>1
      <4> QED BY <4>2 DEF L
    <3>2. journal[i].time <= clock
      BY DEF OrderIInv, LinesBeforeClock
    <3>3. clock' \in Nat
      BY <1>1, MaxClockAssumption DEF MainTypeOK
    <3> QED BY <1>2, <1>3, <3>1, <3>2, <3>3, MaxClockAssumption
  <2>4. StampsBeforeClock'
    <3> SUFFICES ASSUME NEW p \in Procs, stamp[p] # None
                 PROVE  stamp[p] <= clock'
      BY <1>3 DEF StampsBeforeClock
    <3>1. stamp[p] \in 0..MaxClock /\ stamp[p] <= clock
      BY <1>2 DEF MainTypeOK, OrderIInv, StampsBeforeClock
    <3>2. clock' \in Nat
      BY <1>1, MaxClockAssumption DEF MainTypeOK
    <3> QED BY <1>2, <1>3, <3>1, <3>2, MaxClockAssumption
  <2> QED BY <1>1, <2>2, <2>3, <2>4 DEF OrderIInv
<1>4. ASSUME NEW p \in Procs, FileStep(p)
      PROVE  OrderIInv'
  <2>1. CASE OpenTargetFails(p)
    BY <1>1, <2>1
       DEF OpenTargetFails, OrderIInv, About, LinesBeforeClock,
           StampsBeforeClock, StampsAfterLines, JournalInTimeOrder,
           MainTypeOK
  <2>2. CASE ReadClock(p)
    <3>1. stamp'[p] = clock
          /\ \A q \in Procs : q # p => stamp'[q] = stamp[q]
      BY <1>2, <2>2 DEF ReadClock, MainTypeOK
    <3>2. UNCHANGED <<pc, clock, outcome, journal>>
      BY <2>2 DEF ReadClock
    <3>3. StampsBeforeClock'
      BY <1>2, <3>1, <3>2 DEF OrderIInv, StampsBeforeClock
    <3>4. StampsAfterLines'
      BY <3>1, <3>2 DEF OrderIInv, StampsAfterLines, LinesBeforeClock, About
    <3> QED
      BY <1>1, <3>2, <3>3, <3>4
         DEF OrderIInv, LinesBeforeClock, JournalInTimeOrder
  <2>3. CASE AppendLine(p) \/ AppendLineFails(p)
    <3>1. About(p) /\ UNCHANGED <<pc, clock, stamp>>
      BY <2>3 DEF AppendLine, AppendLineFails, About
    <3>2. outcome'[p] # None
          /\ \A q \in Procs : q # p => outcome'[q] = outcome[q]
      BY <1>2, <2>3, NoneAssumption
         DEF AppendLine, AppendLineFails, MainTypeOK
    <3>3. StampsBeforeClock'
      BY <3>1 DEF OrderIInv, StampsBeforeClock
    <3>4. CASE journal' = Append(journal, Line(p))
      BY <1>1, <3>1, <3>2, <3>3, <3>4, AppendKeepsOrder DEF OrderIInv
    <3>5. CASE journal' = journal
      <4>1. \A q \in Procs : About(q)' => About(q)
        BY <3>1, <3>2 DEF About
      <4> QED
        BY <1>1, <3>1, <3>3, <3>5, <4>1
           DEF OrderIInv, LinesBeforeClock, StampsAfterLines,
               JournalInTimeOrder
    <3> QED BY <2>3, <3>4, <3>5 DEF AppendLine, AppendLineFails
  <2> QED BY <1>4, <2>1, <2>2, <2>3 DEF FileStep
<1>5. ASSUME NEW p \in Procs, LeaveStep(p)
      PROVE  OrderIInv'
  BY <1>2, <1>3, <1>5 DEF LeaveStep, Leave, Kill
<1>6. CASE Tick
  BY <1>2, <1>3, <1>6 DEF Tick
<1>7. CASE UNCHANGED callerVars
  BY <1>2, <1>3, <1>7 DEF callerVars
<1> QED BY <1>4, <1>5, <1>6, <1>7, StepKinds

(* The lines of the target file are in the order of their times, provided  *)
(* that lock files in use are left alone.                                  *)
THEOREM JournalInTimeOrderHolds ==
  ASSUME CleanerIsCareful PROVE Spec => []JournalInTimeOrder
<1>1. Init => OrderIInv
  BY InitEstablishesType, MaxClockAssumption
     DEF Init, InitLock, OrderIInv, FileWorkIsUnderLock, LinesBeforeClock,
         StampsBeforeClock, StampsAfterLines, About, JournalInTimeOrder
<1>2. Spec => []MutualExclusion
  BY MainFollowsLibrary, MutualExclusionHolds, PTL
<1>3. OrderIInv => JournalInTimeOrder
  BY DEF OrderIInv
<1> QED BY <1>1, <1>2, <1>3, OrderInvariant, PTL DEF Spec

-----------------------------------------------------------------------------
(* What the result of do_something_with_file says of the lines, and what   *)
(* the exit status says of both.  This needs no care of anybody.           *)
HasNoLine(p) == LinesOf(p) = {}
HasOneLine(p) == \E i : LinesOf(p) = {i}
OutcomeCountsLines ==
  \A p \in Procs :
    /\ outcome[p] = None => HasNoLine(p)
    /\ outcome[p] = 0 => HasOneLine(p)
    /\ HasNoLine(p) \/ HasOneLine(p)
ZeroIsDone ==
  \A p \in Procs :
    status[p] = 0 => outcome[p] = 0 /\ pc[p] = "gone" /\ lck # p

ReceiptIInv ==
  /\ MainTypeOK
  /\ OwnersKeepTrack
  /\ WatchersKeepTrack
  /\ OutcomeCountsLines
  /\ ZeroIsDone

(* Appending a line of a process adds one to its lines and none to those   *)
(* of others.                                                              *)
LEMMA AppendAddsOneLine ==
  ASSUME MainTypeOK, NEW p \in Procs, stamp[p] # None,
         journal' = Append(journal, Line(p))
  PROVE  /\ LinesOf(p)' = LinesOf(p) \cup {Len(journal) + 1}
         /\ \A q \in Procs : q # p => LinesOf(q)' = LinesOf(q)
<1> USE MaxClockAssumption
<1> DEFINE L == [pid : Procs, time : 0..MaxClock]
<1>1. journal \in Seq(L) /\ Line(p) \in L /\ Line(p).pid = p
  BY DEF MainTypeOK, Line
<1>2. /\ DOMAIN journal' = DOMAIN journal \cup {Len(journal) + 1}
      /\ \A i \in DOMAIN journal : journal'[i] = journal[i]
      /\ journal'[Len(journal) + 1] = Line(p)
      /\ Len(journal) + 1 \notin DOMAIN journal
  <2> HIDE DEF L
  <2> QED BY <1>1
<1> QED BY <1>1, <1>2 DEF LinesOf

(* Each step keeps the number of lines, the outcome and the place in       *)
(* main() in agreement.                                                    *)
LEMMA OutcomeInvariant ==
  MainTypeOK /\ OutcomeCountsLines /\ [Next]_mainVars => OutcomeCountsLines'
<1> SUFFICES ASSUME MainTypeOK, OutcomeCountsLines, [Next]_mainVars
             PROVE  OutcomeCountsLines'
  OBVIOUS
<1>1. ASSUME UNCHANGED <<outcome, journal>>
      PROVE  OutcomeCountsLines'
  BY <1>1 DEF OutcomeCountsLines, LinesOf, HasNoLine, HasOneLine
<1>2. ASSUME NEW p \in Procs, OpenTargetFails(p)
      PROVE  OutcomeCountsLines'
  <2>1. \A q \in Procs :
          (HasNoLine(q)' <=> HasNoLine(q)) /\ (HasOneLine(q)' <=> HasOneLine(q))
    BY <1>2 DEF OpenTargetFails, LinesOf, HasNoLine, HasOneLine
  <2>2. outcome' = [outcome EXCEPT ![p] = 1]
    BY <1>2 DEF OpenTargetFails
  <2> QED
    BY <2>1, <2>2, NoneAssumption DEF OutcomeCountsLines, MainTypeOK
<1>3. ASSUME NEW p \in Procs, AppendLine(p) \/ AppendLineFails(p)
      PROVE  OutcomeCountsLines'
  <2>1. stamp[p] # None /\ HasNoLine(p)
    BY <1>3 DEF AppendLine, AppendLineFails, OutcomeCountsLines
  <2>2. PICK result \in {0, 1} :
          /\ outcome' = [outcome EXCEPT ![p] = result]
          /\ \/ journal' = Append(journal, Line(p))
             \/ result = 1 /\ journal' = journal
    BY <1>3 DEF AppendLine, AppendLineFails
  <2>3. \A q \in Procs : q # p => LinesOf(q)' = LinesOf(q)
    BY <2>1, <2>2, AppendAddsOneLine DEF LinesOf
  <2>4. \A q \in Procs : q # p =>
          (HasNoLine(q)' <=> HasNoLine(q)) /\ (HasOneLine(q)' <=> HasOneLine(q))
    BY <2>3 DEF HasNoLine, HasOneLine
  <2>5. CASE journal' = Append(journal, Line(p))
    <3>1. LinesOf(p)' = {Len(journal) + 1}
      BY <2>1, <2>5, AppendAddsOneLine DEF HasNoLine
    <3>2. HasOneLine(p)'
      BY <3>1 DEF HasOneLine
    <3> QED
      BY <2>2, <2>4, <3>2, NoneAssumption DEF OutcomeCountsLines, MainTypeOK
  <2>6. CASE result = 1 /\ journal' = journal
    <3>1. HasNoLine(p)'
      BY <2>1, <2>6 DEF LinesOf, HasNoLine
    <3> QED
      BY <2>2, <2>4, <2>6, <3>1, NoneAssumption
         DEF OutcomeCountsLines, MainTypeOK
  <2> QED BY <2>2, <2>5, <2>6
<1>4. ASSUME NEW p \in Procs, ReadClock(p) \/ LeaveStep(p)
      PROVE  OutcomeCountsLines'
  BY <1>1, <1>4 DEF ReadClock, LeaveStep, Leave, Kill
<1>5. CASE Tick \/ UNCHANGED callerVars
  BY <1>1, <1>5 DEF Tick, callerVars
<1> QED BY <1>2, <1>3, <1>4, <1>5, StepKinds DEF FileStep

(* Status 0 is given only to a process that is done with everything, and   *)
(* nothing happens to it afterwards.                                       *)
LEMMA ZeroIsDoneInvariant ==
  ReceiptIInv /\ [Next]_mainVars => ZeroIsDone'
<1> SUFFICES ASSUME ReceiptIInv, [Next]_mainVars
             PROVE  ZeroIsDone'
  OBVIOUS
<1> USE DEF ReceiptIInv, MainTypeOK, ZeroIsDone
<1>1. \A p \in Procs : pc[p] = "gone" /\ lck # p => pc'[p] = "gone" /\ lck' # p
  BY GoneStaysGone, MainStepIsLockStep
<1>2. CASE UNCHANGED <<outcome, status>>
  BY <1>1, <1>2
<1>3. ASSUME NEW p \in Procs, FileStep(p)
      PROVE  ZeroIsDone'
  <2>1. pc[p] = "held" /\ UNCHANGED status
    BY <1>3 DEF FileStep, OpenTargetFails, ReadClock, AppendLine,
                AppendLineFails
  <2>2. \A q \in Procs : q # p => outcome'[q] = outcome[q]
    BY <1>3 DEF FileStep, OpenTargetFails, ReadClock, AppendLine,
                AppendLineFails
  <2> QED BY <1>1, <2>1, <2>2
<1>4. ASSUME NEW p \in Procs, LeaveStep(p)
      PROVE  ZeroIsDone'
  <2>1. PICK result \in {0, 1, Killed} :
          /\ status' = [status EXCEPT ![p] = result]
          /\ result = 0 => outcome[p] = 0 /\ pc[p] = "idle" /\ Exit(p)
    BY <1>4, StatusAssumption DEF LeaveStep, Leave, Kill, Finish
  <2>2. UNCHANGED outcome
    BY <1>4 DEF LeaveStep, Leave, Kill
  <2>3. result = 0 => pc'[p] = "gone" /\ lck' # p
    BY <2>1 DEF Exit, Goto, TypeOK, OwnersKeepTrack, FileOwnerLabels,
                HoldingLabels
  <2>4. result # 0 => status'[p] # 0
    BY <2>1
  <2>5. \A q \in Procs : q # p => status'[q] = status[q]
    BY <2>1
  <2> QED BY <1>1, <2>1, <2>2, <2>3, <2>4, <2>5
<1>5. CASE Tick \/ UNCHANGED callerVars
  BY <1>2, <1>5 DEF Tick, callerVars
<1> QED BY <1>3, <1>4, <1>5, StepKinds

(* Exit status 0 is a receipt: one line of the process is in the file and  *)
(* the lock is given back.  No way out leaves two lines.                   *)
THEOREM StatusZeroIsReceiptHolds == Spec => []StatusZeroIsReceipt
<1>1. Init => ReceiptIInv
  BY InitEstablishesType, ProcsAssumption, StatusAssumption, NoneAssumption
     DEF Init, InitLock, ReceiptIInv, OwnersKeepTrack, WatchersKeepTrack,
         OutcomeCountsLines, HasNoLine, LinesOf, ZeroIsDone
<1>2. ReceiptIInv /\ [Next]_mainVars => ReceiptIInv'
  <2> SUFFICES ASSUME ReceiptIInv, [Next]_mainVars
               PROVE  ReceiptIInv'
    OBVIOUS
  <2>1. OwnersKeepTrack' /\ WatchersKeepTrack'
    BY MainStepIsLockStep, TrackInvariant DEF ReceiptIInv, MainTypeOK
  <2> QED
    BY <2>1, MainTypeInvariant, OutcomeInvariant, ZeroIsDoneInvariant
       DEF ReceiptIInv
<1>3. ReceiptIInv => StatusZeroIsReceipt
  <2> SUFFICES ASSUME ReceiptIInv, NEW p \in Procs
               PROVE  /\ Cardinality(LinesOf(p)) <= 1
                      /\ status[p] = 0
                           => Cardinality(LinesOf(p)) = 1 /\ lck # p
    BY DEF StatusZeroIsReceipt
  <2>1. /\ HasNoLine(p) \/ HasOneLine(p)
        /\ status[p] = 0 => HasOneLine(p) /\ lck # p
    BY DEF ReceiptIInv, OutcomeCountsLines, ZeroIsDone
  <2>2. HasNoLine(p) => Cardinality(LinesOf(p)) = 0
    BY FS_EmptySet DEF HasNoLine
  <2>3. HasOneLine(p) => Cardinality(LinesOf(p)) = 1
    BY FS_Singleton DEF HasOneLine
  <2> QED BY <2>1, <2>2, <2>3
<1> QED BY <1>1, <1>2, <1>3, PTL DEF Spec
=============================================================================
