---------------------------- MODULE MyInitProofs ----------------------------
(***************************************************************************)
(* Proofs about MyInit, for every set of pids, every configuration file    *)
(* and every number of failures: what myinit knows of its children.        *)
(***************************************************************************)
EXTENDS MyInit, NaturalsInduction, WellFoundedInduction, SequenceTheorems,
        FiniteSetTheorems, TLAPS

(* Every set of natural numbers that is not empty has a least element.     *)
LEMMA LeastElement ==
  ASSUME NEW T \in SUBSET Nat, T # {}
  PROVE  \E k \in T : \A j \in T : k <= j
<1> DEFINE Less == {jk \in Nat \X Nat : jk[1] < jk[2]}
<1>1. IsWellFoundedOn(OpToRel(<, Nat), Nat)
  BY NatLessThanWellFounded
<1>2. OpToRel(<, Nat) = Less
  BY DEF OpToRel
<1>3. PICK k \in T : \A j \in T : ~(<<j, k>> \in Less)
  <2> HIDE DEF Less
  <2> QED BY <1>1, <1>2, WFMin
<1>4. ASSUME NEW j \in T, j < k
      PROVE  FALSE
  <2>1. <<j, k>> \in Less
    BY <1>4
  <2> QED BY <1>3, <2>1
<1> QED BY <1>4

(* The smallest of a set of indices.                                       *)
LEMMA MinIsLeast ==
  ASSUME NEW S \in SUBSET Nat, S # {}
  PROVE  Min(S) \in S /\ \A k \in S : Min(S) <= k
<1>1. PICK k \in S : \A j \in S : k <= j
  BY LeastElement
<1> QED BY <1>1 DEF Min

-----------------------------------------------------------------------------
(* Types, as far as the proofs need them.  What the parser makes of a file *)
(* is left open: config is only read.                                      *)
Entries == [pid : Pids, entry : Nat]
IsProcess(r) ==
  /\ r = [st |-> r.st, path |-> r.path, told |-> r.told]
  /\ r.st \in Alive \cup {"none", "zombie"}
  /\ r.told \in BOOLEAN
ProcessTable ==
  /\ proc = [p \in Pids |-> proc[p]]
  /\ \A p \in Pids : IsProcess(proc[p])
TypesOK ==
  /\ table \in Seq(Entries)
  /\ i \in Nat /\ i >= 1
  /\ pc = "death" => dead \in Pids
  /\ failures \in Nat /\ running \in Int
  /\ ProcessTable

(* The records a pid can name.                                             *)
LEMMA KindsOfProcess ==
  /\ None.st = "none" /\ IsProcess(None)
  /\ Zombie.st = "zombie" /\ IsProcess(Zombie)
  /\ Dying.st = "dying" /\ IsProcess(Dying)
  /\ \A path : /\ IsProcess(Child(path)) /\ Child(path).path = path
                /\ Child(path).st \in {"forked", "copy"} /\ ~Child(path).told
BY DEF IsProcess, Alive, Process, None, Zombie, Dying, Child

(* One process changes, the others do not.                                 *)
Changes(p, r) ==
  /\ proc'[p] = r
  /\ \A q \in Pids : q # p => proc'[q] = proc[q]

(* An update of the process table at one pid.                              *)
LEMMA OneProcessChanges ==
  ASSUME ProcessTable, NEW p \in Pids, NEW r, IsProcess(r),
         proc' = [proc EXCEPT ![p] = r]
  PROVE  ProcessTable' /\ Changes(p, r)
<1>1. Changes(p, r) /\ proc' = [q \in Pids |-> proc'[q]]
  BY DEF ProcessTable, Changes
<1>2. \A q \in Pids : IsProcess(proc'[q])
  <2>1. \A q \in Pids : proc'[q] = r \/ proc'[q] = proc[q]
    BY <1>1 DEF Changes
  <2> HIDE DEF IsProcess
  <2> QED BY <2>1 DEF ProcessTable
<1> QED BY <1>1, <1>2 DEF ProcessTable, IsProcess

(* A fork() turns a free pid into a child.                                 *)
LEMMA ForkMakesCopy ==
  ASSUME ProcessTable, NEW p \in Pids, NEW path, Fork(path, p)
  PROVE  /\ ProcessTable' /\ Changes(p, Child(path))
         /\ proc[p] = None
BY KindsOfProcess, OneProcessChanges DEF Fork, Free

(* The child runs its program, or hears the signal.                        *)
LEMMA ProcessGoesOn ==
  ASSUME ProcessTable, NEW p \in Pids
  PROVE  /\ IsProcess(Running(p)) /\ Running(p).st = "running"
         /\ Running(p).path = proc[p].path /\ Running(p).told = proc[p].told
         /\ IsProcess(Told(p)) /\ Told(p).st = proc[p].st
         /\ Told(p).path = proc[p].path /\ Told(p).told
BY DEF ProcessTable, IsProcess, Alive, Process, Running, Told

(* SIGTERM to one pid: whatever process it names is the same, dies, or has *)
(* heard the signal.                                                       *)
LEMMA SigtermReaches ==
  ASSUME ProcessTable, NEW p \in Pids, Sigterm(p)
  PROVE  /\ ProcessTable'
         /\ \A q \in Pids : q # p => proc'[q] = proc[q]
         /\ \/ proc'[p] = Dying /\ proc[p].st \in {"forked", "copy", "running"}
            \/ proc'[p] = Told(p) /\ proc[p].st = "copy"
            \/ proc'[p] = proc[p] /\ proc[p] \in {None, Zombie, Dying}
<1>1. CASE proc' = [proc EXCEPT ![p] = Dying] /\ proc[p].st \in {"forked", "copy", "running"}
  BY <1>1, KindsOfProcess, OneProcessChanges DEF Changes
<1>2. CASE proc' = [proc EXCEPT ![p] = Told(p)] /\ proc[p].st = "copy"
  BY <1>2, ProcessGoesOn, OneProcessChanges DEF Changes
<1>3. CASE UNCHANGED proc /\ proc[p] \in {None, Zombie, Dying}
  BY <1>3 DEF ProcessTable, IsProcess
<1> QED BY <1>1, <1>2, <1>3 DEF Sigterm

(* Reaping frees one pid.                                                  *)
LEMMA ReapRemoves ==
  ASSUME ProcessTable, NEW p \in Pids, proc' = [proc EXCEPT ![p] = None]
  PROVE  ProcessTable' /\ Changes(p, None)
BY KindsOfProcess, OneProcessChanges

(* The first entry of the table with the pid of the dead.                  *)
LEMMA FirstMatch ==
  ASSUME TypesOK, Matches # {}
  PROVE  /\ Min(Matches) \in i..Len(table) /\ table[Min(Matches)].pid = dead
         /\ \A k \in i..Len(table) : table[k].pid = dead => Min(Matches) <= k
<1>1. Matches \in SUBSET Nat
  BY DEF Matches, TypesOK
<1> QED BY <1>1, MinIsLeast DEF Matches

(* What a restart does to the table, and to the processes.                 *)
LEMMA RestartReplaces ==
  ASSUME TypesOK, NEW k \in DOMAIN table, NEW p \in Pids,
         table' = [table EXCEPT ![k].pid = p]
  PROVE  /\ table' \in Seq(Entries) /\ Len(table') = Len(table)
         /\ table'[k].pid = p /\ table'[k].entry = table[k].entry
         /\ \A n \in DOMAIN table : n # k => table'[n] = table[n]
<1>1. table[k] \in Entries
  BY DEF TypesOK
<1> DEFINE e == [table[k] EXCEPT !.pid = p]
<1>2. e \in Entries /\ e.pid = p /\ e.entry = table[k].entry
  BY <1>1 DEF Entries
<1>3. table' = [table EXCEPT ![k] = e]
  OBVIOUS
<1> HIDE DEF e
<1> QED BY <1>2, <1>3 DEF TypesOK

(* An untouched process table stays one.                                   *)
LEMMA ProcessesStay ==
  ASSUME ProcessTable, proc' = proc
  PROVE  ProcessTable'
BY DEF ProcessTable, IsProcess

-----------------------------------------------------------------------------
(* What each step does to the variables that the invariants are about.  The*)
(* lemmas say once what the actions say, variable by variable.             *)
SameTable == table' = table /\ config' = config
SameHistory == reloaded' = reloaded /\ failures' = failures
SameElse == SameTable /\ SameHistory /\ handlers' = handlers /\ running' = running
Ended == pc' \in Ends /\ i' = 1 /\ table' = <<>> /\ running' = 0 /\ proc' = proc
         /\ SameHistory
StaysReloaded == reloaded => reloaded'
Reloads == reloaded' = TRUE

(* The tuples of variables, taken apart.                                   *)
LEMMA Untouched ==
  /\ tableVars' = tableVars => SameTable /\ running' = running
  /\ loopVars' = loopVars => pc' = pc /\ i' = i /\ dead' = dead
  /\ flagVars' = flagVars => handlers' = handlers
  /\ histVars' = histVars => SameHistory
BY Zenon DEF tableVars, loopVars, flagVars, histVars, SameTable, SameHistory

(* The end of myinit.                                                      *)
LEMMA EndDoes ==
  ASSUME NEW how \in Ends, End(how)
  PROVE  Ended
BY Untouched, Zenon DEF End, Ended

(* The effect of ReadConfig.                                               *)
LEMMA ReadConfigDoes ==
  ASSUME ReadConfig
  PROVE  /\ pc = "read" /\ pc' = "start" /\ i' = i /\ table' = <<>> /\ proc' = proc
         /\ handlers' = handlers /\ running' = running /\ SameHistory
BY Untouched, Zenon DEF ReadConfig, SameHistory

(* The effect of StartChild.                                               *)
LEMMA StartChildDoes ==
  ASSUME StartChild
  PROVE  /\ pc = "start" /\ pc' = "start" /\ i' = i + 1
         /\ config' = config /\ running' = running /\ handlers' = handlers /\ SameHistory
         /\ \E p \in Pids : /\ Fork(ExecPath(config[i]), p)
                            /\ table' = Append(table, [pid |-> p, entry |-> i])
BY Untouched, Zenon DEF StartChild, SameHistory

(* The effect of StartFails.                                               *)
LEMMA StartFailsDoes ==
  ASSUME StartFails
  PROVE  pc = "start" /\ pc' = "start" /\ i' = i + 1 /\ proc' = proc /\ SameElse
BY Untouched, Zenon DEF StartFails, SameElse

(* The effect of Started.                                                  *)
LEMMA StartedDoes ==
  ASSUME Started
  PROVE  /\ pc = "start" /\ i' = 1 /\ proc' = proc /\ SameTable /\ SameHistory
         /\ handlers' = TRUE
         /\ \/ handlers /\ pc' = "wait" /\ running' = running
            \/ ~handlers /\ pc' = "loop" /\ running' = Len(table)
BY Untouched, Zenon DEF Started, SameTable

(* The effect of TestLoop.                                                 *)
LEMMA TestLoopDoes ==
  ASSUME TestLoop
  PROVE  /\ pc = "loop" /\ i' = 1 /\ proc' = proc /\ SameTable
         /\ running' = running /\ handlers' = handlers /\ failures' = failures
         /\ \/ pc' \in {"leave", "wait"} /\ StaysReloaded
            \/ pc' = "stop" /\ Reloads
         /\ pc' = "wait" => ~(running <= 0)
<1>1. /\ pc = "loop" /\ i' = 1 /\ proc' = proc /\ SameTable
      /\ running' = running /\ handlers' = handlers /\ failures' = failures
  BY Untouched, Zenon DEF TestLoop
<1>2. /\ pc' = IF shutdown \/ (running <= 0 /\ ~reload) THEN "leave"
               ELSE IF reload THEN "stop" ELSE "wait"
      /\ reloaded' = (reloaded \/ pc' = "stop")
  BY Zenon DEF TestLoop
<1>3. /\ pc' \in {"leave", "wait", "stop"} /\ StaysReloaded
      /\ pc' = "stop" => Reloads
  BY <1>2, Zenon DEF StaysReloaded, Reloads
<1>4. pc' = "wait" => ~(running <= 0)
  BY <1>2
<1> QED BY <1>1, <1>3, <1>4, Zenon

(* The effect of StopChild on all but the processes.                       *)
LEMMA StopChildDoes ==
  ASSUME StopChild
  PROVE  /\ pc \in {"stop", "stop_all"}
         /\ pc' = pc /\ i <= Len(table) /\ i' = i + 1 /\ SameElse
BY Untouched, Zenon DEF StopChild, SameElse

(* StopChild sends to a pid of the table.                                  *)
LEMMA StopChildSends ==
  ASSUME TypesOK, StopChild
  PROVE  i \in DOMAIN table /\ table[i].pid \in Pids /\ Sigterm(table[i].pid)
<1>1. i \in DOMAIN table
  BY StopChildDoes DEF TypesOK
<1>2. table[i] \in Entries
  BY <1>1 DEF TypesOK
<1>3. table[i].pid \in Pids
  BY <1>2 DEF Entries
<1> QED BY <1>1, <1>3, Zenon DEF StopChild

(* The effect of StoppedChildren.                                          *)
LEMMA StoppedChildrenDoes ==
  ASSUME StoppedChildren
  PROVE  \/ Ended /\ pc' = "stopped"
         \/ /\ pc = "stop" /\ i > Len(table) /\ pc' = "drain" /\ i' = 1
            /\ proc' = proc /\ SameElse
<1>1. CASE pc = "stop_all"
  BY <1>1, EndDoes, Zenon DEF StoppedChildren, Ends, End
<1>2. CASE pc = "stop"
  BY <1>2, Untouched, Zenon DEF StoppedChildren, SameElse
<1> QED BY <1>1, <1>2, Zenon DEF StoppedChildren

(* The effect of Drain.                                                    *)
LEMMA DrainDoes ==
  ASSUME Drain
  PROVE  /\ pc = "drain" /\ pc' \in {"drain", "read"} /\ i' = i /\ SameElse
         /\ \/ proc' = proc
            \/ \E p \in Pids : proc' = [proc EXCEPT ![p] = None]
BY Untouched, Zenon DEF Drain, SameElse, Zombies

(* The effect of Reap.                                                     *)
LEMMA ReapDoes ==
  ASSUME NEW p \in Pids, Reap(p)
  PROVE  /\ pc = "wait" /\ proc[p] = Zombie /\ proc' = [proc EXCEPT ![p] = None]
         /\ dead' = p /\ i' = 1 /\ pc' = "death" /\ SameElse
BY Untouched, Zenon DEF Reap, SameElse, Zombies

(* The effect of NoneDied and NoChildren.                                  *)
LEMMA NoneDiedDoes ==
  ASSUME NoneDied \/ NoChildren
  PROVE  /\ pc = "wait" /\ i' = i /\ dead' = dead /\ proc' = proc /\ SameElse
         /\ pc' = "loop" \/ (pc' = "leave_freed" /\ Children = {})
BY Untouched, Zenon DEF NoneDied, NoChildren, SameElse

(* The effect of Restart.                                                  *)
LEMMA RestartDoes ==
  ASSUME Restart
  PROVE  LET k == Min(Matches)
         IN  /\ pc = "death" /\ pc' = pc /\ Matches # {} /\ i' = k + 1 /\ dead' = dead
             /\ config' = config /\ running' = running /\ handlers' = handlers
             /\ SameHistory
             /\ \E p \in Pids : /\ Fork(ExecPath(config[table[k].entry]), p)
                                /\ table' = [table EXCEPT ![k].pid = p]
BY Untouched, Zenon DEF Restart

(* The effect of RestartFails.                                             *)
LEMMA RestartFailsDoes ==
  ASSUME RestartFails
  PROVE  /\ pc = "death" /\ pc' = pc /\ Matches # {} /\ i' = Min(Matches) + 1
         /\ dead' = dead /\ proc' = proc /\ SameTable /\ handlers' = handlers
         /\ reloaded' = reloaded /\ running' = Max({running - 1, -1})
         /\ failures' = Min({failures + 1, MaxFailures})
BY Untouched, Zenon DEF RestartFails, SameTable

(* The effect of Handled.                                                  *)
LEMMA HandledDoes ==
  ASSUME Handled
  PROVE  pc = "death" /\ Matches = {} /\ pc' = "loop" /\ i' = 1 /\ proc' = proc /\ SameElse
BY Untouched, Zenon DEF Handled, SameElse

(* The effect of Leave.                                                    *)
LEMMA LeaveDoes ==
  ASSUME Leave
  PROVE  \/ Ended /\ (pc = "leave_freed" \/ pc' # "undefined")
         \/ /\ pc = "leave" /\ pc' = "stop_all" /\ i' = i /\ proc' = proc /\ SameElse
<1>1. CASE ~shutdown
  <2>1. Ended
    BY <1>1, EndDoes, Zenon DEF Leave, Ends
  <2>2. pc' = "nothing_to_run"
    BY <1>1, Zenon DEF Leave, End
  <2> QED BY <2>1, <2>2
<1>2. CASE shutdown /\ pc = "leave_freed"
  BY <1>2, EndDoes, Zenon DEF Leave, Ends
<1>3. CASE shutdown /\ pc = "leave"
  BY <1>3, Untouched, Zenon DEF Leave, SameElse
<1> QED BY <1>1, <1>2, <1>3, Zenon DEF Leave

(* The effect of ReadFails and Kill.                                       *)
LEMMA KilledDoes ==
  ASSUME ReadFails \/ Kill
  PROVE  Ended /\ pc' # "undefined"
<1>1. Ended
  BY EndDoes, Zenon DEF ReadFails, Kill, Ends
<1>2. pc' = "no_config" \/ pc' = "killed"
  BY Zenon DEF ReadFails, Kill, End
<1> QED BY <1>1, <1>2

(* A signal that is only noted, and a step of nobody.                      *)
LEMMA SignalDoes ==
  ASSUME Sighup \/ Shutdown \/ UNCHANGED vars
  PROVE  pc' = pc /\ i' = i /\ dead' = dead /\ proc' = proc /\ SameElse
<1>1. CASE Sighup
  BY <1>1, Untouched, Zenon DEF Sighup, SameElse, SameHistory
<1>2. CASE Shutdown
  BY <1>2, Untouched, Zenon DEF Shutdown, SameElse
<1>3. CASE UNCHANGED vars
  BY <1>3, Untouched, Zenon DEF vars, SameElse
<1> QED BY <1>1, <1>2, <1>3

(* The effect of Exec and ChildDies.                                       *)
LEMMA ChildDoes ==
  ASSUME NEW p \in Pids, Exec(p) \/ ChildDies(p)
  PROVE  /\ pc' = pc /\ i' = i /\ dead' = dead /\ SameElse
         /\ \/ /\ proc[p].st \in {"forked", "copy"}
               /\ proc' = [proc EXCEPT ![p] = Running(p)]
            \/ proc[p].st \in Alive /\ proc' = [proc EXCEPT ![p] = Zombie]
<1>1. CASE Exec(p)
  BY <1>1, Untouched, Zenon DEF Exec, Becomes, SameElse
<1>2. CASE ChildDies(p)
  BY <1>2, Untouched, Zenon DEF ChildDies, Becomes, SameElse
<1> QED BY <1>1, <1>2

(* The count of failed restarts is never 0 again.                          *)
LEMMA LastFailure ==
  ASSUME failures \in Nat
  PROVE  Min({failures + 1, MaxFailures}) \in Nat \ {0}
BY MinIsLeast, BoundsAssumption

(* running_processes after a restart that failed.                          *)
LEMMA RunningIsLess ==
  ASSUME running \in Int, running' = Max({running - 1, -1})
  PROVE  running' \in Int /\ (running' <= running - 1 \/ running' = -1)
<1> DEFINE S == {running - 1, -1}
<1>1. \E m \in S : \A n \in S : n <= m
  OBVIOUS
<1>2. Max(S) \in S
  BY <1>1 DEF Max
<1> QED BY <1>2

-----------------------------------------------------------------------------
(* The types hold in every reachable state, for every set of pids and every*)
(* configuration file.                                                     *)
THEOREM TypesHold == Spec => []TypesOK
<1>1. Init => TypesOK
  BY KindsOfProcess DEF Init, TypesOK, ProcessTable
<1>2. TypesOK /\ [Next]_vars => TypesOK'
  <2> SUFFICES ASSUME TypesOK, [Next]_vars
               PROVE  TypesOK'
    OBVIOUS
  <2> USE ProcessesStay DEF SameElse, SameTable, SameHistory
  <2>1. CASE ReadConfig
    BY <2>1, ReadConfigDoes DEF TypesOK
  <2>2. ASSUME Ended
        PROVE  TypesOK'
    BY <2>2 DEF Ended, Ends, TypesOK
  <2>3. CASE StartChild
    <3>1. PICK p \in Pids :
            /\ Fork(ExecPath(config[i]), p)
            /\ table' = Append(table, [pid |-> p, entry |-> i])
      BY <2>3, StartChildDoes
    <3>2. ProcessTable'
      BY <3>1, ForkMakesCopy DEF TypesOK
    <3>3. table' \in Seq(Entries)
      BY <3>1 DEF TypesOK, Entries
    <3> QED BY <2>3, <3>2, <3>3, StartChildDoes DEF TypesOK
  <2>4. CASE StartFails
    BY <2>4, StartFailsDoes DEF TypesOK
  <2>5. CASE Started
    BY <2>5, StartedDoes DEF TypesOK
  <2>6. CASE TestLoop
    BY <2>6, TestLoopDoes DEF TypesOK
  <2>7. CASE StopChild
    <3>1. ProcessTable'
      BY <2>7, StopChildSends, SigtermReaches, Zenon DEF TypesOK
    <3> QED BY <2>7, <3>1, StopChildDoes DEF TypesOK
  <2>8. CASE StoppedChildren
    BY <2>2, <2>8, StoppedChildrenDoes DEF TypesOK
  <2>9. CASE Drain
    <3>1. ProcessTable'
      BY <2>9, DrainDoes, ReapRemoves DEF TypesOK
    <3> QED BY <2>9, <3>1, DrainDoes DEF TypesOK
  <2>10. ASSUME NEW p \in Pids, Reap(p)
         PROVE  TypesOK'
    <3>1. ProcessTable'
      BY <2>10, ReapDoes, ReapRemoves DEF TypesOK
    <3> QED BY <2>10, <3>1, ReapDoes DEF TypesOK
  <2>11. CASE NoneDied \/ NoChildren
    BY <2>11, NoneDiedDoes DEF TypesOK
  <2>12. CASE Restart
    <3> DEFINE k == Min(Matches)
    <3>1. k \in DOMAIN table /\ k \in Nat /\ k >= 1
      BY <2>12, RestartDoes, FirstMatch DEF TypesOK
    <3>2. PICK p \in Pids :
            /\ Fork(ExecPath(config[table[k].entry]), p)
            /\ table' = [table EXCEPT ![k].pid = p]
      BY <2>12, RestartDoes
    <3>3. pc' = pc /\ i' = k + 1 /\ dead' = dead /\ SameHistory /\ running' = running
      BY <2>12, RestartDoes
    <3> HIDE DEF k
    <3>4. table' \in Seq(Entries)
      BY <3>1, <3>2, RestartReplaces
    <3>5. ProcessTable'
      BY <3>2, ForkMakesCopy DEF TypesOK
    <3> QED BY <3>1, <3>3, <3>4, <3>5 DEF TypesOK
  <2>13. CASE RestartFails
    <3>1. failures' \in Nat /\ running' \in Int
      BY <2>13, RestartFailsDoes, LastFailure, RunningIsLess DEF TypesOK
    <3> QED BY <2>13, <3>1, RestartFailsDoes, FirstMatch DEF TypesOK
  <2>14. CASE Handled
    BY <2>14, HandledDoes DEF TypesOK
  <2>15. CASE Leave
    BY <2>2, <2>15, LeaveDoes DEF TypesOK
  <2>16. CASE Sighup \/ Shutdown \/ UNCHANGED vars
    BY <2>16, SignalDoes DEF TypesOK
  <2>17. CASE ReadFails \/ Kill
    BY <2>2, <2>17, KilledDoes
  <2>18. ASSUME NEW p \in Pids, Exec(p) \/ ChildDies(p)
         PROVE  TypesOK'
    <3>1. ProcessTable'
      BY <2>18, ChildDoes, OneProcessChanges, ProcessGoesOn, KindsOfProcess DEF TypesOK
    <3> QED BY <2>18, <3>1, ChildDoes DEF TypesOK
  <2> QED
    BY <2>1, <2>3, <2>4, <2>5, <2>6, <2>7, <2>8, <2>9, <2>10, <2>11, <2>12,
       <2>13, <2>14, <2>15, <2>16, <2>17, <2>18 DEF Next, MyInitStep, Environment
<1> QED BY <1>1, <1>2, PTL DEF Spec

-----------------------------------------------------------------------------
(* Uncared(p): the child runs and has not heard a SIGTERM.  From its fork()*)
(* on its pid is in the table; a reload and the shutdown leave none behind *)
(* the entries they are through with; the pid of the dead may be that of a *)
(* new child only in an entry that was handled already.                    *)
Uncared(p) == proc[p].st \in {"forked", "copy", "running"} /\ ~proc[p].told
Listed(p) == \E k \in DOMAIN table : table[k].pid = p
ListedFrom(p) == \E k \in DOMAIN table : k >= i /\ table[k].pid = p
ListedBefore(p) == \E k \in DOMAIN table : k < i /\ table[k].pid = p
KnowsChildren ==
  \A p \in Pids : Uncared(p) =>
    /\ pc \in {"start", "loop", "wait", "death", "leave"} => Listed(p)
    /\ pc \in {"stop", "stop_all"} => ListedFrom(p)
    /\ pc = "death" /\ p = dead => ListedBefore(p)
    /\ pc # "read" /\ pc # "drain"
    /\ pc = "leave" => i = 1

(* Nobody is added to the uncared, and the table stays as it is.           *)
FewerUncared == \A p \in Pids : Uncared(p)' => Uncared(p)

(* Nothing to show where the table stays and nobody is added.              *)
LEMMA KnowsStill ==
  ASSUME KnowsChildren, FewerUncared, pc' = pc, i' = i, dead' = dead, SameTable
  PROVE  KnowsChildren'
BY DEF KnowsChildren, FewerUncared, SameTable, Listed, ListedFrom, ListedBefore

(* No process changes: no child is added.                                  *)
LEMMA FewerWhenSame ==
  ASSUME proc' = proc
  PROVE  FewerUncared
BY DEF FewerUncared, Uncared

(* A reap, a death, a signal or an exec() adds none.                       *)
LEMMA FewerAfterChange ==
  ASSUME ProcessTable, NEW p \in Pids, NEW r, Changes(p, r),
         r \in {None, Zombie, Dying, Running(p)},
         r = Running(p) => proc[p].st \in {"forked", "copy"}
  PROVE  FewerUncared /\ (r # Running(p) => ~Uncared(p)')
BY KindsOfProcess, ProcessGoesOn DEF FewerUncared, Uncared, Changes

(* A fork() adds its child only.                                           *)
LEMMA ForkAddsOne ==
  ASSUME ProcessTable, NEW p \in Pids, NEW path, Fork(path, p)
  PROVE  /\ ~Uncared(p)
         /\ \A q \in Pids : q # p => (Uncared(q)' => Uncared(q))
BY ForkMakesCopy, KindsOfProcess DEF Uncared, Changes

(* A process that got the signal is not uncared for any more.              *)
LEMMA SigtermSpares ==
  ASSUME ProcessTable, NEW p \in Pids, NEW r,
         r \in {Dying, Told(p)} \/ (r = proc[p] /\ r \in {None, Zombie, Dying})
  PROVE  r.st \notin {"forked", "copy", "running"} \/ r.told
BY KindsOfProcess, ProcessGoesOn

(* One step of stop_children_processes.                                    *)
LEMMA StopChildKnows ==
  ASSUME TypesOK, KnowsChildren, StopChild
  PROVE  KnowsChildren'
<1>1. PICK p \in Pids : i \in DOMAIN table /\ p = table[i].pid /\ Sigterm(p)
  BY StopChildSends
<1>2. /\ \A q \in Pids : q # p => proc'[q] = proc[q]
      /\ \/ proc'[p] = Dying /\ proc[p].st \in {"forked", "copy", "running"}
         \/ proc'[p] = Told(p) /\ proc[p].st = "copy"
         \/ proc'[p] = proc[p] /\ proc[p] \in {None, Zombie, Dying}
  BY <1>1, SigtermReaches DEF TypesOK
<1>3. ~Uncared(p)' /\ \A q \in Pids : q # p => (Uncared(q)' => Uncared(q))
  <2>1. ~Uncared(p)'
    BY <1>1, <1>2, SigtermSpares DEF Uncared, TypesOK
  <2> QED BY <1>1, <1>2, <2>1 DEF Uncared
<1>4. /\ pc \in {"stop", "stop_all"} /\ pc' = pc /\ i' = i + 1
      /\ table' = table
  BY StopChildDoes DEF SameElse, SameTable
<1>5. ASSUME NEW q \in Pids, Uncared(q)'
      PROVE  ListedFrom(q)'
  <2>1. q # p /\ Uncared(q)
    BY <1>3, <1>5
  <2>2. PICK k \in DOMAIN table : k >= i /\ table[k].pid = q
    BY <2>1, <1>4 DEF KnowsChildren, ListedFrom
  <2>3. k # i
    BY <2>1, <2>2, <1>1
  <2>4. k >= i + 1
    BY <2>2, <2>3 DEF TypesOK
  <2> QED BY <2>2, <2>4, <1>4 DEF ListedFrom
<1> QED BY <1>4, <1>5 DEF KnowsChildren

(* The reaped pid is dead, and no new child has it yet.                    *)
LEMMA ReapKnows ==
  ASSUME TypesOK, KnowsChildren, NEW p \in Pids, Reap(p)
  PROVE  KnowsChildren'
<1>1. FewerUncared /\ ~Uncared(p)'
  <2>1. ProcessTable /\ Changes(p, None)
    BY ReapDoes, ReapRemoves DEF TypesOK
  <2>2. Running(p).st # None.st
    BY <2>1, KindsOfProcess, ProcessGoesOn
  <2> QED BY <2>1, <2>2, FewerAfterChange
<1>2. pc = "wait" /\ pc' = "death" /\ dead' = p /\ table' = table
  BY ReapDoes DEF SameElse, SameTable
<1>3. \A q \in Pids : Uncared(q)' => Listed(q)' /\ q # p
  BY <1>1, <1>2 DEF KnowsChildren, FewerUncared, Listed
<1> QED BY <1>2, <1>3 DEF KnowsChildren

(* A restart: the pid of the dead leaves one entry, and the new one is in  *)
(* it.                                                                     *)
LEMMA RestartKnows ==
  ASSUME TypesOK, KnowsChildren, Restart
  PROVE  KnowsChildren'
<1> DEFINE k == Min(Matches)
<1>1. /\ k \in DOMAIN table /\ k \in i..Len(table) /\ table[k].pid = dead
      /\ pc = "death" /\ pc' = "death" /\ i' = k + 1 /\ dead' = dead
  BY RestartDoes, FirstMatch DEF TypesOK
<1>2. PICK p \in Pids :
        /\ Fork(ExecPath(config[table[k].entry]), p)
        /\ table' = [table EXCEPT ![k].pid = p]
  BY RestartDoes
<1> HIDE DEF k
<1>3. /\ DOMAIN table' = DOMAIN table /\ table'[k].pid = p
      /\ \A n \in DOMAIN table : n # k => table'[n] = table[n]
  BY <1>1, <1>2, RestartReplaces DEF TypesOK
<1>4. \A q \in Pids : q # p => (Uncared(q)' => Uncared(q))
  BY <1>2, ForkAddsOne DEF TypesOK
<1>5. k < i' /\ i <= k /\ i \in Nat /\ k \in Nat
  BY <1>1 DEF TypesOK
<1>6. ASSUME NEW q \in Pids, Uncared(q)'
      PROVE  Listed(q)' /\ (q = dead => ListedBefore(q)')
  <2>1. CASE q = p
    BY <2>1, <1>1, <1>3, <1>5 DEF Listed, ListedBefore
  <2>2. CASE q # p /\ q # dead
    <3>1. PICK n \in DOMAIN table : table[n].pid = q
      BY <2>2, <1>1, <1>4, <1>6 DEF KnowsChildren, Listed
    <3>2. n # k
      BY <3>1, <2>2, <1>1
    <3> QED BY <3>1, <3>2, <1>3, <2>2 DEF Listed
  <2>3. CASE q # p /\ q = dead
    <3>1. PICK n \in DOMAIN table : n < i /\ table[n].pid = q
      BY <2>3, <1>1, <1>4, <1>6 DEF KnowsChildren, ListedBefore
    <3>2. n # k /\ n < i'
      BY <3>1, <1>1, <1>5 DEF TypesOK
    <3> QED BY <3>1, <3>2, <1>3 DEF Listed, ListedBefore
  <2> QED BY <2>1, <2>2, <2>3
<1> QED BY <1>1, <1>6 DEF KnowsChildren

(* myinit knows every uncared child in every reachable state.              *)
LEMMA KnowsAlways == Spec => []KnowsChildren
<1>1. Init => KnowsChildren
  BY KindsOfProcess DEF Init, KnowsChildren, Uncared
<1>2. TypesOK /\ KnowsChildren /\ [Next]_vars => KnowsChildren'
  <2> SUFFICES ASSUME TypesOK, KnowsChildren, [Next]_vars
               PROVE  KnowsChildren'
    OBVIOUS
  <2> USE FewerWhenSame DEF SameElse, SameTable
  <2>1. CASE ReadConfig
    BY <2>1, ReadConfigDoes DEF KnowsChildren, FewerUncared
  <2>2. ASSUME Ended
        PROVE  KnowsChildren'
    BY <2>2 DEF Ended, Ends, KnowsChildren
  <2>3. CASE StartChild
    <3>1. PICK p \in Pids :
            /\ Fork(ExecPath(config[i]), p)
            /\ table' = Append(table, [pid |-> p, entry |-> i])
      BY <2>3, StartChildDoes
    <3>2. /\ Len(table) + 1 \in DOMAIN table' /\ table'[Len(table) + 1].pid = p
          /\ \A k \in DOMAIN table : k \in DOMAIN table' /\ table'[k] = table[k]
      BY <3>1 DEF TypesOK, Entries
    <3>3. \A q \in Pids : q # p => (Uncared(q)' => Uncared(q))
      BY <3>1, ForkAddsOne DEF TypesOK
    <3>4. pc = "start" /\ pc' = "start"
      BY <2>3, StartChildDoes
    <3> QED BY <3>2, <3>3, <3>4 DEF KnowsChildren, Listed
  <2>4. CASE StartFails
    BY <2>4, StartFailsDoes DEF KnowsChildren, FewerUncared, Listed
  <2>5. CASE Started
    BY <2>5, StartedDoes DEF KnowsChildren, FewerUncared, Listed
  <2>6. CASE TestLoop
    BY <2>6, TestLoopDoes DEF KnowsChildren, FewerUncared, Listed, ListedFrom, TypesOK
  <2>7. CASE StopChild
    BY <2>7, StopChildKnows
  <2>8. CASE StoppedChildren
    <3>1. CASE pc = "stop" /\ i > Len(table) /\ pc' = "drain" /\ proc' = proc
      <4>1. \A p \in Pids : ~Uncared(p)
        BY <3>1 DEF KnowsChildren, ListedFrom, TypesOK
      <4> QED BY <3>1, <4>1 DEF KnowsChildren, FewerUncared
    <3> QED BY <2>2, <2>8, <3>1, StoppedChildrenDoes
  <2>9. CASE Drain
    <3>1. FewerUncared
      <4>1. ASSUME NEW p \in Pids, proc' = [proc EXCEPT ![p] = None]
            PROVE  FewerUncared
        <5>1. Changes(p, None) /\ Running(p).st # None.st
          BY <4>1, ReapRemoves, KindsOfProcess, ProcessGoesOn DEF TypesOK
        <5> QED BY <5>1, FewerAfterChange DEF TypesOK
      <4> QED BY <2>9, <4>1, DrainDoes
    <3> QED BY <2>9, <3>1, DrainDoes DEF KnowsChildren, FewerUncared
  <2>10. ASSUME NEW p \in Pids, Reap(p)
         PROVE  KnowsChildren'
    BY <2>10, ReapKnows
  <2>11. CASE NoneDied \/ NoChildren
    BY <2>11, NoneDiedDoes DEF KnowsChildren, FewerUncared, Listed
  <2>12. CASE Restart
    BY <2>12, RestartKnows
  <2>13. CASE RestartFails
    <3>1. /\ pc = "death" /\ pc' = "death" /\ dead' = dead /\ table' = table
          /\ i' \in Nat /\ i' >= i
      BY <2>13, RestartFailsDoes, FirstMatch DEF TypesOK
    <3>2. FewerUncared
      BY <2>13, RestartFailsDoes
    <3> QED BY <3>1, <3>2 DEF KnowsChildren, FewerUncared, Listed, ListedBefore, TypesOK
  <2>14. CASE Handled
    BY <2>14, HandledDoes DEF KnowsChildren, FewerUncared, Listed
  <2>15. CASE Leave
    <3>1. CASE pc = "leave" /\ pc' = "stop_all" /\ i' = i /\ proc' = proc /\ SameElse
      BY <3>1 DEF KnowsChildren, FewerUncared, Listed, ListedFrom, TypesOK
    <3> QED BY <2>2, <2>15, <3>1, LeaveDoes
  <2>16. CASE Sighup \/ Shutdown \/ UNCHANGED vars
    BY <2>16, SignalDoes, KnowsStill
  <2>17. CASE ReadFails \/ Kill
    BY <2>2, <2>17, KilledDoes
  <2>18. ASSUME NEW p \in Pids, Exec(p) \/ ChildDies(p)
         PROVE  KnowsChildren'
    <3>1. FewerUncared
      <4>1. Zombie # Running(p)
        BY KindsOfProcess, ProcessGoesOn DEF TypesOK
      <4> QED BY <2>18, <4>1, ChildDoes, OneProcessChanges, ProcessGoesOn, KindsOfProcess,
                 FewerAfterChange DEF TypesOK
    <3> QED BY <2>18, <3>1, ChildDoes, KnowsStill
  <2> QED
    BY <2>1, <2>3, <2>4, <2>5, <2>6, <2>7, <2>8, <2>9, <2>10, <2>11, <2>12,
       <2>13, <2>14, <2>15, <2>16, <2>17, <2>18 DEF Next, MyInitStep, Environment
<1> QED BY <1>1, <1>2, TypesHold, PTL DEF Spec

(* myinit never forgets a child that runs and has not been told to stop,   *)
(* for any number of pids, any files, signals, deaths and failing forks.   *)
THEOREM EveryChildIsTrackedHolds == Spec => []EveryChildIsTracked
<1>1. TypesOK /\ KnowsChildren => EveryChildIsTracked
  <2> SUFFICES ASSUME TypesOK, KnowsChildren, pc \in {"loop", "wait", "death", "stop_all"},
                      NEW p \in LiveChildren, ~proc[p].told, proc[p].st # "dying"
               PROVE  p \in Tracked
    BY DEF EveryChildIsTracked
  <2>1. p \in Pids /\ Uncared(p)
    BY DEF LiveChildren, Alive, Uncared
  <2>2. Listed(p)
    BY <2>1 DEF KnowsChildren, Listed, ListedFrom
  <2> QED BY <2>2 DEF Listed, Tracked
<1> QED BY <1>1, TypesHold, KnowsAlways, PTL

-----------------------------------------------------------------------------
(* While no restart has failed: no pid is in the table twice, and each     *)
(* names a child with the program of its entry, alive or not yet reaped,   *)
(* but for the entry of the dead until it is handled.                      *)
Right(k) ==
  LET child == proc[table[k].pid]
  IN  \/ child \in {Zombie, Dying}
      \/ child.st # "none" /\ child.path = ExecPath(config[table[k].entry])
Pending(k) == pc = "death" /\ table[k].pid = dead /\ k >= i
UsesTable == pc \in {"start", "loop", "stop", "stop_all", "wait", "death", "leave"}
TableRight ==
  failures = 0 /\ UsesTable =>
    /\ \A k, n \in DOMAIN table : table[k].pid = table[n].pid => k = n
    /\ \A k \in DOMAIN table : Right(k) \/ Pending(k)

(* The processes of the right entries do not change in a way that matters. *)
RightStays == \A p \in Pids :
  \/ proc'[p] \in {Zombie, Dying}
  \/ proc'[p].st = proc[p].st /\ proc'[p].path = proc[p].path /\ proc[p] \notin {Zombie, Dying}
  \/ proc'[p].st # "none" /\ proc[p].st # "none" /\ proc'[p].path = proc[p].path
       /\ proc[p] \notin {Zombie, Dying}

(* A right entry is right after a step that keeps the table.               *)
LEMMA EntryStaysRight ==
  ASSUME TypesOK, RightStays, SameTable, NEW k \in DOMAIN table, Right(k)
  PROVE  Right(k)'
<1>1. table[k] \in Entries
  BY DEF TypesOK
<1>2. PICK p \in Pids : p = table[k].pid
  BY <1>1 DEF Entries
<1> QED BY <1>2 DEF RightStays, SameTable, Right

(* No process changes: right entries stay right.                           *)
LEMMA RightWhenSame ==
  ASSUME TypesOK, proc' = proc
  PROVE  RightStays
BY DEF RightStays

(* A child that dies, runs its program or hears a signal keeps its entry   *)
(* right.                                                                  *)
LEMMA RightAfterChange ==
  ASSUME TypesOK, NEW p \in Pids, NEW r, Changes(p, r),
         \/ r \in {Zombie, Dying}
         \/ proc[p].st \in {"forked", "copy"} /\ r \in {Running(p), Told(p)}
  PROVE  RightStays
<1>1. \A q \in Pids : q # p => proc'[q] = proc[q]
  BY DEF Changes
<1>2. CASE r \in {Zombie, Dying}
  BY <1>1, <1>2 DEF RightStays, Changes
<1>3. CASE proc[p].st \in {"forked", "copy"} /\ r \in {Running(p), Told(p)}
  BY <1>1, <1>3, ProcessGoesOn, KindsOfProcess DEF RightStays, Changes, TypesOK
<1> QED BY <1>2, <1>3

(* A fork takes a pid that no right entry has.                             *)
LEMMA FreePidIsNotRight ==
  ASSUME NEW p \in Pids, proc[p] = None, NEW k \in DOMAIN table, Right(k)
  PROVE  table[k].pid # p
BY KindsOfProcess DEF Right

(* A fork() keeps the right entries.                                       *)
LEMMA ForkKeepsRight ==
  ASSUME TypesOK, NEW p \in Pids, NEW path, Fork(path, p),
         NEW k \in DOMAIN table, Right(k), k \in DOMAIN table', table'[k] = table[k],
         config' = config
  PROVE  Right(k)'
<1>1. table[k] \in Entries
  BY DEF TypesOK
<1>2. PICK q \in Pids : q = table[k].pid
  BY <1>1 DEF Entries
<1>3. proc[p] = None /\ Changes(p, Child(path))
  BY ForkMakesCopy DEF TypesOK
<1>4. q # p
  BY <1>2, <1>3, FreePidIsNotRight
<1> QED BY <1>2, <1>3, <1>4 DEF Changes, Right

(* Steps that change neither the table nor the pending entry.              *)
LEMMA RightStill ==
  ASSUME TypesOK, TableRight, RightStays, SameTable, failures' = failures,
         UsesTable' => UsesTable,
         \A k \in DOMAIN table : Pending(k) => Pending(k)'
  PROVE  TableRight'
<1>1. table' = table
  BY DEF SameTable
<1> QED BY <1>1, EntryStaysRight DEF TableRight

(* The entry of a child just started is right, and its pid is new.         *)
LEMMA StartChildRight ==
  ASSUME TypesOK, TableRight, StartChild
  PROVE  TableRight'
<1>1. PICK p \in Pids :
        /\ Fork(ExecPath(config[i]), p)
        /\ table' = Append(table, [pid |-> p, entry |-> i])
  BY StartChildDoes
<1>2. pc = "start" /\ config' = config /\ failures' = failures
  BY StartChildDoes DEF SameHistory
<1>3. PICK last \in Nat : last = Len(table) + 1
  BY DEF TypesOK
<1>4. /\ DOMAIN table' = DOMAIN table \cup {last} /\ last \notin DOMAIN table
      /\ table'[last].pid = p /\ table'[last].entry = i
      /\ \A k \in DOMAIN table : table'[k] = table[k]
  BY <1>1, <1>3 DEF TypesOK, Entries
<1>5. Right(last)'
  <2>1. proc'[p].st # "none" /\ proc'[p].path = ExecPath(config[i])
    BY <1>1, ForkMakesCopy, KindsOfProcess DEF Changes, TypesOK
  <2> QED BY <2>1, <1>2, <1>4 DEF Right
<1>6. SUFFICES ASSUME failures = 0
               PROVE  /\ \A k, n \in DOMAIN table' : table'[k].pid = table'[n].pid => k = n
                      /\ \A k \in DOMAIN table' : Right(k)'
  BY <1>2 DEF TableRight
<1>7. \A k \in DOMAIN table : Right(k)
  BY <1>2, <1>6 DEF TableRight, UsesTable, Pending
<1>8. \A k \in DOMAIN table : Right(k)'
  BY <1>1, <1>2, <1>4, <1>7, ForkKeepsRight
<1>9. \A k \in DOMAIN table : table[k].pid # p
  BY <1>1, <1>7, ForkMakesCopy, FreePidIsNotRight DEF TypesOK
<1>10. \A k, n \in DOMAIN table : table[k].pid = table[n].pid => k = n
  BY <1>2, <1>6 DEF TableRight, UsesTable
<1>11. \A k, n \in DOMAIN table' : table'[k].pid = table'[n].pid => k = n
  BY <1>4, <1>9, <1>10
<1> QED BY <1>4, <1>5, <1>8, <1>11

(* SIGTERM does not make an entry wrong.                                   *)
LEMMA StopChildRight ==
  ASSUME TypesOK, TableRight, StopChild
  PROVE  TableRight'
<1>1. PICK p \in Pids : p = table[i].pid /\ Sigterm(p)
  BY StopChildSends
<1>2. RightStays
  <2>1. CASE proc'[p] = proc[p]
    BY <1>1, <2>1, SigtermReaches DEF RightStays, TypesOK
  <2>2. CASE proc'[p] # proc[p]
    <3>1. Changes(p, proc'[p])
      BY <1>1, SigtermReaches DEF Changes, TypesOK
    <3>2. proc'[p] = Dying \/ (proc'[p] = Told(p) /\ proc[p].st = "copy")
      BY <1>1, <2>2, SigtermReaches DEF TypesOK
    <3> QED BY <3>1, <3>2, RightAfterChange
  <2> QED BY <2>1, <2>2
<1>3. pc' = pc /\ pc # "death" /\ SameTable /\ failures' = failures
  BY StopChildDoes DEF SameElse, SameHistory
<1> QED BY <1>2, <1>3, RightStill DEF Pending, UsesTable

(* The entry of a child just reaped is pending, the others stay right.     *)
LEMMA ReapRight ==
  ASSUME TypesOK, TableRight, NEW p \in Pids, Reap(p)
  PROVE  TableRight'
<1>1. /\ pc = "wait" /\ pc' = "death" /\ dead' = p /\ i' = 1
      /\ table' = table /\ config' = config /\ failures' = failures
  BY ReapDoes DEF SameElse, SameTable, SameHistory
<1>2. \A q \in Pids : q # p => proc'[q] = proc[q]
  BY ReapDoes, ReapRemoves DEF Changes, TypesOK
<1>3. SUFFICES ASSUME failures = 0
               PROVE  /\ \A k, n \in DOMAIN table : table[k].pid = table[n].pid => k = n
                      /\ \A k \in DOMAIN table : Right(k)' \/ Pending(k)'
  BY <1>1 DEF TableRight
<1>4. \A k, n \in DOMAIN table : table[k].pid = table[n].pid => k = n
  BY <1>1, <1>3 DEF TableRight, UsesTable
<1>5. ASSUME NEW k \in DOMAIN table
      PROVE  Right(k)' \/ Pending(k)'
  <2>1. Right(k)
    BY <1>1, <1>3 DEF TableRight, UsesTable, Pending
  <2>2. table[k] \in Entries
    BY DEF TypesOK
  <2>3. PICK q \in Pids : q = table[k].pid
    BY <2>2 DEF Entries
  <2>4. CASE q = p
    BY <1>1, <2>3, <2>4 DEF Pending, TypesOK
  <2>5. CASE q # p
    BY <1>1, <1>2, <2>1, <2>3, <2>5 DEF Right
  <2> QED BY <2>4, <2>5
<1> QED BY <1>4, <1>5

(* The pending entry is right after its restart; no other was pending.     *)
LEMMA RestartRight ==
  ASSUME TypesOK, TableRight, Restart
  PROVE  TableRight'
<1>1. PICK k \in DOMAIN table : k = Min(Matches)
  BY RestartDoes, FirstMatch DEF TypesOK
<1>2. /\ table[k].pid = dead /\ k >= i /\ i' = k + 1 /\ dead' = dead
      /\ pc = "death" /\ pc' = "death" /\ config' = config /\ failures' = failures
  BY <1>1, RestartDoes, FirstMatch DEF SameHistory, TypesOK
<1>3. PICK p \in Pids :
        /\ Fork(ExecPath(config[table[k].entry]), p)
        /\ table' = [table EXCEPT ![k].pid = p]
  BY <1>1, RestartDoes
<1>4. /\ DOMAIN table' = DOMAIN table
      /\ table'[k].pid = p /\ table'[k].entry = table[k].entry
      /\ \A n \in DOMAIN table : n # k => table'[n] = table[n]
  BY <1>3, RestartReplaces DEF TypesOK
<1>5. Right(k)'
  <2>1. proc'[p].st # "none" /\ proc'[p].path = ExecPath(config[table[k].entry])
    BY <1>3, ForkMakesCopy, KindsOfProcess DEF Changes, TypesOK
  <2> QED BY <2>1, <1>2, <1>4 DEF Right
<1>6. SUFFICES ASSUME failures = 0
               PROVE  /\ \A m, n \in DOMAIN table : table'[m].pid = table'[n].pid => m = n
                      /\ \A n \in DOMAIN table : Right(n)'
  BY <1>2, <1>4 DEF TableRight
<1>7. /\ \A m, n \in DOMAIN table : table[m].pid = table[n].pid => m = n
      /\ \A n \in DOMAIN table : n # k => Right(n)
  BY <1>2, <1>6 DEF TableRight, UsesTable, Pending
<1>8. \A n \in DOMAIN table : n # k => Right(n)'
  BY <1>2, <1>3, <1>4, <1>7, ForkKeepsRight
<1>9. \A n \in DOMAIN table : n # k => table[n].pid # p
  BY <1>3, <1>7, ForkMakesCopy, FreePidIsNotRight DEF TypesOK
<1> QED BY <1>4, <1>5, <1>7, <1>8, <1>9

(* While no restart has failed, the table is right in every reachable      *)
(* state.                                                                  *)
LEMMA RightAlways == Spec => []TableRight
<1>1. Init => TableRight
  BY DEF Init, TableRight, UsesTable
<1>2. TypesOK /\ TableRight /\ [Next]_vars => TableRight'
  <2> SUFFICES ASSUME TypesOK, TableRight, [Next]_vars
               PROVE  TableRight'
    OBVIOUS
  <2> USE RightWhenSame DEF SameElse, SameHistory, UsesTable, Pending
  <2>1. CASE ReadConfig
    BY <2>1, ReadConfigDoes DEF TableRight
  <2>2. ASSUME Ended
        PROVE  TableRight'
    BY <2>2 DEF Ended, Ends, TableRight
  <2>3. CASE StartChild
    BY <2>3, StartChildRight
  <2>4. CASE StartFails
    BY <2>4, StartFailsDoes, RightStill
  <2>5. CASE Started
    BY <2>5, StartedDoes, RightStill
  <2>6. CASE TestLoop
    BY <2>6, TestLoopDoes, RightStill
  <2>7. CASE StopChild
    BY <2>7, StopChildRight
  <2>8. CASE StoppedChildren
    BY <2>2, <2>8, StoppedChildrenDoes DEF TableRight
  <2>9. CASE Drain
    BY <2>9, DrainDoes DEF TableRight
  <2>10. ASSUME NEW p \in Pids, Reap(p)
         PROVE  TableRight'
    BY <2>10, ReapRight
  <2>11. CASE NoneDied \/ NoChildren
    BY <2>11, NoneDiedDoes, RightStill
  <2>12. CASE Restart
    BY <2>12, RestartRight
  <2>13. CASE RestartFails
    BY <2>13, RestartFailsDoes, LastFailure DEF TableRight, TypesOK
  <2>14. CASE Handled
    <3>1. \A k \in DOMAIN table : ~Pending(k)
      BY <2>14, HandledDoes DEF Matches, TypesOK
    <3> QED BY <2>14, <3>1, HandledDoes, RightStill
  <2>15. CASE Leave
    BY <2>2, <2>15, LeaveDoes, RightStill
  <2>16. CASE Sighup \/ Shutdown \/ UNCHANGED vars
    BY <2>16, SignalDoes, RightStill DEF SameTable
  <2>17. CASE ReadFails \/ Kill
    BY <2>2, <2>17, KilledDoes
  <2>18. ASSUME NEW p \in Pids, Exec(p) \/ ChildDies(p)
         PROVE  TableRight'
    <3>1. RightStays
      BY <2>18, ChildDoes, OneProcessChanges, ProcessGoesOn, KindsOfProcess,
         RightAfterChange DEF TypesOK
    <3> QED BY <2>18, <3>1, ChildDoes, RightStill DEF SameTable
  <2> QED
    BY <2>1, <2>3, <2>4, <2>5, <2>6, <2>7, <2>8, <2>9, <2>10, <2>11, <2>12,
       <2>13, <2>14, <2>15, <2>16, <2>17, <2>18 DEF Next, MyInitStep, Environment
<1> QED BY <1>1, <1>2, TypesHold, PTL DEF Spec

(* Until the first reload running_processes is the length of the table.    *)
Counted ==
  /\ pc \in {"stop", "drain"} => reloaded = TRUE
  /\ pc \in {"read", "start"} /\ handlers = TRUE => reloaded = TRUE
  /\ failures = 0 /\ reloaded # TRUE /\ pc \in {"loop", "wait", "death", "leave", "stop_all"} =>
       running = Len(table)

(* The count is right in every reachable state until the first reload.     *)
LEMMA CountedAlways == Spec => []Counted
<1>1. Init => Counted
  BY DEF Init, Counted
<1>2. TypesOK /\ Counted /\ [Next]_vars => Counted'
  <2> SUFFICES ASSUME TypesOK, Counted, [Next]_vars
               PROVE  Counted'
    OBVIOUS
  <2> USE DEF SameElse, SameTable, SameHistory, Counted
  <2>1. CASE ReadConfig
    BY <2>1, ReadConfigDoes
  <2>2. ASSUME Ended
        PROVE  Counted'
    BY <2>2 DEF Ended, Ends
  <2>3. CASE StartChild
    BY <2>3, StartChildDoes
  <2>4. CASE StartFails
    BY <2>4, StartFailsDoes
  <2>5. CASE Started
    BY <2>5, StartedDoes
  <2>6. CASE TestLoop
    BY <2>6, TestLoopDoes DEF StaysReloaded, Reloads
  <2>7. CASE StopChild
    BY <2>7, StopChildDoes
  <2>8. CASE StoppedChildren
    BY <2>2, <2>8, StoppedChildrenDoes
  <2>9. CASE Drain
    BY <2>9, DrainDoes
  <2>10. ASSUME NEW p \in Pids, Reap(p)
         PROVE  Counted'
    BY <2>10, ReapDoes
  <2>11. CASE NoneDied \/ NoChildren
    BY <2>11, NoneDiedDoes
  <2>12. CASE Restart
    <3>1. Len(table') = Len(table)
      BY <2>12, RestartDoes, FirstMatch, RestartReplaces DEF TypesOK
    <3> QED BY <2>12, <3>1, RestartDoes
  <2>13. CASE RestartFails
    BY <2>13, RestartFailsDoes, LastFailure DEF TypesOK
  <2>14. CASE Handled
    BY <2>14, HandledDoes
  <2>15. CASE Leave
    BY <2>2, <2>15, LeaveDoes
  <2>16. CASE Sighup \/ Shutdown \/ UNCHANGED vars
    BY <2>16, SignalDoes
  <2>17. CASE ReadFails \/ Kill
    BY <2>2, <2>17, KilledDoes
  <2>18. ASSUME NEW p \in Pids, Exec(p) \/ ChildDies(p)
         PROVE  Counted'
    BY <2>18, ChildDoes
  <2> QED
    BY <2>1, <2>3, <2>4, <2>5, <2>6, <2>7, <2>8, <2>9, <2>10, <2>11, <2>12,
       <2>13, <2>14, <2>15, <2>16, <2>17, <2>18 DEF Next, MyInitStep, Environment
<1> QED BY <1>1, <1>2, TypesHold, PTL DEF Spec

(* As long as no restart has failed, whoever uses the table finds it right:*)
(* kill() reaches children of myinit only, whatever pids the kernel uses   *)
(* again, and until the first reload the count of the children is correct. *)
THEOREM TableIsRightHolds == Spec => []TableIsRight
<1>1. TableRight /\ Counted => TableIsRight
  BY DEF TableRight, UsesTable, Pending, Right, Counted, TableIsRight
<1> QED BY <1>1, RightAlways, CountedAlways, PTL

-----------------------------------------------------------------------------
(* Until the first reload every child of myinit, dead or alive, is in the  *)
(* table, and running_processes is at most their number: so the loop is    *)
(* left before waitpid() can find none.                                    *)
AllListed ==
  reloaded # TRUE =>
    /\ pc = "read" => Children = {}
    /\ pc \in {"start", "loop", "wait", "death"} => \A p \in Children : Listed(p)
    /\ pc = "death" => (dead \in Children => ListedBefore(dead))
    /\ pc = "death" /\ i = 1 => Listed(dead)
CountsAtMost ==
  reloaded # TRUE =>
    /\ pc = "start" => Len(table) <= Cardinality(Children)
    /\ pc \in {"loop", "wait"} => running <= Cardinality(Children)
    /\ pc = "death" /\ i = 1 => running <= Cardinality(Children) + 1
    /\ pc = "death" /\ i # 1 => running <= Cardinality(Children)
    /\ pc = "wait" => running > 0
    /\ pc # "leave_freed" /\ pc # "undefined"

(* There are finitely many children.                                       *)
LEMMA ChildrenAreFinite ==
  ASSUME IsFiniteSet(Pids)
  PROVE  IsFiniteSet(Children) /\ Cardinality(Children) \in Nat
BY FS_Subset, FS_CardinalityType DEF Children

(* A fork() makes one child more.                                          *)
LEMMA ForkAddsChild ==
  ASSUME IsFiniteSet(Pids), TypesOK, NEW p \in Pids, NEW path, Fork(path, p)
  PROVE  /\ p \notin Children /\ Children' = Children \cup {p}
         /\ Cardinality(Children') = Cardinality(Children) + 1
<1>1. proc[p] = None /\ Changes(p, Child(path))
  BY ForkMakesCopy DEF TypesOK
<1>2. p \notin Children /\ Children' = Children \cup {p}
  BY <1>1, KindsOfProcess DEF Children, Changes, Alive
<1>3. Cardinality(Children \cup {p}) = Cardinality(Children) + 1
  BY <1>2, ChildrenAreFinite, FS_AddElement
<1> QED BY <1>2, <1>3

(* Reaping makes one child less.                                           *)
LEMMA ReapRemovesChild ==
  ASSUME IsFiniteSet(Pids), TypesOK, NEW p \in Pids, Reap(p)
  PROVE  /\ p \in Children /\ Children' = Children \ {p}
         /\ Cardinality(Children') = Cardinality(Children) - 1
<1>1. proc[p] = Zombie /\ Changes(p, None)
  BY ReapDoes, ReapRemoves DEF TypesOK
<1>2. p \in Children /\ Children' = Children \ {p}
  BY <1>1, KindsOfProcess DEF Children, Changes, Alive
<1>3. Cardinality(Children \ {p}) = Cardinality(Children) - 1
  BY <1>2, ChildrenAreFinite, FS_RemoveElement
<1> QED BY <1>2, <1>3

(* A child that dies or runs its program is a child until it is reaped.    *)
LEMMA ChildrenStay ==
  ASSUME TypesOK,
         proc' = proc \/ \E p \in Pids : Exec(p) \/ ChildDies(p)
  PROVE  Children' = Children
<1>1. CASE proc' = proc
  BY <1>1 DEF Children
<1>2. ASSUME NEW p \in Pids, Exec(p) \/ ChildDies(p)
      PROVE  Children' = Children
  <2>1. /\ proc[p].st \in Alive
        /\ Changes(p, Running(p)) \/ Changes(p, Zombie)
    BY <1>2, ChildDoes, OneProcessChanges, ProcessGoesOn, KindsOfProcess DEF Alive, TypesOK
  <2>2. proc'[p].st \in Alive \cup {"zombie"}
    BY <2>1, ProcessGoesOn, KindsOfProcess DEF Alive, Changes, TypesOK
  <2> QED BY <2>1, <2>2 DEF Children, Changes
<1> QED BY <1>1, <1>2

(* The restarted child is in the table; the pid of the dead is kept only   *)
(* in entries handled already.                                             *)
LEMMA RestartLists ==
  ASSUME TypesOK, AllListed, Restart
  PROVE  AllListed'
<1>1. PICK k \in DOMAIN table : k = Min(Matches)
  BY RestartDoes, FirstMatch DEF TypesOK
<1>2. /\ table[k].pid = dead /\ k >= i /\ i' = k + 1 /\ dead' = dead
      /\ pc = "death" /\ pc' = "death" /\ reloaded' = reloaded
  BY <1>1, RestartDoes, FirstMatch DEF SameHistory, TypesOK
<1>3. PICK p \in Pids :
        /\ Fork(ExecPath(config[table[k].entry]), p)
        /\ table' = [table EXCEPT ![k].pid = p]
  BY <1>1, RestartDoes
<1>4. /\ DOMAIN table' = DOMAIN table /\ table'[k].pid = p
      /\ \A n \in DOMAIN table : n # k => table'[n] = table[n]
  BY <1>3, RestartReplaces DEF TypesOK
<1>5. \A q \in Children' : q = p \/ q \in Children
  <2>1. proc[p] = None /\ Changes(p, Child(ExecPath(config[table[k].entry])))
    BY <1>3, ForkMakesCopy DEF TypesOK
  <2> QED BY <2>1 DEF Children, Changes
<1>6. k < i' /\ i' # 1 /\ i \in Nat /\ k \in Nat /\ i <= k
  BY <1>2 DEF TypesOK
<1>7. ASSUME NEW q \in Children', reloaded # TRUE
      PROVE  Listed(q)' /\ (q = dead => ListedBefore(q)')
  <2>1. CASE q = p
    BY <2>1, <1>4, <1>6 DEF Listed, ListedBefore
  <2>2. CASE q # p /\ q # dead
    <3>1. PICK n \in DOMAIN table : table[n].pid = q
      BY <2>2, <1>2, <1>5, <1>7 DEF AllListed, Listed
    <3>2. n # k
      BY <3>1, <2>2, <1>2
    <3> QED BY <3>1, <3>2, <1>4, <2>2 DEF Listed
  <2>3. CASE q # p /\ q = dead
    <3>1. PICK n \in DOMAIN table : n < i /\ table[n].pid = q
      BY <2>3, <1>2, <1>5, <1>7 DEF AllListed, ListedBefore
    <3>2. n # k /\ n < i'
      BY <3>1, <1>2, <1>6 DEF TypesOK
    <3> QED BY <3>1, <3>2, <1>4 DEF Listed, ListedBefore
  <2> QED BY <2>1, <2>2, <2>3
<1>8. ASSUME reloaded # TRUE, dead \in Children'
      PROVE  ListedBefore(dead)'
  BY <1>2, <1>7, <1>8 DEF ListedBefore
<1> QED BY <1>2, <1>6, <1>7, <1>8 DEF AllListed

(* Every child is in the table until the first reload.                     *)
LEMMA ListedAlways ==
  ASSUME IsFiniteSet(Pids)
  PROVE  Spec => []AllListed
<1>1. Init => AllListed
  BY KindsOfProcess DEF Init, AllListed, Children, Alive
<1>2. TypesOK /\ Counted /\ AllListed /\ [Next]_vars => AllListed'
  <2> SUFFICES ASSUME TypesOK, Counted, AllListed, [Next]_vars
               PROVE  AllListed'
    OBVIOUS
  <2>a. proc' = proc => Children' = Children
    BY ChildrenStay
  <2> USE DEF SameElse, SameTable, SameHistory
  <2>1. CASE ReadConfig
    BY <2>1, <2>a, ReadConfigDoes DEF AllListed
  <2>2. ASSUME Ended
        PROVE  AllListed'
    BY <2>2 DEF Ended, Ends, AllListed
  <2>3. CASE StartChild
    <3>1. PICK p \in Pids :
            /\ Fork(ExecPath(config[i]), p)
            /\ table' = Append(table, [pid |-> p, entry |-> i])
      BY <2>3, StartChildDoes
    <3>2. /\ Len(table) + 1 \in DOMAIN table' /\ table'[Len(table) + 1].pid = p
          /\ \A k \in DOMAIN table : k \in DOMAIN table' /\ table'[k] = table[k]
      BY <3>1 DEF TypesOK, Entries
    <3>3. Children' = Children \cup {p}
      BY <3>1, ForkAddsChild
    <3>4. pc = "start" /\ pc' = "start" /\ reloaded' = reloaded
      BY <2>3, StartChildDoes
    <3> QED BY <3>2, <3>3, <3>4 DEF AllListed, Listed
  <2>4. CASE StartFails
    BY <2>4, <2>a, StartFailsDoes DEF AllListed, Listed
  <2>5. CASE Started
    BY <2>5, <2>a, StartedDoes DEF AllListed, Listed
  <2>6. CASE TestLoop
    BY <2>6, <2>a, TestLoopDoes DEF StaysReloaded, Reloads, AllListed, Listed
  <2>7. CASE StopChild
    BY <2>7, StopChildDoes DEF AllListed
  <2>8. CASE StoppedChildren
    BY <2>2, <2>8, StoppedChildrenDoes DEF AllListed
  <2>9. CASE Drain
    BY <2>9, DrainDoes DEF Counted, AllListed
  <2>10. ASSUME NEW p \in Pids, Reap(p)
         PROVE  AllListed'
    <3>1. p \in Children /\ Children' = Children \ {p}
      BY <2>10, ReapRemovesChild
    <3> QED BY <2>10, <3>1, ReapDoes DEF AllListed, Listed
  <2>11. CASE NoneDied \/ NoChildren
    BY <2>11, <2>a, NoneDiedDoes DEF AllListed, Listed
  <2>12. CASE Restart
    BY <2>12, RestartLists
  <2>13. CASE RestartFails
    <3>1. /\ pc = "death" /\ pc' = "death" /\ dead' = dead /\ table' = table
          /\ i' \in Nat /\ i' > i /\ proc' = proc /\ reloaded' = reloaded
      BY <2>13, RestartFailsDoes, FirstMatch DEF TypesOK
    <3>2. i' # 1
      BY <3>1 DEF TypesOK
    <3> QED BY <2>a, <3>1, <3>2 DEF AllListed, Listed, ListedBefore, TypesOK
  <2>14. CASE Handled
    BY <2>14, <2>a, HandledDoes DEF AllListed, Listed
  <2>15. CASE Leave
    BY <2>2, <2>15, LeaveDoes DEF AllListed
  <2>16. CASE Sighup \/ Shutdown \/ UNCHANGED vars
    <3>1. /\ pc' = pc /\ i' = i /\ dead' = dead /\ table' = table
          /\ reloaded' = reloaded /\ Children' = Children
      BY <2>16, <2>a, SignalDoes
    <3> QED BY <3>1 DEF AllListed, Listed, ListedBefore
  <2>17. CASE ReadFails \/ Kill
    BY <2>2, <2>17, KilledDoes
  <2>18. ASSUME NEW p \in Pids, Exec(p) \/ ChildDies(p)
         PROVE  AllListed'
    <3>1. Children' = Children
      BY <2>18, ChildrenStay
    <3> QED BY <2>18, <3>1, ChildDoes DEF AllListed, Listed, ListedBefore
  <2> QED
    BY <2>1, <2>3, <2>4, <2>5, <2>6, <2>7, <2>8, <2>9, <2>10, <2>11, <2>12,
       <2>13, <2>14, <2>15, <2>16, <2>17, <2>18 DEF Next, MyInitStep, Environment
<1> QED BY <1>1, <1>2, TypesHold, CountedAlways, PTL DEF Spec

(* The count is at most the number of children until the first reload.     *)
LEMMA CountAlways ==
  ASSUME IsFiniteSet(Pids)
  PROVE  Spec => []CountsAtMost
<1>1. Init => CountsAtMost
  BY DEF Init, CountsAtMost
<1>2. TypesOK /\ Counted /\ AllListed /\ CountsAtMost /\ [Next]_vars => CountsAtMost'
  <2> SUFFICES ASSUME TypesOK, Counted, AllListed, CountsAtMost, [Next]_vars
               PROVE  CountsAtMost'
    OBVIOUS
  <2> DEFINE c == Cardinality(Children)
  <2>a. c \in Nat /\ running \in Int
    BY ChildrenAreFinite DEF TypesOK
  <2>b. proc' = proc => c' = c
    BY ChildrenStay
  <2>c. Children = {} => c = 0
    BY FS_EmptySet
  <2>d. ASSUME NEW p \in Pids, NEW path, Fork(path, p)
        PROVE  c' = c + 1
    BY <2>d, ForkAddsChild
  <2>e. ASSUME NEW p \in Pids, Reap(p)
        PROVE  c' = c - 1
    BY <2>e, ReapRemovesChild
  <2>f. ASSUME NEW p \in Pids, Exec(p) \/ ChildDies(p)
        PROVE  c' = c
    BY <2>f, ChildrenStay
  <2>g. reloaded # TRUE =>
          /\ pc = "start" => Len(table) <= c
          /\ pc \in {"loop", "wait"} => running <= c
          /\ pc = "death" /\ i = 1 => running <= c + 1
          /\ pc = "death" /\ i # 1 => running <= c
          /\ pc = "wait" => running > 0
          /\ pc # "leave_freed" /\ pc # "undefined"
    BY DEF CountsAtMost
  <2>h. SUFFICES
          reloaded' # TRUE =>
            /\ pc' = "start" => Len(table') <= c'
            /\ pc' \in {"loop", "wait"} => running' <= c'
            /\ pc' = "death" /\ i' = 1 => running' <= c' + 1
            /\ pc' = "death" /\ i' # 1 => running' <= c'
            /\ pc' = "wait" => running' > 0
            /\ pc' # "leave_freed" /\ pc' # "undefined"
    BY DEF CountsAtMost
  <2> HIDE DEF c
  <2> USE <2>a, <2>b, <2>g DEF SameElse, SameTable, SameHistory
  <2>1. CASE ReadConfig
    <3>1. reloaded # TRUE => Children = {}
      BY <2>1, ReadConfigDoes DEF AllListed
    <3> QED BY <2>1, <2>c, <3>1, ReadConfigDoes
  <2>2. ASSUME Ended, pc' # "undefined" \/ pc = "leave_freed"
        PROVE  <2>h!1
    BY <2>2 DEF Ended, Ends
  <2>3. CASE StartChild
    <3>1. PICK p \in Pids :
            /\ Fork(ExecPath(config[i]), p)
            /\ table' = Append(table, [pid |-> p, entry |-> i])
      BY <2>3, StartChildDoes
    <3>2. Len(table') = Len(table) + 1 /\ Len(table) \in Nat
      BY <3>1 DEF TypesOK, Entries
    <3>3. c' = c + 1
      BY <3>1, <2>d
    <3> QED BY <2>3, <3>2, <3>3, StartChildDoes
  <2>4. CASE StartFails
    BY <2>4, StartFailsDoes
  <2>5. CASE Started
    BY <2>5, StartedDoes DEF Counted
  <2>6. CASE TestLoop
    <3>1. /\ pc = "loop" /\ pc' \in {"leave", "wait", "stop"} /\ running' = running /\ c' = c
          /\ pc' = "wait" => ~(running <= 0)
      BY <2>6, TestLoopDoes
    <3>2. reloaded' # TRUE => reloaded # TRUE
      BY <2>6, TestLoopDoes DEF StaysReloaded, Reloads
    <3> QED BY <3>1, <3>2
  <2>7. CASE StopChild
    BY <2>7, StopChildDoes
  <2>8. CASE StoppedChildren
    BY <2>2, <2>8, StoppedChildrenDoes
  <2>9. CASE Drain
    BY <2>9, DrainDoes DEF Counted
  <2>10. ASSUME NEW p \in Pids, Reap(p)
         PROVE  <2>h!1
    <3>1. /\ pc = "wait" /\ pc' = "death" /\ i' = 1 /\ running' = running /\ c' = c - 1
          /\ reloaded' = reloaded
      BY <2>10, <2>e, ReapDoes
    <3> QED BY <3>1
  <2>11. CASE NoneDied \/ NoChildren
    <3>1. /\ pc = "wait" /\ running' = running /\ c' = c /\ reloaded' = reloaded
          /\ pc' = "loop" \/ (pc' = "leave_freed" /\ c = 0)
      BY <2>11, <2>c, NoneDiedDoes
    <3> QED BY <3>1
  <2>12. CASE Restart
    <3>1. c' = c + 1
      BY <2>12, <2>d, RestartDoes
    <3>2. i' # 1 /\ pc = "death" /\ pc' = "death" /\ running' = running
          /\ reloaded' = reloaded
      BY <2>12, RestartDoes, FirstMatch DEF TypesOK
    <3> QED BY <3>1, <3>2
  <2>13. CASE RestartFails
    <3>1. i' # 1 /\ pc = "death" /\ pc' = "death" /\ reloaded' = reloaded /\ c' = c
      BY <2>13, RestartFailsDoes, FirstMatch DEF TypesOK
    <3>2. running' \in Int /\ (running' <= running - 1 \/ running' = -1)
      BY <2>13, RestartFailsDoes, RunningIsLess
    <3> QED BY <3>1, <3>2
  <2>14. CASE Handled
    <3>1. i # 1 \/ reloaded = TRUE
      <4>1. pc = "death" /\ Matches = {}
        BY <2>14, HandledDoes
      <4>2. \A k \in DOMAIN table : k >= i => table[k].pid # dead
        BY <4>1 DEF Matches, TypesOK
      <4>3. i = 1 => ~Listed(dead)
        BY <4>2 DEF Listed, TypesOK
      <4> QED BY <4>1, <4>3 DEF AllListed
    <3> QED BY <2>14, <3>1, HandledDoes
  <2>15. CASE Leave
    BY <2>2, <2>15, LeaveDoes
  <2>16. CASE Sighup \/ Shutdown \/ UNCHANGED vars
    <3>1. pc' = pc /\ i' = i /\ table' = table /\ running' = running /\ c' = c
          /\ reloaded' = reloaded
      BY <2>16, SignalDoes
    <3> QED BY <3>1
  <2>17. CASE ReadFails \/ Kill
    BY <2>2, <2>17, KilledDoes
  <2>18. ASSUME NEW p \in Pids, Exec(p) \/ ChildDies(p)
         PROVE  <2>h!1
    BY <2>18, <2>f, ChildDoes
  <2> QED
    BY <2>1, <2>3, <2>4, <2>5, <2>6, <2>7, <2>8, <2>9, <2>10, <2>11, <2>12,
       <2>13, <2>14, <2>15, <2>16, <2>17, <2>18 DEF Next, MyInitStep, Environment
<1> QED BY <1>1, <1>2, TypesHold, CountedAlways, ListedAlways, PTL DEF Spec

(* Without a reload the loop is never left with the table freed: the count *)
(* of myinit is 0 before its last child is reaped.                         *)
THEOREM FreedOnlyAfterReloadHolds ==
  ASSUME IsFiniteSet(Pids)
  PROVE  Spec => []FreedOnlyAfterReload
<1>1. CountsAtMost => FreedOnlyAfterReload
  BY DEF CountsAtMost, FreedOnlyAfterReload
<1> QED BY <1>1, CountAlways, PTL
-----------------------------------------------------------------------------
(* The flags and dead, in every step.                                      *)
FlagsOK ==
  /\ handlers \in BOOLEAN /\ shutdown \in BOOLEAN /\ reload \in BOOLEAN
  /\ reloaded \in BOOLEAN /\ unheard \in BOOLEAN
  /\ dead \in Pids \cup {NoPid}
SameFlags ==
  /\ handlers' = handlers /\ shutdown' = shutdown /\ reload' = reload
  /\ reloaded' = reloaded /\ unheard' = unheard

(* The tuples of flags, taken apart.                                       *)
LEMMA UntouchedFlags ==
  /\ flagVars' = flagVars =>
       handlers' = handlers /\ shutdown' = shutdown /\ reload' = reload
  /\ histVars' = histVars => reloaded' = reloaded /\ unheard' = unheard
BY Zenon DEF flagVars, histVars

(* The end of myinit clears the flags.                                     *)
LEMMA EndClears ==
  ASSUME FlagsOK, NEW how, End(how)
  PROVE  FlagsOK'
<1>1. /\ dead' = NoPid /\ handlers' = FALSE /\ shutdown' = FALSE /\ reload' = FALSE
      /\ histVars' = histVars
  BY Zenon DEF End
<1> QED BY <1>1, UntouchedFlags, Zenon DEF FlagsOK

(* The flags are Booleans in every reachable state.                        *)
LEMMA FlagsAlways == Spec => []FlagsOK
<1>1. Init => FlagsOK
  BY DEF Init, FlagsOK
<1>2. FlagsOK /\ [Next]_vars => FlagsOK'
  <2> SUFFICES ASSUME FlagsOK, [Next]_vars
               PROVE  FlagsOK'
    OBVIOUS
  <2>a. ASSUME SameFlags, dead' \in {dead, NoPid} \cup Pids
        PROVE  FlagsOK'
    BY <2>a, Zenon DEF FlagsOK, SameFlags
  <2> USE UntouchedFlags, Untouched
  <2>1. CASE ReadConfig
    <3>1. dead' = dead /\ flagVars' = flagVars /\ reloaded' = reloaded /\ unheard' = FALSE
      BY <2>1, Zenon DEF ReadConfig
    <3> QED BY <3>1, Zenon DEF FlagsOK
  <2>2. CASE StartChild \/ StartFails
    BY <2>2, <2>a, Zenon DEF StartChild, StartFails, SameFlags
  <2>3. CASE Started
    <3>1. /\ dead' = dead /\ handlers' = TRUE /\ shutdown' = shutdown /\ reload' = reload
          /\ histVars' = histVars
      BY <2>3, Zenon DEF Started
    <3> QED BY <3>1, Zenon DEF FlagsOK
  <2>4. CASE TestLoop
    <3>1. /\ dead' = dead /\ handlers' = handlers /\ shutdown' = shutdown
          /\ reload' = (reload /\ pc' = "leave") /\ reloaded' = (reloaded \/ pc' = "stop")
          /\ unheard' = unheard
      BY <2>4, Zenon DEF TestLoop
    <3>2. reload' \in BOOLEAN /\ reloaded' \in BOOLEAN
      BY <3>1, Zenon
    <3> QED BY <3>1, <3>2, Zenon DEF FlagsOK
  <2>5. CASE StopChild \/ Drain
    BY <2>5, <2>a, Zenon DEF StopChild, Drain, SameFlags
  <2>6. CASE StoppedChildren
    BY <2>6, <2>a, EndClears, Zenon DEF StoppedChildren, SameFlags
  <2>7. ASSUME NEW p \in Pids, Reap(p)
        PROVE  FlagsOK'
    BY <2>7, <2>a, Zenon DEF Reap, SameFlags
  <2>8. CASE NoneDied \/ NoChildren
    BY <2>8, <2>a, Zenon DEF NoneDied, NoChildren, SameFlags
  <2>9. CASE Restart \/ RestartFails
    BY <2>9, <2>a, Zenon DEF Restart, RestartFails, SameFlags
  <2>10. CASE Handled
    BY <2>10, <2>a, Zenon DEF Handled, SameFlags
  <2>11. CASE Leave
    BY <2>11, <2>a, EndClears, Zenon DEF Leave, SameFlags
  <2>12. CASE ReadFails \/ Kill
    BY <2>12, EndClears, Zenon DEF ReadFails, Kill
  <2>13. CASE Sighup
    <3>1. /\ dead' = dead /\ handlers' = handlers /\ shutdown' = shutdown
          /\ reload' = TRUE /\ unheard' = TRUE /\ reloaded' = reloaded
      BY <2>13, Zenon DEF Sighup
    <3> QED BY <3>1, Zenon DEF FlagsOK
  <2>14. CASE Shutdown
    <3>1. /\ dead' = dead /\ handlers' = handlers /\ shutdown' = TRUE
          /\ reload' = reload /\ histVars' = histVars
      BY <2>14, Zenon DEF Shutdown
    <3> QED BY <3>1, Zenon DEF FlagsOK
  <2>15. ASSUME NEW p \in Pids, Exec(p) \/ ChildDies(p)
         PROVE  FlagsOK'
    BY <2>15, <2>a, Zenon DEF Exec, ChildDies, Becomes, SameFlags
  <2>16. CASE UNCHANGED vars
    BY <2>16, <2>a, Zenon DEF vars, SameFlags
  <2> QED
    BY <2>1, <2>2, <2>3, <2>4, <2>5, <2>6, <2>7, <2>8, <2>9, <2>10, <2>11, <2>12,
       <2>13, <2>14, <2>15, <2>16 DEF Next, MyInitStep, Environment
<1> QED BY <1>1, <1>2, PTL DEF Spec

-----------------------------------------------------------------------------
(* What is left when the loop ends.  Without a reload, the first restart   *)
(* that fails leaves one child less in the table than there are entries,   *)
(* and if there is one entry, no child at all: so that running_processes   *)
(* gets to 0 only when no child is left, until a second one fails.         *)
Looping == pc \in {"loop", "wait", "death", "leave"}
LoneEntry ==
  reloaded # TRUE =>
    /\ pc \in {"read", "start"} => failures = 0
    /\ failures = 1 /\ Looping => running = Len(table) - 1
    /\ failures = 1 /\ Looping /\ Len(table) <= 1 =>
         Children = {} /\ (pc = "death" => i > Len(table))
EmptyHanded == pc = "leave" /\ shutdown = FALSE => running <= 0

(* The first failure, and every later one.                                 *)
LEMMA FailuresAreCounted ==
  ASSUME failures \in Nat, MaxFailures > 1,
         failures' = Min({failures + 1, MaxFailures})
  PROVE  /\ failures = 0 => failures' = 1
         /\ failures # 0 => failures' > 1
<1> DEFINE S == {failures + 1, MaxFailures}
<1>1. S \in SUBSET Nat /\ S # {}
  BY BoundsAssumption
<1>2. failures' \in S /\ \A k \in S : failures' <= k
  <2> HIDE DEF S
  <2>1. failures' = Min(S)
    BY DEF S
  <2>2. Min(S) \in S /\ \A k \in S : Min(S) <= k
    BY <1>1, MinIsLeast
  <2> QED BY <2>1, <2>2
<1> QED BY <1>2, BoundsAssumption

(* The count of a table that is not empty goes down by one.                *)
LEMMA RunningIsOneLess ==
  ASSUME running \in Nat, running > 0, running' = Max({running - 1, -1})
  PROVE  running' = running - 1
<1> DEFINE S == {running - 1, -1}
<1>1. \E m \in S : \A n \in S : n <= m
  OBVIOUS
<1>2. Max(S) \in S /\ \A n \in S : n <= Max(S)
  BY <1>1 DEF Max
<1> QED BY <1>2

(* Three numbers between 1 and 1.                                          *)
LEMMA AllAreOne ==
  ASSUME NEW a \in Nat, NEW b \in Nat, NEW c \in Nat, 1 <= a, a <= b, b <= c, c <= 1
  PROVE  a = 1 /\ b = 1 /\ c = 1
OBVIOUS

(* The only entry of the table fails to restart: its child was the last.   *)
LEMMA LastChildGone ==
  ASSUME TypesOK, AllListed, reloaded # TRUE, pc = "death", Matches # {},
         Len(table) <= 1
  PROVE  Children = {} /\ Min(Matches) = 1 /\ Len(table) = 1
<1>1. /\ Min(Matches) \in i..Len(table) /\ table[Min(Matches)].pid = dead
  BY FirstMatch
<1>2. Min(Matches) = 1 /\ i = 1 /\ Len(table) = 1 /\ table[1].pid = dead
  <2>1. PICK k : k \in i..Len(table) /\ k = Min(Matches) /\ table[k].pid = dead
    BY <1>1
  <2>2. i \in Nat /\ i >= 1 /\ Len(table) \in Nat /\ Len(table) <= 1
    BY DEF TypesOK
  <2>3. k \in Nat /\ i <= k /\ k <= Len(table)
    BY <2>1, <2>2
  <2>4. k = 1 /\ i = 1 /\ Len(table) = 1
    BY <2>2, <2>3, AllAreOne
  <2> QED BY <2>1, <2>4
<1>3. \A p \in Children : p = dead
  BY <1>2 DEF AllListed, Listed, TypesOK
<1>4. ~ListedBefore(dead)
  BY <1>2 DEF ListedBefore, TypesOK
<1> QED BY <1>2, <1>3, <1>4 DEF AllListed

(* A restart that fails.                                                   *)
LEMMA RestartFailsLeaves ==
  ASSUME MaxFailures > 1, TypesOK, Counted, AllListed, LoneEntry, RestartFails
  PROVE  LoneEntry'
<1>1. /\ pc = "death" /\ pc' = pc /\ Matches # {} /\ i' = Min(Matches) + 1
      /\ proc' = proc /\ table' = table /\ reloaded' = reloaded
      /\ running' = Max({running - 1, -1})
      /\ failures' = Min({failures + 1, MaxFailures})
  BY RestartFailsDoes DEF SameTable
<1>2. Min(Matches) \in i..Len(table) /\ i \in Nat /\ i >= 1 /\ Len(table) \in Nat
  BY <1>1, FirstMatch DEF TypesOK
<1>3. Children' = Children
  BY <1>1 DEF Children
<1>4. CASE failures = 0 /\ reloaded # TRUE
  <2>1. running = Len(table) /\ Len(table) >= 1
    BY <1>1, <1>2, <1>4 DEF Counted
  <2>2. running' = Len(table) - 1
    BY <1>1, <1>2, <2>1, RunningIsOneLess
  <2>3. Len(table) <= 1 => Children = {} /\ i' > Len(table)
    BY <1>1, <1>2, <1>4, LastChildGone
  <2> QED BY <1>1, <1>3, <2>2, <2>3 DEF LoneEntry, Looping
<1>5. CASE failures # 0
  <2>1. failures' > 1
    BY <1>1, <1>5, FailuresAreCounted DEF TypesOK
  <2> QED BY <1>1, <2>1 DEF LoneEntry
<1>6. CASE reloaded = TRUE
  BY <1>1, <1>6 DEF LoneEntry
<1> QED BY <1>4, <1>5, <1>6

(* One child less than entries, after the first restart that fails.        *)
LEMMA LoneEntryAlways ==
  ASSUME IsFiniteSet(Pids), MaxFailures > 1
  PROVE  Spec => []LoneEntry
<1>1. Init => LoneEntry
  BY DEF Init, LoneEntry, Looping
<1>2. TypesOK /\ Counted /\ AllListed /\ LoneEntry /\ [Next]_vars => LoneEntry'
  <2> SUFFICES ASSUME TypesOK, Counted, AllListed, LoneEntry, [Next]_vars
               PROVE  LoneEntry'
    OBVIOUS
  <2>a. proc' = proc => Children' = Children
    BY ChildrenStay
  <2> USE DEF SameElse, SameTable, SameHistory, Looping
  <2>1. CASE ReadConfig
    BY <2>1, ReadConfigDoes DEF LoneEntry
  <2>2. ASSUME Ended
        PROVE  LoneEntry'
    BY <2>2 DEF Ended, Ends, LoneEntry
  <2>3. CASE StartChild
    BY <2>3, StartChildDoes DEF LoneEntry
  <2>4. CASE StartFails
    BY <2>4, StartFailsDoes DEF LoneEntry
  <2>5. CASE Started
    BY <2>5, StartedDoes DEF Counted, LoneEntry
  <2>6. CASE TestLoop
    BY <2>6, <2>a, TestLoopDoes DEF StaysReloaded, Reloads, LoneEntry
  <2>7. CASE StopChild
    BY <2>7, StopChildDoes DEF LoneEntry
  <2>8. CASE StoppedChildren
    BY <2>2, <2>8, StoppedChildrenDoes DEF LoneEntry
  <2>9. CASE Drain
    BY <2>9, DrainDoes DEF Counted, LoneEntry
  <2>10. ASSUME NEW p \in Pids, Reap(p)
         PROVE  LoneEntry'
    <3>1. Children # {}
      BY <2>10, ReapRemovesChild
    <3>2. /\ pc = "wait" /\ pc' = "death" /\ table' = table /\ running' = running
          /\ failures' = failures /\ reloaded' = reloaded
      BY <2>10, ReapDoes
    <3> QED BY <3>1, <3>2 DEF LoneEntry
  <2>11. CASE NoneDied \/ NoChildren
    BY <2>11, <2>a, NoneDiedDoes DEF LoneEntry
  <2>12. CASE Restart
    <3>1. /\ Len(table') = Len(table) /\ Len(table) \in Nat /\ i <= Len(table)
          /\ pc = "death" /\ pc' = "death" /\ running' = running
          /\ failures' = failures /\ reloaded' = reloaded /\ i \in Nat
      BY <2>12, RestartDoes, FirstMatch, RestartReplaces DEF TypesOK
    <3> QED BY <3>1 DEF LoneEntry
  <2>13. CASE RestartFails
    BY <2>13, RestartFailsLeaves
  <2>14. CASE Handled
    BY <2>14, <2>a, HandledDoes DEF LoneEntry
  <2>15. CASE Leave
    BY <2>2, <2>15, LeaveDoes DEF LoneEntry
  <2>16. CASE Sighup \/ Shutdown \/ UNCHANGED vars
    <3>1. /\ pc' = pc /\ i' = i /\ table' = table /\ running' = running
          /\ reloaded' = reloaded /\ failures' = failures /\ Children' = Children
      BY <2>16, <2>a, SignalDoes
    <3> QED BY <3>1 DEF LoneEntry
  <2>17. CASE ReadFails \/ Kill
    BY <2>2, <2>17, KilledDoes
  <2>18. ASSUME NEW p \in Pids, Exec(p) \/ ChildDies(p)
         PROVE  LoneEntry'
    <3>1. Children' = Children
      BY <2>18, ChildrenStay
    <3> QED BY <2>18, <3>1, ChildDoes DEF LoneEntry
  <2> QED
    BY <2>1, <2>3, <2>4, <2>5, <2>6, <2>7, <2>8, <2>9, <2>10, <2>11, <2>12,
       <2>13, <2>14, <2>15, <2>16, <2>17, <2>18 DEF Next, MyInitStep, Environment
<1> QED BY <1>1, <1>2, TypesHold, CountedAlways, ListedAlways, PTL DEF Spec

(* Whoever leaves the loop without a signal counts no child.               *)
LEMMA EmptyHandedAlways == Spec => []EmptyHanded
<1>1. Init => EmptyHanded
  BY DEF Init, EmptyHanded
<1>2. FlagsOK /\ EmptyHanded /\ [Next]_vars => EmptyHanded'
  <2> SUFFICES ASSUME FlagsOK, EmptyHanded, [Next]_vars, pc' = "leave", shutdown' = FALSE
               PROVE  running' <= 0
    BY DEF EmptyHanded
  <2> USE Untouched, UntouchedFlags
  <2>1. CASE TestLoop
    <3>1. /\ pc' = IF shutdown \/ (running <= 0 /\ ~reload) THEN "leave"
                   ELSE IF reload THEN "stop" ELSE "wait"
          /\ shutdown' = shutdown /\ running' = running
      BY <2>1, Zenon DEF TestLoop
    <3> QED BY <3>1 DEF FlagsOK
  <2>2. CASE Sighup \/ Shutdown \/ UNCHANGED vars
    <3>1. pc' = pc /\ running' = running
      BY <2>2, SignalDoes DEF SameElse
    <3>2. shutdown' = shutdown \/ shutdown' = TRUE
      BY <2>2, Zenon DEF Sighup, Shutdown, vars
    <3> QED BY <3>1, <3>2 DEF EmptyHanded
  <2>3. ASSUME NEW p \in Pids, Exec(p) \/ ChildDies(p)
        PROVE  running' <= 0
    <3>1. pc' = pc /\ running' = running /\ shutdown' = shutdown
      BY <2>3, Zenon DEF Exec, ChildDies, Becomes
    <3> QED BY <3>1 DEF EmptyHanded
  <2>4. CASE ReadConfig \/ StartChild \/ StartFails \/ Started
    BY <2>4, ReadConfigDoes, StartChildDoes, StartFailsDoes, StartedDoes
  <2>5. CASE StopChild \/ StoppedChildren \/ Drain
    BY <2>5, StopChildDoes, StoppedChildrenDoes, DrainDoes DEF Ended, Ends
  <2>6. ASSUME NEW p \in Pids, Reap(p)
        PROVE  FALSE
    BY <2>6, ReapDoes
  <2>7. CASE NoneDied \/ NoChildren \/ Restart \/ RestartFails \/ Handled
    BY <2>7, NoneDiedDoes, RestartDoes, RestartFailsDoes, HandledDoes
  <2>8. CASE Leave \/ ReadFails \/ Kill
    BY <2>8, LeaveDoes, KilledDoes DEF Ended, Ends
  <2> QED
    BY <2>1, <2>2, <2>3, <2>4, <2>5, <2>6, <2>7, <2>8 DEF Next, MyInitStep, Environment
<1> QED BY <1>1, <1>2, FlagsAlways, PTL DEF Spec

(* The end of the loop with nothing to run, before a reload and a second   *)
(* restart that failed: no child is left.                                  *)
LEMMA NothingLeft ==
  ASSUME TypesOK, KnowsChildren, Counted, CountsAtMost, LoneEntry, EmptyHanded,
         pc \in {"leave", "leave_freed"}, shutdown = FALSE, reloaded # TRUE,
         ~(failures > 1)
  PROVE  \A p \in Pids : ~Uncared(p)
<1>1. pc = "leave" /\ running <= 0
  BY DEF CountsAtMost, EmptyHanded
<1>2. ASSUME NEW p \in Pids, Uncared(p)
      PROVE  FALSE
  <2>1. PICK k \in DOMAIN table : table[k].pid = p
    BY <1>1, <1>2 DEF KnowsChildren, Listed
  <2>2. Len(table) >= 1
    BY <2>1 DEF TypesOK
  <2>3. CASE failures = 0
    BY <1>1, <2>2, <2>3 DEF Counted, TypesOK
  <2>4. CASE failures = 1
    <3>1. Len(table) <= 1
      BY <1>1, <2>4 DEF LoneEntry, Looping, TypesOK
    <3>2. p \notin Children
      BY <1>1, <2>4, <3>1 DEF LoneEntry, Looping
    <3> QED BY <1>2, <3>2 DEF Children, Uncared, Alive
  <2> QED BY <2>3, <2>4 DEF TypesOK
<1> QED BY <1>2

(* myinit leaves a child behind only when it is killed, when it uses the   *)
(* table it has freed, or when a reload or a second failed restart made    *)
(* its count wrong.                                                        *)
THEOREM LeavesNoChildHolds ==
  ASSUME IsFiniteSet(Pids), MaxFailures > 1
  PROVE  Spec => []LeavesNoChild
<1> DEFINE Left == \E p \in Pids : Uncared(p)
           Excused == pc \in {"killed", "undefined"} \/
                      (pc = "nothing_to_run" /\ (reloaded = TRUE \/ failures > 1))
           Inv == Gone /\ Left => Excused
<1>1. Init => Inv
  BY DEF Init, Gone, Ends
<1>2. TypesOK /\ FlagsOK /\ KnowsChildren /\ Counted /\ CountsAtMost /\ LoneEntry
        /\ EmptyHanded /\ Inv /\ [Next]_vars => Inv'
  <2> SUFFICES ASSUME TypesOK, FlagsOK, KnowsChildren, Counted, CountsAtMost, LoneEntry,
                      EmptyHanded, Inv, [Next]_vars, Gone', Left'
               PROVE  Excused'
    OBVIOUS
  <2>a. proc' = proc => Left
    BY DEF Uncared
  <2> USE DEF SameElse, SameHistory, Gone, Ends
  <2>1. CASE ReadFails
    <3>1. pc = "read" /\ proc' = proc
      BY <2>1, KilledDoes, Zenon DEF ReadFails, Ended
    <3> QED BY <2>a, <3>1 DEF KnowsChildren
  <2>2. CASE StoppedChildren
    <3>1. CASE pc = "stop_all"
      <4>1. i > Len(table) /\ proc' = proc
        BY <2>2, <3>1, StoppedChildrenDoes, Zenon DEF StoppedChildren, Ended
      <4> QED BY <2>a, <3>1, <4>1 DEF KnowsChildren, ListedFrom, TypesOK
    <3>2. CASE pc = "stop"
      <4>1. pc' = "drain"
        BY <2>2, <3>2, Zenon DEF StoppedChildren
      <4> QED BY <4>1
    <3> QED BY <2>2, <3>1, <3>2 DEF StoppedChildren
  <2>3. CASE Leave
    <3>1. /\ pc \in {"leave", "leave_freed"} /\ proc' = proc /\ SameHistory
      BY <2>3, LeaveDoes, Zenon DEF Leave, Ended, SameElse
    <3>2. CASE ~shutdown
      <4>1. pc' = "nothing_to_run"
        BY <2>3, <3>2, Zenon DEF Leave, End
      <4>2. reloaded = TRUE \/ failures > 1
        BY <2>a, <3>1, <3>2, NothingLeft DEF FlagsOK
      <4> QED BY <3>1, <4>1, <4>2
    <3>3. CASE shutdown /\ pc = "leave_freed"
      <4>1. pc' = "undefined"
        BY <2>3, <3>3, Zenon DEF Leave, End
      <4> QED BY <4>1
    <3>4. CASE shutdown /\ pc = "leave"
      <4>1. pc' = "stop_all"
        BY <2>3, <3>4, Zenon DEF Leave
      <4> QED BY <4>1
    <3> QED BY <3>1, <3>2, <3>3, <3>4
  <2>4. CASE Kill
    <3>1. pc' = "killed"
      BY <2>4, Zenon DEF Kill, End
    <3> QED BY <3>1
  <2>5. CASE Sighup \/ Shutdown \/ UNCHANGED vars
    <3>1. pc' = pc /\ proc' = proc /\ reloaded' = reloaded /\ failures' = failures
      BY <2>5, SignalDoes
    <3> QED BY <2>a, <3>1
  <2>6. ASSUME NEW p \in Pids, Exec(p) \/ ChildDies(p)
        PROVE  Excused'
    <3>1. pc' = pc /\ pc \notin Ends
      BY <2>6, Untouched, Zenon DEF Exec, ChildDies, Becomes, Gone
    <3> QED BY <3>1
  <2>7. CASE ReadConfig \/ StartChild \/ StartFails \/ Started \/ TestLoop
    BY <2>7, ReadConfigDoes, StartChildDoes, StartFailsDoes, StartedDoes, TestLoopDoes
  <2>8. CASE StopChild \/ Drain
    BY <2>8, StopChildDoes, DrainDoes
  <2>9. ASSUME NEW p \in Pids, Reap(p)
        PROVE  FALSE
    BY <2>9, ReapDoes
  <2>10. CASE NoneDied \/ NoChildren \/ Restart \/ RestartFails \/ Handled
    BY <2>10, NoneDiedDoes, RestartDoes, RestartFailsDoes, HandledDoes
  <2> QED
    BY <2>1, <2>2, <2>3, <2>4, <2>5, <2>6, <2>7, <2>8, <2>9, <2>10
       DEF Next, MyInitStep, Environment
<1>3. Inv => LeavesNoChild
  BY DEF LeavesNoChild, LiveChildren, Alive, Uncared
<1> HIDE DEF Inv
<1> QED BY <1>1, <1>2, <1>3, TypesHold, FlagsAlways, KnowsAlways, CountedAlways, CountAlways,
           LoneEntryAlways, EmptyHandedAlways, PTL DEF Spec

-----------------------------------------------------------------------------
(* The loop of parse(), turn by turn: items[n] is the list behind line n.  *)
Turns(file, disk, last, items) ==
  items = [n \in 0..last |->
             IF n = 0 THEN <<>> ELSE AddLine(items[n - 1], file[n], disk)]

(* There are such turns, since each is made from the one before.           *)
LEMMA TurnsExist ==
  ASSUME NEW file, NEW disk, NEW last \in Nat
  PROVE  \E items : Turns(file, disk, last, items)
<1> DEFINE T == {n \in Nat : ~\E items : Turns(file, disk, n, items)}
<1>1. SUFFICES ASSUME T # {} PROVE FALSE
  OBVIOUS
<1>2. PICK k \in T : \A j \in T : k <= j
  <2>1. T \in SUBSET Nat
    OBVIOUS
  <2> HIDE DEF T
  <2> QED BY <1>1, <2>1, LeastElement
<1>3. CASE k = 0
  <2> DEFINE items == [n \in 0..0 |-> <<>>]
  <2>1. Turns(file, disk, 0, items)
    BY DEF Turns
  <2> QED BY <1>3, <2>1
<1>4. CASE k # 0
  <2>1. k \in Nat /\ k - 1 \in Nat /\ k - 1 \notin T
    BY <1>2, <1>4
  <2>2. PICK before : Turns(file, disk, k - 1, before)
    BY <2>1
  <2> DEFINE items == [n \in 0..k |->
                         IF n = 0 THEN <<>> ELSE AddLine(before[n - 1], file[n], disk)]
  <2>3. ASSUME NEW n \in 0..k, n # 0
        PROVE  items[n - 1] = before[n - 1]
    <3>1. n - 1 \in 0..(k - 1) /\ n - 1 \in 0..k
      BY <2>1, <2>3
    <3>2. before[n - 1] = IF n - 1 = 0 THEN <<>>
                          ELSE AddLine(before[n - 1 - 1], file[n - 1], disk)
      BY <2>2, <3>1 DEF Turns
    <3> QED BY <3>1, <3>2
  <2>4. Turns(file, disk, k, items)
    BY <2>3 DEF Turns
  <2> QED BY <1>2, <2>4
<1> QED BY <1>3, <1>4

(* parse() returns the list behind the last line.                          *)
LEMMA ParseReturns ==
  ASSUME NEW file, NEW disk, Len(file) \in Nat
  PROVE  \E items : /\ Turns(file, disk, Len(file), items)
                    /\ Parse(file, disk) = items[Len(file)]
<1> DEFINE items == CHOOSE f : f = [n \in 0..Len(file) |->
                      IF n = 0 THEN <<>> ELSE AddLine(f[n - 1], file[n], disk)]
<1>1. Parse(file, disk) = items[Len(file)]
  BY DEF Parse
<1>2. Turns(file, disk, Len(file), items)
  BY TurnsExist DEF Turns
<1> QED BY <1>1, <1>2

(* A configuration has at most MaxExec entries, each made of one line.     *)
ConfigEntries == {EntryOf(line) : line \in Seq(STRING)}
Config(items) == items \in Seq(ConfigEntries) /\ Len(items) <= MaxExec

(* One line adds at most its entry.                                        *)
LEMMA AddLineKeepsConfig ==
  ASSUME NEW items, Config(items), NEW line \in Seq(STRING), NEW disk
  PROVE  Config(AddLine(items, line, disk))
<1>1. EntryOf(line) \in ConfigEntries
  BY DEF ConfigEntries
<1>2. CASE Len(items) < MaxExec /\ Accepted(line, disk)
  <2>1. AddLine(items, line, disk) = Append(items, EntryOf(line))
    BY <1>2 DEF AddLine
  <2>2. Append(items, EntryOf(line)) \in Seq(ConfigEntries)
    BY <1>1 DEF Config
  <2>3. Len(Append(items, EntryOf(line))) = Len(items) + 1
    BY <1>1 DEF Config
  <2> QED BY <1>2, <2>1, <2>2, <2>3, LimitsAssumption DEF Config
<1>3. CASE ~(Len(items) < MaxExec /\ Accepted(line, disk))
  BY <1>3 DEF AddLine
<1> QED BY <1>2, <1>3

(* What parse() makes of a file.                                           *)
LEMMA ParsedIsConfig ==
  ASSUME NEW file \in Files
  PROVE  Config(Parse(file, Disk))
<1>1. file \in Seq(Seq(STRING)) /\ Len(file) \in Nat
  BY FilesAssumption
<1>2. PICK items : /\ Turns(file, Disk, Len(file), items)
                   /\ Parse(file, Disk) = items[Len(file)]
  BY <1>1, ParseReturns
<1> DEFINE T == {n \in 0..Len(file) : ~Config(items[n])}
<1>3. SUFFICES ASSUME T # {} PROVE FALSE
  BY <1>1, <1>2
<1>4. PICK k \in T : \A j \in T : k <= j
  <2>1. T \in SUBSET Nat
    BY <1>1
  <2> HIDE DEF T
  <2> QED BY <1>3, <2>1, LeastElement
<1>5. items[k] = IF k = 0 THEN <<>> ELSE AddLine(items[k - 1], file[k], Disk)
  BY <1>2 DEF Turns
<1>6. k # 0
  <2>1. Config(<<>>)
    BY LimitsAssumption DEF Config
  <2> QED BY <1>4, <1>5, <2>1
<1>7. k - 1 \in 0..Len(file) /\ k - 1 \notin T /\ k \in 1..Len(file)
  BY <1>1, <1>4, <1>6
<1>8. Config(items[k - 1]) /\ file[k] \in Seq(STRING)
  BY <1>1, <1>7
<1> QED BY <1>4, <1>5, <1>6, <1>8, AddLineKeepsConfig

(* The parts of TypeOK that bound one variable by another: an entry of the *)
(* configuration gets at most one place in the table.                      *)
Bounded ==
  /\ Config(config)
  /\ i <= Len(config) + 1 /\ Len(table) <= Len(config)
  /\ pc = "start" => Len(table) < i
  /\ pc \in {"read", "drain"} => i = 1
  /\ \A k \in DOMAIN table : table[k].entry \in DOMAIN config
  /\ running \in -1..MaxExec /\ failures \in 0..MaxFailures
  /\ pc \in {"read", "start", "loop", "stop", "stop_all", "drain", "wait", "death",
             "leave", "leave_freed"} \cup Ends

(* The bounds hold when myinit has ended.                                  *)
LEMMA EndIsBounded ==
  ASSUME Bounded, NEW how \in Ends, End(how)
  PROVE  Bounded'
<1>1. /\ pc' = how /\ i' = 1 /\ config' = <<>> /\ table' = <<>> /\ running' = 0
      /\ failures' = failures
  BY Untouched, Zenon DEF End, SameHistory
<1> QED BY <1>1, LimitsAssumption DEF Bounded, Config, Ends

(* A restart that fails counts down, to -1 at the least.                   *)
LEMMA FailureIsBounded ==
  ASSUME Bounded, RestartFails
  PROVE  running' \in -1..MaxExec /\ failures' \in 0..MaxFailures
<1>1. running \in -1..MaxExec /\ failures \in 0..MaxFailures
  BY DEF Bounded
<1>2. running' \in -1..MaxExec
  <2> DEFINE S == {running - 1, -1}
  <2>1. \E m \in S : \A n \in S : n <= m
    BY <1>1, LimitsAssumption
  <2>2. Max(S) \in S /\ \A n \in S : n <= Max(S)
    BY <2>1 DEF Max
  <2>3. running' = Max(S)
    BY RestartFailsDoes
  <2> HIDE DEF S
  <2>4. running' \in S /\ -1 <= running'
    BY <2>2, <2>3 DEF S
  <2> QED BY <1>1, <2>4, LimitsAssumption DEF S
<1>3. failures' \in 0..MaxFailures
  <2> DEFINE S == {failures + 1, MaxFailures}
  <2>1. S \in SUBSET Nat /\ S # {} /\ MaxFailures \in S
    BY <1>1, BoundsAssumption
  <2>2. failures' = Min(S)
    BY RestartFailsDoes
  <2> HIDE DEF S
  <2>3. Min(S) \in S /\ \A k \in S : Min(S) <= k
    BY <2>1, MinIsLeast
  <2>4. failures' \in Nat /\ failures' <= MaxFailures
    BY <2>1, <2>2, <2>3
  <2> QED BY <2>4, BoundsAssumption
<1> QED BY <1>2, <1>3

(* The bounds hold in every reachable state.                               *)
LEMMA BoundedAlways == Spec => []Bounded
<1>1. Init => Bounded
  BY LimitsAssumption, BoundsAssumption DEF Init, Bounded, Config
<1>2. TypesOK /\ Bounded /\ [Next]_vars => Bounded'
  <2> SUFFICES ASSUME TypesOK, Bounded, [Next]_vars
               PROVE  Bounded'
    OBVIOUS
  <2>a. /\ Len(config) \in Nat /\ Len(table) \in Nat /\ i \in Nat /\ i >= 1
        /\ DOMAIN config = 1..Len(config) /\ Len(config) <= MaxExec
    BY DEF TypesOK, Bounded, Config
  <2> USE DEF SameElse, SameTable, SameHistory
  <2>1. CASE ReadConfig
    <3>1. /\ pc = "read" /\ pc' = "start" /\ i' = i /\ table' = <<>>
          /\ running' = running /\ failures' = failures
      BY <2>1, ReadConfigDoes
    <3>2. Config(config') /\ Len(config') \in Nat
      BY <2>1, ParsedIsConfig DEF ReadConfig, Config
    <3> QED BY <3>1, <3>2 DEF Bounded
  <2>2. CASE StartChild
    <3>1. PICK p \in Pids : table' = Append(table, [pid |-> p, entry |-> i])
      BY <2>2, StartChildDoes
    <3>2. /\ pc = "start" /\ pc' = "start" /\ i' = i + 1 /\ config' = config
          /\ running' = running /\ failures' = failures
      BY <2>2, StartChildDoes
    <3>3. i <= Len(config)
      BY <2>2 DEF StartChild
    <3>4. /\ Len(table') = Len(table) + 1 /\ DOMAIN table' = 1..(Len(table) + 1)
          /\ table'[Len(table) + 1].entry = i
          /\ \A k \in DOMAIN table : table'[k] = table[k]
      BY <3>1 DEF TypesOK, Entries
    <3>5. \A k \in DOMAIN table' : k \in DOMAIN table \/ k = Len(table) + 1
      BY <3>4 DEF TypesOK
    <3>6. \A k \in DOMAIN table' : table'[k].entry \in DOMAIN config
      BY <2>a, <3>3, <3>4, <3>5 DEF Bounded
    <3> QED BY <2>a, <3>2, <3>3, <3>4, <3>6 DEF Bounded
  <2>3. CASE StartFails
    <3>1. i <= Len(config)
      BY <2>3 DEF StartFails
    <3> QED BY <2>3, <2>a, <3>1, StartFailsDoes DEF Bounded
  <2>4. CASE Started
    <3>1. Len(table) \in -1..MaxExec
      BY <2>a, LimitsAssumption DEF Bounded
    <3>2. /\ pc' \in {"wait", "loop"} /\ i' = 1 /\ table' = table /\ config' = config
          /\ failures' = failures /\ running' \in {running, Len(table)}
      BY <2>4, StartedDoes
    <3> QED BY <2>a, <3>1, <3>2 DEF Bounded
  <2>5. CASE TestLoop
    BY <2>5, <2>a, TestLoopDoes DEF Bounded
  <2>6. CASE StopChild
    BY <2>6, <2>a, StopChildDoes DEF Bounded
  <2>7. CASE StoppedChildren
    <3>1. CASE pc = "stop_all"
      BY <2>7, <3>1, EndIsBounded DEF StoppedChildren, Ends
    <3>2. CASE pc = "stop"
      <4>1. pc' = "drain" /\ i' = 1 /\ tableVars' = tableVars /\ histVars' = histVars
        BY <2>7, <3>2, Zenon DEF StoppedChildren
      <4> QED BY <2>a, <4>1, Untouched DEF Bounded
    <3> QED BY <2>7, <3>1, <3>2 DEF StoppedChildren
  <2>8. CASE Drain
    BY <2>8, DrainDoes DEF Bounded
  <2>9. ASSUME NEW p \in Pids, Reap(p)
        PROVE  Bounded'
    BY <2>9, <2>a, ReapDoes DEF Bounded
  <2>10. CASE NoneDied \/ NoChildren
    BY <2>10, NoneDiedDoes DEF Bounded
  <2>11. CASE Restart
    <3>1. PICK k \in DOMAIN table : k = Min(Matches)
      BY <2>11, RestartDoes, FirstMatch DEF TypesOK
    <3>2. PICK p \in Pids : table' = [table EXCEPT ![k].pid = p]
      BY <2>11, <3>1, RestartDoes
    <3>3. /\ pc = "death" /\ pc' = pc /\ i' = k + 1 /\ config' = config
          /\ running' = running /\ failures' = failures
      BY <2>11, <3>1, RestartDoes
    <3>4. /\ Len(table') = Len(table) /\ DOMAIN table' = DOMAIN table
          /\ \A n \in DOMAIN table : table'[n].entry = table[n].entry
      BY <3>2, RestartReplaces DEF TypesOK
    <3>5. k \in Nat /\ k <= Len(table)
      BY <3>1 DEF TypesOK
    <3> QED BY <2>a, <3>3, <3>4, <3>5 DEF Bounded
  <2>12. CASE RestartFails
    <3>1. PICK k \in DOMAIN table : k = Min(Matches)
      BY <2>12, RestartFailsDoes, FirstMatch DEF TypesOK
    <3>2. k \in Nat /\ k <= Len(table)
      BY <3>1 DEF TypesOK
    <3>3. pc = "death" /\ pc' = pc /\ i' = k + 1 /\ config' = config /\ table' = table
      BY <2>12, <3>1, RestartFailsDoes
    <3> QED BY <2>12, <2>a, <3>2, <3>3, FailureIsBounded DEF Bounded
  <2>13. CASE Handled
    BY <2>13, <2>a, HandledDoes DEF Bounded
  <2>14. CASE Leave
    <3>1. CASE ~shutdown \/ pc = "leave_freed"
      BY <2>14, <3>1, EndIsBounded DEF Leave, Ends
    <3>2. CASE shutdown /\ pc = "leave"
      <4>1. pc' = "stop_all" /\ i' = i /\ tableVars' = tableVars /\ histVars' = histVars
        BY <2>14, <3>2, Zenon DEF Leave
      <4> QED BY <4>1, <3>2, Untouched DEF Bounded
    <3> QED BY <2>14, <3>1, <3>2 DEF Leave
  <2>15. CASE Sighup \/ Shutdown \/ UNCHANGED vars
    BY <2>15, SignalDoes DEF Bounded
  <2>16. CASE ReadFails \/ Kill
    BY <2>16, EndIsBounded DEF ReadFails, Kill, Ends
  <2>17. ASSUME NEW p \in Pids, Exec(p) \/ ChildDies(p)
         PROVE  Bounded'
    BY <2>17, ChildDoes DEF Bounded
  <2> QED
    BY <2>1, <2>2, <2>3, <2>4, <2>5, <2>6, <2>7, <2>8, <2>9, <2>10, <2>11, <2>12,
       <2>13, <2>14, <2>15, <2>16, <2>17 DEF Next, MyInitStep, Environment
<1> QED BY <1>1, <1>2, TypesHold, PTL DEF Spec

(* The type invariant: the loops stay within config and table, every entry *)
(* of the table is of the configuration, and the counters within bounds,   *)
(* for every set of pids, every file and every limit.                      *)
THEOREM TypeOKHolds == Spec => []TypeOK
<1>1. TypesOK /\ FlagsOK /\ Bounded => TypeOK
  <2> SUFFICES ASSUME TypesOK, FlagsOK, Bounded
               PROVE  TypeOK
    OBVIOUS
  <2>1. i \in 1..MaxExec + 1 /\ dead \in Pids \cup {NoPid}
    BY LimitsAssumption DEF TypesOK, FlagsOK, Bounded, Config
  <2>2. \A k \in DOMAIN table : table[k].pid \in Pids /\ table[k].entry \in DOMAIN config
    <3>1. \A k \in DOMAIN table : table[k] \in Entries
      BY DEF TypesOK
    <3> QED BY <3>1 DEF Bounded, Entries
  <2>3. {handlers, shutdown, reload, reloaded, unheard} \subseteq BOOLEAN
    BY DEF FlagsOK
  <2>4. \A p \in Pids : proc[p].st \in Alive \cup {"none", "zombie"}
    BY DEF TypesOK, ProcessTable, IsProcess
  <2> QED BY <2>1, <2>2, <2>3, <2>4 DEF TypeOK, Bounded, Config
<1> QED BY <1>1, TypesHold, FlagsAlways, BoundedAlways, PTL
=============================================================================
