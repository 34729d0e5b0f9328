------------------------------- MODULE MyInit -------------------------------
(***************************************************************************)
(* run_myinit of t3 (myinit.c): the supervisor, its children and whoever   *)
(* edits the configuration file and sends signals.  The kernel's processes *)
(* are part of the model, because pids are reused and a child is a copy of *)
(* myinit, signal handlers included, between fork() and exec().            *)
(*                                                                         *)
(* Bounds: Pids, and MaxFailures for the forks that fail to restart a      *)
(* child.  A pid that names no child of myinit may be anybody's.           *)
(***************************************************************************)
EXTENDS ConfigParser, Integers

CONSTANTS
  Pids, NoPid,
  Files,            \* the contents the configuration file can have
  Disk,             \* the file system that the parser validates against
  MaxFailures

ASSUME BoundsAssumption == NoPid \notin Pids /\ MaxFailures \in Nat \ {0}
ASSUME FilesAssumption == Files \subseteq Seq(Seq(STRING))

VARIABLES
  pc,          \* where run_myinit is, or how it ended
  i,           \* index of the loops over config or table
  handlers,    \* setup_sigactions() has run
  shutdown, reload,      \* shutdown_flag, reload_config_flag
  config,      \* config_list
  table,       \* pid_and_config_index_array
  running,     \* running_processes
  dead,        \* the pid that waitpid() returned
  proc,        \* the process that each pid names
  \* Whether a reload has begun, whether there was a SIGHUP since the file was
  \* read last, and how often a child could not be restarted.
  reloaded, unheard, failures

loopVars == <<pc, i, dead>>
tableVars == <<config, table, running>>
flagVars == <<handlers, shutdown, reload>>
histVars == <<reloaded, unheard, failures>>
vars == <<loopVars, tableVars, flagVars, histVars, proc>>

Ends == {"nothing_to_run", "stopped", "no_config", "undefined", "killed"}
Gone == pc \in Ends

(* A pid names no child of myinit, or one, of which the parent can see only*)
(* that it is dead or alive.  A copy has the handlers of myinit until its  *)
(* exec(); told means that it got a SIGTERM and lives on.                  *)
Process(st, path, told) == [st |-> st, path |-> path, told |-> told]
None == Process("none", "none", FALSE)
Zombie == Process("zombie", "none", FALSE)
Dying == Process("dying", "none", FALSE)
Child(path) == Process(IF handlers THEN "copy" ELSE "forked", path, FALSE)
Told(p) == Process(proc[p].st, proc[p].path, TRUE)
Running(p) == Process("running", proc[p].path, proc[p].told)
Alive == {"forked", "copy", "running", "dying"}

Init ==
  /\ pc = "read" /\ i = 1 /\ dead = NoPid
  /\ config = <<>> /\ table = <<>> /\ running = 0
  /\ handlers = FALSE /\ shutdown = FALSE /\ reload = FALSE
  /\ proc = [p \in Pids |-> None]
  /\ reloaded = FALSE /\ unheard = FALSE /\ failures = 0

-----------------------------------------------------------------------------
Free == {p \in Pids : proc[p] = None}
Zombies == {p \in Pids : proc[p] = Zombie}
Children == {p \in Pids : proc[p].st \in Alive \cup {"zombie"}}
LiveChildren == {p \in Pids : proc[p].st \in Alive}
Tracked == {table[k].pid : k \in DOMAIN table}

(* fork(): in the child, a copy of myinit.  It may fail at any time, and   *)
(* does when there is no pid left.                                         *)
Fork(path, p) == p \in Free /\ proc' = [proc EXCEPT ![p] = Child(path)]

(* The end of the process, and of its memory.  What its children do later  *)
(* is no longer its affair.                                                *)
End(how) ==
  /\ pc' = how /\ i' = 1 /\ dead' = NoPid
  /\ config' = <<>> /\ table' = <<>> /\ running' = 0
  /\ handlers' = FALSE /\ shutdown' = FALSE /\ reload' = FALSE
  /\ UNCHANGED <<proc, histVars>>

(* Mistake: the table of the old configuration is kept.                    *)
ReadConfigKeepsTable ==
  /\ pc = "read"
  /\ \E file \in Files : config' = Parse(file, Disk)
  /\ pc' = "start" /\ unheard' = FALSE
  /\ UNCHANGED <<i, table, running, dead, proc, flagVars, reloaded, failures>>
(* get_config_list: the file is read at one moment, and somebody edits it  *)
(* at others, so any content may be found.                                 *)
ReadConfig ==
  /\ pc = "read"
  /\ \E file \in Files : config' = Parse(file, Disk)
  /\ table' = <<>> /\ pc' = "start" /\ unheard' = FALSE
  /\ UNCHANGED <<i, running, dead, proc, flagVars, reloaded, failures>>
ReadFails == pc = "read" /\ End("no_config")

(* Mistake: config_index is the number of children started so far.         *)
StartChildMiscounts ==
  /\ pc = "start" /\ i <= Len(config)
  /\ \E p \in Pids :
       /\ Fork(ExecPath(config[i]), p)
       /\ table' = Append(table, [pid |-> p, entry |-> Len(table) + 1])
  /\ i' = i + 1
  /\ UNCHANGED <<pc, dead, config, running, flagVars, histVars>>
(* start_children_processes: an entry whose fork() fails is skipped.       *)
StartChild ==
  /\ pc = "start" /\ i <= Len(config)
  /\ \E p \in Pids :
       /\ Fork(ExecPath(config[i]), p)
       /\ table' = Append(table, [pid |-> p, entry |-> i])
  /\ i' = i + 1
  /\ UNCHANGED <<pc, dead, config, running, flagVars, histVars>>
StartFails ==
  /\ pc = "start" /\ i <= Len(config)
  /\ i' = i + 1
  /\ UNCHANGED <<pc, dead, tableVars, flagVars, histVars, proc>>
(* Mistake: the reload flag is cleared once more when the reload is done.  *)
StartedClearsFlag ==
  /\ pc = "start" /\ i > Len(config)
  /\ handlers' = TRUE /\ reload' = FALSE
  /\ IF handlers THEN pc' = "wait" /\ UNCHANGED running
                 ELSE pc' = "loop" /\ running' = Len(table)
  /\ i' = 1
  /\ UNCHANGED <<dead, config, table, shutdown, proc, histVars>>
(* The first time, the handlers are installed and the children counted; a  *)
(* reload goes on to waitpid().                                            *)
Started ==
  /\ pc = "start" /\ i > Len(config)
  /\ handlers' = TRUE
  /\ IF handlers THEN pc' = "wait" /\ UNCHANGED running
                 ELSE pc' = "loop" /\ running' = Len(table)
  /\ i' = 1
  /\ UNCHANGED <<dead, config, table, shutdown, reload, proc, histVars>>

-----------------------------------------------------------------------------
(* Mistake: the loop goes on as long as there is something to run.         *)
TestLoopWithoutShutdown ==
  /\ pc = "loop"
  /\ pc' = IF running <= 0 /\ ~reload THEN "leave"
           ELSE IF reload THEN "stop" ELSE "wait"
  /\ i' = 1
  /\ reload' = (reload /\ pc' = "leave")
  /\ reloaded' = (reloaded \/ pc' = "stop")
  /\ UNCHANGED <<dead, tableVars, handlers, shutdown, proc, unheard, failures>>
(* The main loop.                                                          *)
TestLoop ==
  /\ pc = "loop"
  /\ pc' = IF shutdown \/ (running <= 0 /\ ~reload) THEN "leave"
           ELSE IF reload THEN "stop" ELSE "wait"
  /\ i' = 1
  /\ reload' = (reload /\ pc' = "leave")
  /\ reloaded' = (reloaded \/ pc' = "stop")
  /\ UNCHANGED <<dead, tableVars, handlers, shutdown, proc, unheard, failures>>

(* stop_children_processes sends SIGTERM to one pid of the table: a copy   *)
(* of myinit may run the handler it inherited, which sets a flag nobody    *)
(* reads.                                                                  *)
Sigterm(p) ==
  \/ /\ proc[p].st \in {"forked", "copy", "running"}
     /\ proc' = [proc EXCEPT ![p] = Dying]
  \/ proc[p].st = "copy" /\ proc' = [proc EXCEPT ![p] = Told(p)]
  \/ proc[p] \in {None, Zombie, Dying} /\ UNCHANGED proc
StopChild ==
  /\ pc \in {"stop", "stop_all"} /\ i <= Len(table)
  /\ Sigterm(table[i].pid) /\ i' = i + 1
  /\ UNCHANGED <<pc, dead, tableVars, flagVars, histVars>>
StoppedChildren ==
  /\ pc \in {"stop", "stop_all"} /\ i > Len(table)
  /\ IF pc = "stop_all" THEN End("stopped")
     ELSE /\ pc' = "drain" /\ i' = 1
          /\ UNCHANGED <<dead, tableVars, flagVars, histVars, proc>>

(* reload_config: the dead are reaped, no one waits for the others.        *)
Drain ==
  /\ pc = "drain"
  /\ IF Zombies = {}
     THEN pc' = "read" /\ UNCHANGED proc
     ELSE pc' = pc /\ \E p \in Zombies : proc' = [proc EXCEPT ![p] = None]
  /\ UNCHANGED <<i, dead, tableVars, flagVars, histVars>>

(* Mistake: waitpid() only for the pids of the table.                      *)
ReapTracked(p) ==
  /\ pc = "wait" /\ p \in Zombies \cap Tracked
  /\ proc' = [proc EXCEPT ![p] = None]
  /\ dead' = p /\ i' = 1 /\ pc' = "death"
  /\ UNCHANGED <<tableVars, flagVars, histVars>>
(* waitpid(-1, &status, WNOHANG) in the loop.                              *)
Reap(p) ==
  /\ pc = "wait" /\ p \in Zombies
  /\ proc' = [proc EXCEPT ![p] = None]
  /\ dead' = p /\ i' = 1 /\ pc' = "death"
  /\ UNCHANGED <<tableVars, flagVars, histVars>>
NoneDied ==
  /\ pc = "wait" /\ Zombies = {} /\ Children # {}
  /\ pc' = "loop"
  /\ UNCHANGED <<i, dead, tableVars, flagVars, histVars, proc>>
(* ECHILD: the table is freed and the loop left.                           *)
NoChildren ==
  /\ pc = "wait" /\ Children = {}
  /\ pc' = "leave_freed"
  /\ UNCHANGED <<i, dead, tableVars, flagVars, histVars, proc>>

(* handle_child_death: every entry with the pid of the dead is restarted.  *)
Matches == {k \in i..Len(table) : table[k].pid = dead}
(* Mistake: the new pid is not put into the table.                         *)
RestartForgetsPid ==
  /\ pc = "death" /\ Matches # {}
  /\ i' = Min(Matches) + 1
  /\ \E p \in Pids : Fork(ExecPath(config[table[Min(Matches)].entry]), p)
  /\ UNCHANGED <<pc, dead, tableVars, flagVars, histVars>>
(* Mistake: running_processes counts the death, also of the restarted.     *)
RestartCountsDown ==
  /\ pc = "death" /\ Matches # {}
  /\ LET k == Min(Matches)
     IN  /\ i' = k + 1
         /\ \E p \in Pids : /\ Fork(ExecPath(config[table[k].entry]), p)
                            /\ table' = [table EXCEPT ![k].pid = p]
  /\ running' = Max({running - 1, -1})
  /\ UNCHANGED <<pc, dead, config, flagVars, histVars>>
Restart ==
  /\ pc = "death" /\ Matches # {}
  /\ LET k == Min(Matches)
     IN  /\ i' = k + 1
         /\ \E p \in Pids : /\ Fork(ExecPath(config[table[k].entry]), p)
                            /\ table' = [table EXCEPT ![k].pid = p]
  /\ UNCHANGED <<pc, dead, config, running, flagVars, histVars>>
(* Mistake: running_processes does not count it.                           *)
RestartFailsUncounted ==
  /\ pc = "death" /\ Matches # {}
  /\ failures < MaxFailures \/ Free = {}
  /\ failures' = Min({failures + 1, MaxFailures})
  /\ i' = Min(Matches) + 1
  /\ UNCHANGED <<pc, dead, tableVars, proc, flagVars, reloaded, unheard>>
(* The entry keeps the pid of the dead; below 0 all counts are alike.      *)
RestartFails ==
  /\ pc = "death" /\ Matches # {}
  /\ failures < MaxFailures \/ Free = {}
  /\ failures' = Min({failures + 1, MaxFailures})
  /\ i' = Min(Matches) + 1 /\ running' = Max({running - 1, -1})
  /\ UNCHANGED <<pc, dead, config, table, proc, flagVars, reloaded, unheard>>
Handled ==
  /\ pc = "death" /\ Matches = {}
  /\ pc' = "loop" /\ i' = 1 /\ dead' = NoPid
  /\ UNCHANGED <<tableVars, flagVars, histVars, proc>>

(* After the loop: to stop the children by a freed table is undefined.     *)
Leave ==
  /\ pc \in {"leave", "leave_freed"}
  /\ IF ~shutdown THEN End("nothing_to_run")
     ELSE IF pc = "leave_freed" THEN End("undefined")
     ELSE /\ pc' = "stop_all"
          /\ UNCHANGED <<i, dead, tableVars, flagVars, histVars, proc>>

MyInitStep ==
  \/ ReadConfig \/ ReadFails \/ StartChild \/ StartFails \/ Started
  \/ TestLoop \/ StopChild \/ StoppedChildren \/ Drain
  \/ (\E p \in Pids : Reap(p)) \/ NoneDied \/ NoChildren
  \/ Restart \/ RestartFails \/ Handled \/ Leave

-----------------------------------------------------------------------------
(* Signals to myinit.  Before setup_sigactions() each of them ends it, and *)
(* SIGKILL does at any time.                                               *)
Sighup ==
  /\ ~Gone /\ handlers /\ reload' = TRUE /\ unheard' = TRUE
  /\ UNCHANGED <<loopVars, tableVars, handlers, shutdown, reloaded, failures, proc>>
Shutdown ==
  /\ ~Gone /\ handlers /\ shutdown' = TRUE
  /\ UNCHANGED <<loopVars, tableVars, handlers, reload, histVars, proc>>
Kill == ~Gone /\ End("killed")

(* The child before exec(), its program, and its death in either.          *)
Becomes(p, p1) ==
  /\ ~Gone /\ proc' = [proc EXCEPT ![p] = p1]
  /\ UNCHANGED <<loopVars, tableVars, flagVars, histVars>>
Exec(p) == proc[p].st \in {"forked", "copy"} /\ Becomes(p, Running(p))
ChildDies(p) == proc[p].st \in Alive /\ Becomes(p, Zombie)

Environment ==
  \/ Sighup \/ Shutdown \/ Kill
  \/ \E p \in Pids : Exec(p) \/ ChildDies(p)

Next == MyInitStep \/ Environment
Spec == Init /\ [][Next]_vars

(* myinit is scheduled; the kernel looks for the dead in the order of the  *)
(* forks, so none is passed over for ever (SF); a child that was forked    *)
(* gets to its exec() or dies, and one that got SIGTERM dies.  Nothing     *)
(* else has to happen: a program may run for ever.                         *)
Fairness ==
  /\ WF_vars(MyInitStep)
  /\ \A p \in Pids :
       /\ SF_vars(Reap(p))
       /\ WF_vars(proc[p].st \in {"forked", "copy", "dying"} /\ (Exec(p) \/ ChildDies(p)))
FairSpec == Spec /\ Fairness

-----------------------------------------------------------------------------
TypeOK ==
  /\ pc \in {"read", "start", "loop", "stop", "stop_all", "drain", "wait", "death",
             "leave", "leave_freed"} \cup Ends
  /\ i \in 1..MaxExec + 1 /\ dead \in Pids \cup {NoPid}
  /\ Len(config) <= MaxExec /\ Len(table) <= Len(config)
  /\ \A k \in DOMAIN table : table[k].pid \in Pids /\ table[k].entry \in DOMAIN config
  /\ running \in -1..MaxExec
  /\ {handlers, shutdown, reload, reloaded, unheard} \subseteq BOOLEAN
  /\ \A p \in Pids : proc[p].st \in Alive \cup {"none", "zombie"}
  /\ failures \in 0..MaxFailures

(* myinit knows every child that runs and has not been sent a SIGTERM: a   *)
(* child it forgot could be neither stopped nor restarted (myinit.c lines  *)
(* 137 to 141 and 202).                                                    *)
EveryChildIsTracked ==
  pc \in {"loop", "wait", "death", "stop_all"} =>
    \A p \in LiveChildren :
      proc[p].told \/ proc[p].st = "dying" \/ p \in Tracked

(* Unless a restart failed, whoever uses the table finds it right: its pids*)
(* are children that have not been reaped, each with the program of its    *)
(* entry, so that kill() never reaches a stranger, whatever pids the kernel*)
(* uses again; and until the first reload running_processes counts them.   *)
TableIsRight ==
  failures = 0 /\ pc \in {"loop", "stop", "stop_all", "wait"} =>
    /\ \A k, n \in DOMAIN table : table[k].pid = table[n].pid => k = n
    /\ \A k \in DOMAIN table :
         LET child == proc[table[k].pid]
         IN  \/ child \in {Zombie, Dying}
             \/ child.st # "none" /\ child.path = ExecPath(config[table[k].entry])
    /\ ~reloaded => running = Len(table)

(* When myinit has ended, a child that runs and was not told to stop was   *)
(* left by a kill, by a use of the freed table, or by a count that a       *)
(* reload or two failed restarts made wrong (myinit.c line 334 says        *)
(* "nothing to run").                                                      *)
LeavesNoChild ==
  Gone /\ (\E p \in LiveChildren : ~proc[p].told /\ proc[p].st # "dying") =>
    \/ pc \in {"killed", "undefined"}
    \/ pc = "nothing_to_run" /\ (reloaded \/ failures > 1)

(* The table is freed before the end of the loop only after a reload: until*)
(* then running_processes reaches 0 before the last child is gone.         *)
FreedOnlyAfterReload == pc \in {"leave_freed", "undefined"} => reloaded

(* A SIGHUP is never lost: the file is read once more after the last one,  *)
(* also when the signal comes while a reload is under way.                 *)
EditsTakeEffect == unheard ~> ~unheard \/ Gone \/ shutdown

(* SIGTERM ends myinit, whatever its children do.                          *)
ShutdownEnds == shutdown ~> Gone

(* No dead child stays a zombie, of the old configuration or the new one.  *)
DeadAreReaped == \A p \in Pids : proc[p] = Zombie ~> proc[p] # Zombie \/ Gone

(* runme.sh line 66: after a reload only the processes of the new file     *)
(* remain; those of the old one are gone at some time.                     *)
Outdated(p) == p \in LiveChildren \ Tracked /\ pc \in {"loop", "wait", "death"}
OldChildrenGo == \A p \in Pids : Outdated(p) ~> ~(p \in LiveChildren \ Tracked) \/ Gone
=============================================================================
