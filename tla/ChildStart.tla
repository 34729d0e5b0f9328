----------------------------- MODULE ChildStart -----------------------------
(***************************************************************************)
(* From the start of myinit to the program of one child (main.c,           *)
(* demonize.c, logger.c and start_child_process of myinit.c): which file   *)
(* is behind which descriptor, and where the messages of the logger go.    *)
(* myinit forks the child again whenever it ends, until a fork() fails.    *)
(* Meanwhile anybody may create, remove or protect files: validation       *)
(* looked at an older disk.                                                *)
(***************************************************************************)
EXTENDS ConfigParser

CONSTANTS
  ConfigFiles,   \* the contents the configuration file can have
  Disks,         \* the states of the file system
  MaxFd          \* descriptors are 0..MaxFd

ASSUME FdAssumption == MaxFd \in Nat /\ MaxFd >= 3
ASSUME ContentsAssumption == ConfigFiles \subseteq Seq(Seq(STRING))

Fds == 0..MaxFd
Open(name, mode) == <<name, mode>>
Closed == Open("none", "closed")

VARIABLES
  pc,          \* where myinit, and after fork() the child, is
  parent, fds, \* the descriptors of myinit and of the child
  logFd,       \* log_fd, the descriptor under log_out
  file, items, \* the configuration file and what parse() made of it
  entry,       \* exec_config
  disk, validated,   \* the disk now, and as it was when parse() looked
  messages     \* what the child has logged, and into which file

mainVars == <<parent, logFd, file, items, validated>>
vars == <<pc, mainVars, fds, entry, disk, messages>>

NoEntry == [argv |-> <<>>, in |-> "", out |-> ""]
Init ==
  /\ pc = "main"
  /\ \E opened \in SUBSET Fds :
       parent = [d \in Fds |-> IF d \in opened THEN Open("inherited", "rw") ELSE Closed]
  /\ fds = parent /\ logFd = -1
  /\ file \in ConfigFiles /\ items = <<>> /\ entry = NoEntry
  /\ disk \in Disks /\ validated = disk
  /\ messages = {}

(* What open(), dup2() and close() do to a table of descriptors.           *)
Lowest(f) == Min({d \in DOMAIN f : f[d] = Closed})
Opened(f, what) == [f EXCEPT ![Lowest(f)] = what]
Dup2(f, from, to) == [f EXCEPT ![to] = f[from]]
Close(f, d) == [f EXCEPT ![d] = Closed]

(* demonize() closes every descriptor, fopen() of the log takes the lowest.*)
Demonize ==
  /\ pc = "main" /\ pc' = "demon"
  /\ parent' = [d \in Fds |-> Closed]
  /\ UNCHANGED <<logFd, file, items, validated, fds, entry, disk, messages>>
OpenLog ==
  /\ pc = "demon" /\ pc' = "config"
  /\ parent' = Opened(parent, Open("log", "a")) /\ logFd' = Lowest(parent)
  /\ UNCHANGED <<file, items, validated, fds, entry, disk, messages>>
StartUpFails ==
  /\ pc \in {"main", "demon", "config"} /\ pc' = "ended"
  /\ UNCHANGED <<mainVars, fds, entry, disk, messages>>

(* get_config_list opens, parses and closes the file.                      *)
LoadConfig ==
  /\ pc = "config" /\ pc' = "loop"
  /\ items' = Parse(file, disk) /\ validated' = disk
  /\ UNCHANGED <<parent, logFd, file, fds, entry, disk, messages>>

(* fork() makes a child with the descriptors of myinit, or it fails: then  *)
(* the entry is skipped, or stays in the table with the pid of the dead    *)
(* child, and nothing tries again.                                         *)
Fork ==
  \/ pc' = "child" /\ fds' = parent
  \/ pc' = "abandoned" /\ UNCHANGED fds
(* The first start of any entry; later myinit restarts the same.           *)
StartEntry ==
  /\ pc = "loop" /\ Fork
  /\ \E k \in DOMAIN items : entry' = items[k]
  /\ UNCHANGED <<mainVars, disk, messages>>
(* Mistake: a child that failed before its program started stays dead.     *)
RestartOnce ==
  /\ pc = "dead" /\ messages = {} /\ Fork
  /\ UNCHANGED <<mainVars, entry, disk, messages>>
Restart ==
  /\ pc = "dead" /\ Fork
  /\ UNCHANGED <<mainVars, entry, disk, messages>>

-----------------------------------------------------------------------------
(* start_child_process in the child.  log_perror() writes through log_out, *)
(* whose descriptor is the one of the log only until dup2() replaces it.   *)
LogFailure(kind) ==
  messages' = messages \cup
    {<<kind, IF fds[logFd][2] = "r" THEN "nowhere" ELSE fds[logFd][1]>>}
Exits == pc' = "dead" /\ UNCHANGED fds

RedirectLog ==
  /\ pc = "child" /\ pc' = "open_in"
  /\ fds' = Dup2(fds, logFd, 2)
  /\ UNCHANGED <<mainVars, entry, disk, messages>>

(* Mistake: the new descriptor is closed in any case.                      *)
MovedAndClosed(f, to, what) ==
  LET new == Lowest(f) IN Close(Dup2(Opened(f, what), new, to), new)
(* The new descriptor becomes number to; it is closed if it was another.   *)
Moved(f, to, what) ==
  LET new == Lowest(f)
      f1 == Dup2(Opened(f, what), new, to)
  IN  IF new = to THEN f1 ELSE Close(f1, new)

(* Mistake: the input is opened for reading and writing.                   *)
OpenInReadWrite ==
  /\ pc = "open_in"
  /\ IF entry.in \in disk.existing \cap disk.readable
     THEN /\ pc' = "open_out" /\ fds' = Moved(fds, 0, Open(entry.in, "rw"))
          /\ UNCHANGED <<disk, messages>>
     ELSE LogFailure("input") /\ Exits /\ UNCHANGED disk
  /\ UNCHANGED <<mainVars, entry>>
OpenIn ==
  /\ pc = "open_in"
  /\ IF entry.in \in disk.existing \cap disk.readable
     THEN /\ pc' = "open_out" /\ fds' = Moved(fds, 0, Open(entry.in, "r"))
          /\ UNCHANGED <<disk, messages>>
     ELSE LogFailure("input") /\ Exits /\ UNCHANGED disk
  /\ UNCHANGED <<mainVars, entry>>
(* O_CREAT: a file that does not exist is created where that is allowed.   *)
OpenOut ==
  /\ pc = "open_out"
  /\ IF entry.out \in disk.writable
     THEN /\ pc' = "exec" /\ fds' = Moved(fds, 1, Open(entry.out, "w"))
          /\ disk' = [disk EXCEPT !.existing = @ \cup {entry.out}]
          /\ UNCHANGED messages
     ELSE LogFailure("output") /\ Exits /\ UNCHANGED disk
  /\ UNCHANGED <<mainVars, entry>>
Exec ==
  /\ pc = "exec"
  /\ IF ExecPath(entry) \in disk.existing
     THEN pc' = "running" /\ UNCHANGED <<fds, messages>>
     ELSE LogFailure("exec") /\ Exits
  /\ UNCHANGED <<mainVars, entry, disk>>
ProgramEnds ==
  /\ pc = "running" /\ Exits
  /\ UNCHANGED <<mainVars, entry, disk, messages>>

DiskChanges ==
  /\ disk' \in Disks
  /\ UNCHANGED <<pc, mainVars, fds, entry, messages>>

Step ==
  \/ Demonize \/ OpenLog \/ StartUpFails \/ LoadConfig \/ StartEntry \/ Restart
  \/ RedirectLog \/ OpenIn \/ OpenOut \/ Exec \/ ProgramEnds
Next == Step \/ DiskChanges
(* The kernel runs myinit and the child before its exec(), and whether     *)
(* fork() succeeds is not a matter of fairness; the program may run for    *)
(* ever, and nobody has to repair the disk.                                *)
Spec == Init /\ [][Next]_vars /\ WF_vars(Step /\ pc # "running")

-----------------------------------------------------------------------------
(* The entries are the valid lines of the file, in order, up to MAX_EXEC:  *)
(* each one whole, or, beyond the limit of words, cut behind the word that *)
(* is taken for the output file (config_parser.c lines 43 to 51).          *)
GoodLines == {n \in DOMAIN file : Accepted(file[n], validated)}
Position(n) == Cardinality({m \in GoodLines : m <= n})
EntriesAreLines ==
  pc \notin {"main", "demon", "config", "ended"} =>
    /\ Len(items) = Min({MaxExec, Cardinality(GoodLines)})
    /\ \A n \in GoodLines : Position(n) <= MaxExec =>
         LET item == items[Position(n)]
             words == item.argv \o <<item.in, item.out>>
         IN  /\ IsPrefix(words, file[n])
             /\ words # file[n] => Len(words) = MaxArgs + 3

(* Whatever descriptors myinit was started with, a program finds its input *)
(* as 0, its output as 1 and the log as 2, and nothing else open.          *)
StdioAsConfigured ==
  pc = "running" =>
    fds = [d \in Fds |->
             CASE d = 0 -> Open(entry.in, "r")
               [] d = 1 -> Open(entry.out, "w")
               [] d = 2 -> Open("log", "a")
               [] OTHER -> Closed]

(* What validation has looked at does not fail as long as the disk stays   *)
(* as it was: a child ends before its program starts only for its          *)
(* executable, for an output file that does not exist, or after a change.  *)
ValidatedFilesOpen ==
  [][(pc \in {"open_in", "open_out"} /\ pc' = "dead") =>
       (disk # validated \/ (pc = "open_out" /\ entry.out \notin disk.existing))]_vars

(* No message of the logger gets into a file of the children: the one      *)
(* about the input file reaches the log, and after that descriptor 0 is    *)
(* the input, and the messages of myinit.c lines 97 and 107 are lost.      *)
MessagesStayOutOfData ==
  \A m \in messages : m[2] = IF m[1] = "input" THEN "log" ELSE "nowhere"

(* A child is started again and again, however often its open() or exec()  *)
(* has failed: once its files stay in order for good, its program runs.    *)
(* Only a fork() that failed ends this (myinit.c lines 131 and 196).       *)
Startable ==
  /\ entry.in \in disk.existing \cap disk.readable
  /\ entry.out \in disk.writable /\ ExecPath(entry) \in disk.existing
RecoversWithDisk ==
  [](entry # NoEntry => (<>[]Startable => <>(pc \in {"running", "abandoned"})))
=============================================================================
