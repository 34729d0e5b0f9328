# Formal verification of unix-practise-2026

The repository holds four small Unix programs written as course work: a sparse
copier (`t1`), a file lock built on lock files and inotify (`t2`), a daemon that
starts and restarts children (`t3`), and a server that adds up the numbers its
clients send over a UNIX socket (`t4`). This directory holds TLA+ models of
them, TLC configurations that check the models on small instances, and TLAPS
proofs of what holds for every number of processes, clients, pids and bytes. All
paths below are relative to the repository.

How to run, inside this directory:

    tlc -workers 2 -config MCFileLock.cfg MCFileLock
    tlapm FileLockProofs.tla          # and the other *Proofs modules

`PROJECT.json` lists every run with its module and configuration, the source
lines behind every definition, the hazards, the findings and the theorems.

## 1. Inventory

| part | state it keeps | operations | how it meets the others |
|---|---|---|---|
| `t2/src/lock.c` | the lock file `<target>.lck` with a pid in it, an inotify watch and its queue per process, the descriptor handed to the caller | `get_lock`, `unlock` | processes meet only through the directory: `open(O_EXCL)`, `unlink`, `IN_DELETE` events |
| `t2/src/worker.c` | `keep_running`, the number of locks taken | the loop get, sleep, unlock; `handle_sigint` | started and stopped (`kill -INT`, `wait`) by `t2/runme.sh` |
| `t2/src/main.c` | a line of the target file | get, append a line with the time, unlock | several at once on one target file |
| `t4/src/server/server.c`, `main.c` | `fds`, `clients` (descriptor, buffer, fill), `nfds`, the total `state`, `shutdown_flag` | start-up of the socket, accept, read a piece, apply a line, answer, close, shut down | clients over a stream socket; signals |
| `t4/src/client/main.c` | position in its input, `shutdown_flag`, exit status | connect, send a piece, receive an answer; data-file loop and stdin loop | the server; signals |
| `t4/runme.sh` | none | starts a server and 100 clients, checks that the total is 0, stops it | |
| `t3/src/myinit/myinit.c` | the list of configurations, the table of (pid, index of configuration), `running_processes`, two signal flags | start, restart on death, reload on SIGHUP, stop on SIGINT/SIGTERM; `start_child_process` in the child | fork/waitpid/kill with its children, the configuration file |
| `t3/.../config_parser.c`, `validation.c` | none | the lines of a file to a list of `ExecConfig` | called by myinit.c; `access()` on the disk of that moment |
| `t3/.../main.c`, `demonize.c`, `logger.c` | the table of descriptors, `log_fd` and `log_out` | close everything, open the log, write messages | children inherit the descriptors and the logger |
| `t3/.../crash_handler.c`, `t3/src/dummy` | none | one line of text and `_exit`; sleep | |
| `t1/src/sparser.c` | offset, length, pending `skip` | the copy loop and the final `ftruncate` | reads a file or a pipe |
| `t1/src/fake_sparse_file_generator.c` | the span it is in | writes spans of data and zeros | its output is the input of sparser, by `t1/runme.sh` |

What is hard in them, and what makes them correct:

* **Lock library.** Processes race for one name after each `unlink`; a process
  may go from a failed `open` to a blocking `read` while the holder unlinks;
  every call after the creation of the file may fail or the process may die,
  and the file stays; `unlock` checks one file and removes another if the name
  has changed hands. Correct means: one holder at a time, no wake-up lost, only
  the own file removed, and an abandoned lock only after a failure or a death.
* **Worker and one-shot locker.** The flag of SIGINT is looked at only between
  two rounds, so that the stop of all workers depends on each making way for
  the next. Correct means: the workers drain, a free lock moves on, exit status
  0 leaves nothing behind, the lines of the file are in time order.
* **Server.** One thread scans an array that it changes while it scans it; the
  entries of `poll()` outlive connections; the stream has to be cut into lines
  in a small buffer; signals arrive between a test and a blocking call; a
  client may leave between its request and the answer. Correct means: the table
  and the open connections agree, each line is applied once and whole in the
  order of its client, everybody who asked is answered, the server can be
  stopped.
* **Client.** It waits for one answer for each piece it sends. Correct means:
  status 0 says that the whole data file was added.
* **Supervisor.** The counter of running children, the pids of the dead and the
  table that is freed and used afterwards, across deaths, failed forks, reloads
  and signals; the kernel uses pids again; a child between `fork` and `exec` is a
  copy of myinit and runs its handlers. Correct means: every running child is in
  the table, the table names children of myinit and no strangers, no child is
  left behind, an edited file takes effect, a shutdown ends.
* **Parser and start of a child.** Limits on words and lines; files are checked
  when the file is parsed and opened at every restart; descriptors move with
  `dup2` over numbers that may be free, the log's, or the right one already.
  Correct means: an entry is a line, the program has its files as 0, 1 and 2
  and nothing else, no message gets into a data file, a child recovers unless a
  `fork` fails.
* **Sparse copy and generator.** Short reads of a pipe shift the blocks, a hole at the
  end is never written, the disk may fill up. Correct means: whatever ends the
  copy, what is there is right; status 0 means all of it is there; the blocks
  that the README of t1 promises to save are saved when the reads are whole, and
  short ones waste blocks only next to data.

The complete list, at its lines, is `hazards` in `PROJECT.json`.

## 2. Modules

| module | stands for | role |
|---|---|---|
| `Mutex` | what the callers of `lock.c` rely on | abstract specification |
| `FileLock` | `lock.c` | component, all operations |
| `LockWorker` | `worker.c` on top of `FileLock` | composition |
| `LockMain` | `main.c` of t2 on top of `FileLock` | composition |
| `Accumulator` | what a user of the t4 server relies on | abstract specification |
| `Wire` | bytes, lines, `strtol`, `int` | operators |
| `UnixSocket` | the kernel between server and clients (external) | component |
| `Server` | `run_server` and the functions it calls | component |
| `StreamClients` | `Server` with clients of any kind | composition |
| `Client` | `client/main.c` | component |
| `ClientServer` | `Server` with its own clients, as `t4/runme.sh` runs them | composition |
| `ConfigParser` | `config_parser.c`, `validation.c` | operators |
| `MyInit` | `run_myinit` with its children and the kernel's processes | component |
| `ChildStart` | `main.c`, `demonize.c`, `logger.c`, `start_child_process` | component |
| `SparseCopy` | `sparser.c` | component |
| `SparseTest` | the generator and the chain of `t1/runme.sh`, on top of `SparseCopy` | composition |
| `FileLockProofs`, `LockWorkerProofs`, `LockMainProofs`, `ServerProofs`, `ClientServerProofs`, `MyInitProofs`, `ChildStartProofs`, `SparseTestProofs` | | theorems about the module of that name, with the lemmas they rest on |
| `MC*` | values of the constants for TLC | |

Some modules hold operators whose comment starts with "Mistake". They are
plausible bugs, used to see that each property can fail: the `mutants` of
`PROJECT.json` put them in the place of the operation they resemble. No
specification uses them.

### FileLock

State: `pc[p]` is the next system call of process `p`; `lck` is the creator of
the file that has the name `<target>.lck` now; `content[p]` is the pid in the
file that `p` created last, read back through its own descriptor; `watching` and
`pending` are the inotify watches and whether their queues hold an event.

A step is a system call that another process can see, with the computation up
to the next one. `GetLock` is the entry up to `inotify_add_watch`, `OpenCreates` and
`OpenFindsFile` are the two outcomes of `open(O_CREAT|O_EXCL)`, `ReadEvent` the
`read` of the queue, `ErrorCleanup` the label of that name, `RmWatch` and
`WritePid` the rest of `get_lock`; `Unlock` is the check of the pid, `Unlink` and
`Close` the rest of `unlock`. Each failing call is an action of its own
(`...Fails`, `...Refused`), enabled by the constant `Faults`. `Crash` is SIGKILL at
any point; `Interrupt` is a signal during `read`; `DeleteOther` is the deletion of
another file of the directory, for which every watch has an event too;
`RemoveByHand` is a person who removes a lock file.

Choices: the removal of a name and its `IN_DELETE` event are one step, since the
kernel does both under the lock of the directory; equal events in a queue are
merged by the kernel and `read` takes the whole queue, so that a Boolean is enough;
whether a signal restarts `read` or ends it with EINTR is left open, the two
programs set up their handlers differently. Formatting of the pid is left out,
its comparison is kept. A file that has lost its name matters only to the
process that still has it open, therefore a file is named by its creator; the
two callers never call `get_lock` again after a failure, they exit.

### LockWorker and LockMain

Both EXTEND `FileLock` and conjoin its actions with their own variables.
`LockWorker` adds `keepRunning[p]` and the exit status; `LockMain` adds a clock, the
time each process has read (`stamp`), the result of `do_something_with_file`
(`outcome`), the lines of the file (`journal`) and the exit status. A line reaches
the file at `fclose`; a failing `fclose` may or may not have written it.

### Wire, UnixSocket, Server

A byte is a digit, newline, minus or any other character; NUL bytes, leading
white space and `+` are left out. `ToInt` keeps the low bits, as the conversion of
`long` to `int` does, and as the addition does in the build of the Makefile,
which does not ask for optimisation; a signed overflow is undefined in C.
`AddedFor` is `strtol` with its checks and the cast. `LinesOf` cuts a stream at its
newlines, `SumOf` and `AddedByAll` add without a limit; they serve the properties, the
server does not call them.

`UnixSocket` has one connection per client, with bytes up and answers down, and
remembers all that a client wrote (`wrote`, for the properties); it has a backlog; `connect` succeeds before `accept`, and fails before `listen`. A
client's own buffer holds `AnswerRoom` answers: when it is full, the server's `send`
blocks. The backlog (SOMAXCONN) and the buffer towards the server do not fill
up, and a client connects once.

In `Server`, `conns` is the sequence of `clients[1..nfds-1]` with their buffers and
`revents` is the array that `poll` fills. It keeps its values past `nfds`, because
the code never clears them: `handle_new_connection` sets `fd` and `events` only.
`SetupSigactions` and `SetupSocket` are the start, `StartUpFails` its failures; a
signal before the first of them ends the process.
`TestFlag`, `PollBlocks` and `PollReturns` are the head of the loop, with the moment
between the test of the flag and `poll`; `SkipSlot` and `EndScan` are the `for`
loop; `AcceptConnection`, `RejectConnection` and `AcceptFails` (the client stays in the
backlog) are `handle_new_connection`;
`ReadEnd`, `ReadLine`, `ReadPart` and `ReadOverflow` are the outcomes of
`handle_client_data`, with `RemoveSlot` for `handle_close_client`; `SendAnswer` and
`SendRaisesSigpipe` are its `send`. `Terminate` is SIGINT or SIGTERM, at any time.
The variable `log[c]` is the record of the lines the server logs for `c`; it
exists for the properties and guards nothing. `ServerNext` adds clients that do
whatever a socket allows (`ClientMoves`); the properties of the stream and the
refinement of `Accumulator` are stated here, about `log` and `wrote`, so that they
make sense for clients of every kind. `Accumulator` takes what a request is, and the
total that it makes, as constants; `Server` gives it lines and `Added`.

### Client, StreamClients, ClientServer

`Client` is the two loops of the program. `Piece(c)` is what it sends next: with
`--data` a whole line, read byte by byte up to its newline (the unterminated
tail is dropped); without, what `fgets` returns. The handler's
`sa_flags` is never initialised, so a signal during `recv` either ends it
(`ReceiveInterrupted`) or does not (`SignalClient`); both are possible. The flag is
tested behind an answer, so that a signal that arrives later may still be
followed by one more piece (`ready`, against `leaving`). Pauses and the statistics
file are left out, nobody else sees them.

`StreamClients` gives the clients of `ServerNext` something finite to say, for TLC: each
writes its stream in pieces of any size, reads its answers or not, and hangs up at
any time. `ClientServer` puts the real client there, and starts it before, while or
after the server listens.

### ConfigParser, MyInit, ChildStart

A line of the configuration file is the sequence of its words. `Kept` is the cut at the
limit, `EntryOf` makes an entry of what was kept, `Valid` is `validation.c` on the disk
`access()` sees, and `Parse` is the loop over the lines as a recursive function.

`MyInit` has both sides: `pc`, `config`, `table`, `running` and the two flags are
those of `run_myinit`, and `proc[p]` is the process that pid `p` names: none, a child
(`forked` with the default handlers, `copy` with those of myinit, `running` its
program, `dying` of SIGTERM) or a zombie. A pid is free again once it is reaped, and
the next `fork` may use it. `ReadConfig`, `StartChild`, `StartFails` and `Started` are
`start_children_processes` with what precedes and follows it, at the start and in a
reload; `TestLoop` is the head of the main loop; `StopChild` and `StoppedChildren` are
`stop_children_processes`, `Drain` the loop of `waitpid` in `reload_config`; `Reap`,
`NoneDied` and `NoChildren` are the results of `waitpid` in the main loop, `Restart`,
`RestartFails` and `Handled` are `handle_child_death`; `Leave` is what follows the
loop. `End` is the end of the process: its memory is gone, its children are not.
Signals, deaths, `exec` in the child and edits of the file come at any time
(`ReadConfig` finds any of the contents). `leave_freed` remembers that the table was
freed, and a loop over it is the end `undefined`. Failed restarts are counted up to
`MaxFailures`, and `running` below 0 is kept at -1, where only its sign matters.

`ChildStart` looks into one child: `parent` and `fds` map descriptor numbers to open
files, `open`, `dup2` and `close` do to them what they do in the kernel (the lowest
free number), and `LogFailure` writes to whatever file has the number that the log
had. `Fork` is `fork` with its failure: at the first start (`StartEntry`) the entry is
skipped, at a restart (`Restart`) the table keeps the dead pid, and either way the entry is
`abandoned`. The disk changes at any time (`DiskChanges`); `validated` is the disk that
`Parse` saw.

### SparseCopy, SparseTest

A byte is 0 or 1. `ReadEmpty` and `ReadData` are a turn of the loop for a block of zeros and
for another one; a file gives whole blocks, a pipe any shorter one. `Write` is
`lseek` and `write`, which also allocates blocks of the file system (`alloc`);
`WriteFails` is a write that is short or fails, `Truncate` the final `ftruncate`,
`Fails` every other failing call and a kill. `SparseTest` puts the generator in
front, block by block (`DataBlock`, `LastOfSpan`, `EmptyBlock`, `Remainder`), whose
random choices are nondeterministic; the copies also start from any input.

## 3. Runs

Passing runs (distinct states in parentheses):

* `lock_library` (10 thousand): four processes, every call may fail, processes
  die, orphaned lock files are removed by hand. `IInv` (the inductive invariant
  of the proofs), `MutualExclusion`, `NoLostWakeup`, `UnlinksOwnFile`, and the
  refinement of `Mutex`.
* `lock_workers` (142 thousand): three workers with SIGINT, kills and failing calls.
  `CleanExit`: status 0 leaves no lock file and no watch. `ShutdownCompletes`: once
  every worker has its SIGINT all of them end, unless an orphaned lock file
  stays for ever. `FreeLockIsTaken`: a free lock somebody waits for is taken.
* `lock_journal` (254 thousand): three one-shot processes with a clock.
  `JournalInTimeOrder` and `StatusZeroIsReceipt`: at most one line per process, and
  exactly one, with the lock given back, when the status is 0.
* `server_streams` (151 thousand): two clients that pipeline, on a pool of one, so that
  one of them may be turned away or wait for the slot of the other; one has a line that
  fills the buffer behind a short one, one a line that does not fit; `accept` may fail
  and answers may block. `LogsTheStream`, `HangsUpOnlyAtEnd`, and the
  refinement of `Accumulator`.
* `system_files` (80 thousand): three clients with data files on a pool of two, started
  with the server or after it, and a signal to the server at any time.
  `SlotsAreOpenConnections`, with slots that move when one in front of them is
  removed; `StatusZeroMeansApplied`; `OneAnswerEach`: a client that waits for nothing has
  nothing under way, `send` never blocks, and the server never goes to sleep over a
  complete line; `EveryRequestAnswered`. The stale `revents` (below) exist here, too: a
  data-file client is always about to send, so nobody waits for ever.
* `system_typed` (6.6 thousand): two clients that read stdin, with a line longer than
  their buffer and an unterminated one, one of them interrupted, on a pool of
  one. `AnsweredUnlessServerSleeps` and `StopsOrSleeps` list what a client, and a
  stop of the server, can hang on: a line without its newline, the server in
  the `read` of another client, the server in `poll` with the flag set. Nothing
  else holds them up.
* `myinit` (122 thousand): two pids, used again and again; a file that is empty or
  names two programs; SIGHUP, SIGTERM, SIGKILL, deaths and failing forks at any
  time. `EveryChildIsTracked`: no running child is forgotten. `TableIsRight`: until a
  restart fails, `kill` reaches only children, and until the first reload the counter
  counts them. `LeavesNoChild` lists the only ends after which children run on: a
  kill, the use of the freed table, and a counter made wrong by a reload or by two failed
  restarts. `FreedOnlyAfterReload`. `EditsTakeEffect`: no SIGHUP is lost.
  `ShutdownEnds`, `DeadAreReaped`.
* `child_start` (301 thousand): any set of inherited descriptors, any file of two lines
  out of eight kinds, five states of the disk. `EntriesAreLines`,
  `StdioAsConfigured`, `MessagesStayOutOfData`, `ValidatedFilesOpen`, and
  `RecoversWithDisk`: once the files are in order for good the program runs, however often
  `open` and `exec` have failed, unless a `fork` failed: nothing tries that entry again.
* `sparse_copy` (258 thousand): every input of up to eight bytes, and all that the generator
  makes of seven, from a file or a pipe, with calls that fail.
  `CopyInvariant` (the inductive invariant of the proofs), `AlwaysAPrefix`,
  `StatusZeroIsCopy`, `BlocksAsDocumented` (never fewer blocks than hold data; no more, when
  the buffer divides the blocks of the file system and the reads are whole, as
  those of a file; and in any case none that is a buffer or more away from data),
  `SpansAsCommented` (the comment at the head of the generator's loop), `CopyEnds`.

Runs that end in a counterexample, each for a sentence of the repository that the code
does not keep (`findings` in `PROJECT.json` quotes the sentence):

* `server_async`: a client leaves, another takes its slot in the next scan; the
  slot still says POLLIN; the server blocks in `read` on a client that has not sent
  anything.
* `server_sigpipe`: a client interrupted in `recv` closes; the answer to it raises
  SIGPIPE, which ends the server.
* `myinit_reload`: a reload sends SIGTERM to a child that was forked but has not come
  to its `exec`; the handler it inherited takes the signal, and the program of the
  old configuration runs on in no table, where `t3/runme.sh` line 66 expects only
  the new one.

### Bounds, and why they are enough

* Processes: 3 or 4. The interesting cases of the lock need a holder, a waiter
  and a third process that creates the file while the waiter wakes up; the
  proofs cover every number. Symmetry is used only where no liveness is
  checked.
* `LockMain`: `MaxClock` = 2, so that each of three lines may have a time of its
  own. `MainFaults` leaves out `open` and `write`, whose effects (nothing done; lock
  file left) `read` and `rmwatch` have too.
* Server: `BufferSize` 5 instead of 16 leaves three bytes, a newline and the
  NUL; the streams hold lines that fill it exactly, that need several reads,
  and several lines for one read. `MaxClients` 1 or 2 with one client more than
  that fills the pool and reuses slots; removal moves slots only in a pool of two,
  which is why `SlotsAreOpenConnections` is checked there. `IntMax` 15 makes the total wrap
  within two lines; `LongMax` 9999 is above every number a buffer can hold, as it is in the code (14 characters
  of a line against the 19 digits of a `long`).
* `SendSize` 5 instead of 16: a typed line longer than that is sent in
  two pieces. `AnswerRoom` 1 makes the second answer that is not taken block the
  server.
* `MyInit`: two pids for two entries, so that a restart must use the pid of somebody dead
  and old children may leave none for the new ones; `MaxFailures` 2, since the second
  failed restart behaves unlike the first (the counter reaches 0 with a child
  alive). With three pids the same properties hold, on 1.8 million
  states, which takes longer than a run should.
* `ChildStart`: `MaxArgs` 1 and `MaxExec` 1 instead of 8 and 64 put lines on both sides
  of both limits; `MaxFd` 3 is one more descriptor than a program needs.
* `SparseTest`: `FsBlock` 2 with buffers that are smaller than it, equal, a multiple,
  odd, larger than the input, and 0; eight bytes are four blocks of the file
  system.
* The runs without deadlock check are those in which all processes exit in the end.

### Fairness

* `LockWorker`: weak fairness of each worker's own steps, since the scheduler runs every
  process that can run. Nothing is assumed of signals, kills, or people who
  remove files. Where a call may succeed or fail, fairness does not choose, and
  a `read` that blocks on an empty queue owes nothing, not even a failure.
* `ClientServer`: weak fairness of the server and of each client that is not waiting
  for somebody to type. A blocked call owes no step. Strong fairness of a successful
  `accept`: it may fail for want of descriptors, but not for ever.
* `MyInit`: weak fairness of the supervisor, and of a child up to its `exec` and after
  a SIGTERM that reached it by default; a program may run for ever. Strong fairness of
  reaping each pid: `waitpid(-1)` looks at the children in order and finds each dead
  one some time.
* `ChildStart`: weak fairness of myinit and of the child up to its `exec`; it does not
  choose whether a `fork` succeeds. `SparseTest`:
  both programs run, the other end of the pipe goes on or closes it, and no call
  has to fail.
* Fairness between waiters is not assumed, and `t2` does not provide it: after
  `unlink` any process may create the file first, so that one worker may find the file
  there each time it wakes up, in spite of `sched_yield`.

## 4. Proofs

The theorems hold for every value of the constants that satisfies the named
assumptions, each in the module that declares the constant; the runs evaluate them all.
They say that limits are positive and fit each other (`BufferSizeAssumption`: a byte, a
newline and the NUL; `SendSizeAssumption`: a byte and the NUL; `FdAssumption`: three
descriptors and one more; `LengthAssumption`, `SizesAssumption`, `BoundsAssumption`,
`IntMaxAssumption`, `LongMaxAssumption` and so on), that inputs are what the programs read
(`InputAssumption`: bytes; `FilesAssumption` and `ContentsAssumption`: lines of words),
and that the marks for a process that runs or was killed are no exit status
(`StatusAssumption`). `PROJECT.json` lists the theorems.

**Lock library** (`FileLockProofs`). `TypeCorrect` and `NoLostWakeupHolds` are unconditional;
`IInvHolds`, `MutualExclusionHolds`, `UnlinksOwnFileHolds` and
`FileLockImplementsMutex` need `CleanerIsCareful` (`Cleaner # "any"`): nobody
removes a lock file in use. Without it they are false: with `Cleaner = "any"` TLC
shows `unlock` removing the file of another process, since the check of the pid
(`lock.c` 161 to 165) reads the old file through the descriptor and `unlink` goes by
name. Mutual exclusion is not inductive: it says nothing of who may unlink.
`HolderNamesFile` says it: whoever is between its `open` and its `unlink` created
the file that has the name now, so that two holders would have created the same
file. `NoLostWakeup` is inductive together with `WaitersWatch`: the watch stands
from before the first `open` until the lock is taken or the call fails, so each
removal of the name puts an event into the queue of every process that is
waiting or about to. The refinement maps `holders` to the processes in
`HoldingLabels` and `abandoned` to a file whose creator is not one of them.

**Worker and one-shot locker** (`LockWorkerProofs`, `LockMainProofs`). Each step of
either program is a step of the library or leaves its variables alone
(`WorkersFollowLibrary`, `MainFollowsLibrary`), so that what is proved of the
library holds of them: `WorkersExclude` follows. `CleanExitHolds` is
unconditional: it needs where a process got to, not who removes files.
`JournalInTimeOrderHolds` needs exclusion between the reading of the time and the
line, which comes from the library's invariant, and that no time, in a line or
just read, is ahead of the clock. `StatusZeroIsReceiptHolds` is unconditional.

**Server** (`ServerProofs`), with clients that do whatever a socket allows (`ServerSpec`);
`StreamClients` and `ClientServer` are two ways to choose such clients. Three layers:

* `SlotIInv` puts every open connection into one slot or into the backlog, once; the
  pool and the scan stay within the arrays; each buffer has room for one byte and the
  NUL between two reads. `SlotsAreOpenConnectionsHolds` is part of it, and
  `HangsUpOnlyAtEndHolds` follows: `read` asks for at least one byte, so that 0 means
  the end. The room is kept because a full buffer without a newline is cleared and
  because a line that is taken out has at least its newline; that needs the first
  newline of a buffer, the least element of a set (`LeastElement`).
* `LinesIInv` relates a slot to the stream of its client, and is why `LogsTheStreamHolds`.
  The log alone is not inductive: what the next line will be is decided by the
  buffer and the bytes still under way. `Behind` says what they are: the
  end of the stream, and between the last line that was handled and the buffer there
  are only full buffers without a newline that were cleared, `BufferSize - 1` bytes
  each. `BehindWrite`, `BehindRead`, `BehindOverflow` and `BehindLine` are the four
  ways in which it changes, a client that sends and the three outcomes of a
  `read`; `LinesStay` says that a longer stream has the same lines and more.
* `ImplementsAccumulatorHolds` is step simulation on top of the two: `ReadLine`
  applies the next request of its client, a `send` of a client makes requests, every
  other step leaves the accumulator alone.

`ServerTypeOKHolds` includes that the total stays an `int`. Nothing bounds clients,
slots, buffer or streams.

**Server and its own clients** (`ClientServerProofs`). A client of `client/main.c` does only
what `ServerNext` allows (`SystemIsServed`), so that what is proved of the server holds
here: `SystemTypeOKHolds`, `SystemAccumulates`. `OneAnswerEachHolds` needs to know whose
turn it is on each connection, in every state (`TurnIInv`): before a piece, between an
answer and the next piece, and while an answer is made or under way, all that the client
has sent is applied and nothing of it is left in the socket or the buffer; what is under
way has a newline at most at its end. `FileIInv` adds that what was written is the
part of the input up to `pos`. A data-file client leaves its loop only when no newline
is left behind `pos`, and then everything is applied: `FilesAppliedHolds`.
`TotalIsSumHolds` says that the total is the sum of what was applied, wrapped to an
`int`, in whatever order the clients came: whatever grows from zero by one number of a
sequence after the other is its sum (`GrowsByIsUnique`), so that one number more at
its end, or one that grows, adds as much to the sum (`SumOfAppend`, `SumOfChange`); and
what the cast cuts off after each addition makes no difference to a cast of the whole
sum (`ToIntAdds`). Both together are `StatusZeroMeansAppliedHolds`, for every finite set of
clients, all inputs, and signals at any time: it is what the zero of `t4/runme.sh` rests on.

**Sparse copy and generator** (`SparseTestProofs`), for every input, buffer and block size.
`AlwaysAPrefix` alone is not inductive: `InStep` says that the position in the
output and the pending hole make up the position in the input, and `HoleIsZero`
that what was skipped is zeros in the input and what is past the position is
unwritten. From these, `StatusZeroIsCopyHolds`, and `DataHasBlocks`: every byte of
data of a finished copy is in an allocated block. `BlocksAsDocumentedHolds` adds the
converse for a file and a buffer that divides the blocks of the file system
(`NothingMore`): such a copy is behind a whole number of reads, no read goes over the
edge of a block, and so a block is allocated only for data of its own. Short reads keep
only `AllNearData`: a read that is written holds data, and its bytes are less than a
buffer apart. `TestIInv` carries all
of this from the generator to the end of the copy (`CopyInvariantHolds`,
`TestedCopiesHold`). For the generator, `Spans` says that within each block that it
has made the data changes at most once, and that `span` tells how the last one ends:
`SpansAsCommentedHolds`. The arithmetic of blocks is in the lemmas `NextMultiple`,
`Division` and `Quotient`.

**Supervisor** (`MyInitProofs`). First, one lemma per action says what the action does to the
parts that the invariants talk about. `KnowsChildren` strengthens
`EveryChildIsTracked` to every moment at which there may be a running child that was
not told to stop: it is in the table; while a loop sends SIGTERM, in the part that is
still to come; and in the scan for a dead pid, a new child with that pid is in
the part that is done. It is unconditional. `TableRight` says that the pids in the table are distinct and each entry is right or
still has to be handled (its pid is that of the dead, and the scan has not passed
it); it holds while no restart has failed. The delicate case is a new child that gets the pid of the
dead one in the middle of `handle_child_death`: the scan is already past that entry.
`Counted` ties `running` to the table until the first reload.
`FreedOnlyAfterReloadHolds` (for a finite set of pids) holds however many restarts
fail: until a reload every child is in the table (`AllListed`), and the counter
is at most the number of children, or one more between a death and its first
restart (`CountsAtMost`). The loop calls `waitpid` only with a positive counter, so
that there is a child, and ECHILD cannot come.

`LeavesNoChildHolds` needs what one failed restart can do. Without a reload the counter
is then one less than the table (`LoneEntry`); if the table has more entries the loop
goes on, and if it has one, there is no child at all. So the loop ends with "nothing to run"
only when no child is left (`EmptyHanded`, `NothingLeft`), until a second restart fails.
The theorem asks for a finite set of pids, as any kernel has, and for `MaxFailures > 1`:
the variable `failures` exists for the property only and counts up to that bound, and with
a bound of 1 the model could not tell one failure from two.
`TypeOKHolds` needs that every entry of the table came from `parse()`, and that is a
statement about a loop: a recursive function over the lines exists (`TurnsExist`) and keeps a
property that one line keeps (`AddLineKeepsConfig`), both by the least line at which it
would not be so.

**Start of a child** (`ChildStartProofs`). `StdioAsConfiguredHolds` and
`MessagesStayOutOfDataHolds` rest on one table, `Descriptors`: for each point of the
start it says what is behind 0, 1 and 2, and that nothing else is open. The lowest free
number is what decides whether `open` gets the right one at once, and whether `dup2` and
`close` have anything to do; the table is the same whatever myinit had inherited.
`EntriesAreLinesHolds` is an induction over the lines of a file: behind line `n` the
list has the entries of the valid lines so far, each at the place that their
number gives it (`Listed`, `Place`). `ValidatedFilesOpenHolds` combines it with the
disk that the validation saw.

Two things are proved in several modules, because those share no module with proofs:
that a set of naturals has a least element (`LeastElement`, in `ServerProofs`,
`MyInitProofs` and `ChildStartProofs`), and that the loop of `parse` has values.

Only model-checked: every liveness property (`ShutdownCompletes`, `FreeLockIsTaken`,
`EveryRequestAnswered`, `AnsweredUnlessServerSleeps`, `StopsOrSleeps`, `EditsTakeEffect`,
`ShutdownEnds`, `DeadAreReaped`, `RecoversWithDisk`, `CopyEnds`), since fairness and
ENABLED are out of the prover's reach; that `StreamClients` does no more than `ServerNext`
allows, which its definition shows; and the runs that end in a counterexample.
All invariants and action properties of the passing runs have a theorem.

## 5. Not modelled, and what to know

Not modelled:

* t4 server: two servers on one path (`setup_socket` unlinks what it finds; the
  experiment starts one server). The logger is text output.
* t4 client: options, pauses, statistics and the failures of its file: no other process sees
  them. A data line of more than 64 bytes overruns its buffer; memory is not
  modelled.
* t4 number generator and analysis: a loop that writes numbers, and plots. The
  measurements of `runme.sh`.
* t3 crash handler (one line of text and the end) and the dummy child, which
  `MyInit` replaces by children that do anything. Lines longer than `fgets` has
  room for, and `malloc` that fails.
* t4 server: a `poll` that fails with anything but EINTR (line 226), after which the server
  ends as after a signal. A second signal to the server or to a client.
* t3: a `sigaction` that fails (`myinit.c` line 287), after which myinit ends as `End`
  does. `demonize` closes descriptors up to its limit `max_fd`; the model has
  none above. `ChildStart` has no reload and no reuse of pids, either of which may
  start an abandoned entry again: both are in `MyInit`.
* t1: negative block sizes, for which `calloc` fails.
* t2: nobody runs a process again whose `unlock` failed, and nobody removes a lock file
  that is held, so that its name never comes to another file meanwhile.
* Text, wording and times of all log messages; `gzip`, `ls` and `grep` of the shell
  drivers.

Behaviours that the models have and that a reader may not expect:

* The server answers one line for one `read`. A second complete line waits in its buffer for
  more bytes. The repository's own clients never send two lines before an answer.
* SIGTERM between the test of `shutdown_flag` and `poll` waits for the next event:
  one of the cases of `StopsOrSleeps`.
* The listening socket is slot 0, so a scan may turn a client away before it
  gets to the closed connections that would make room.
* The range check of `strtol` is about `long`, the total is an `int`: `Accumulator`
  has the cut.
* After a reload `running_processes` is not set again. It may reach 0 with children
  alive, whom myinit then leaves with "nothing to run". Without a reload that
  takes two failed restarts and a pid that is used again.
* After a reload to an empty file myinit finds no children, frees its table and, if
  SIGTERM arrives before it looks at the flag, stops children by the freed table
  (`undefined`).
* A `fork` that fails once takes its entry out of service until the next reload,
  also when the files are fine and the machine has recovered.
* `t1/README.md` point 4 and `t1/test.sh` line 66 say that the copy of a pipe (`C`) takes the
  blocks of the copy of the file (`B`). That needs whole reads: when the writer delivers
  less than a buffer at a time, the reads no longer fit the blocks of the file system,
  and `C` may take more. `BlocksAsDocumented` therefore asks equality of whole reads only.
* Once descriptor 0 of a child is its input, the messages of the logger about its output
  and its `exec` go to that descriptor, which is read-only, and are lost.

## 6. Plan

Built, in this order: `FileLock` with `Mutex` and its proofs, `LockWorker`, `LockMain`,
`Server` with `Accumulator`, `Client` and their compositions; then `ConfigParser`,
`MyInit`, `ChildStart`, `SparseCopy` with `SparseTest`, the start-up of the server and
its blocking answers; then the proofs, first of the lock and the copy, then of the
server with any clients and with its own, of the supervisor and of the start of a child.

What would come next:

1. Two servers on one path, with the name as a state of its own in `UnixSocket`.
2. What `StopsOrSleeps` and `AnsweredUnlessServerSleeps` say of the states in which nobody
   moves, as invariants that can be proved: a server that cannot take a step is in `poll` or in the
   `read` of a client, or has ended.
3. `FreedOnlyAfterReload` after a reload, with the sum of the two counts that `running`
   then mixes up, to say how far off it can be.
