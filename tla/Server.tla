------------------------------- MODULE Server -------------------------------
(***************************************************************************)
(* run_server() of t4/src/server/server.c with the functions it calls.     *)
(* The server is a single thread: its steps are the system calls, and what *)
(* it computes between two of them belongs to the one before.              *)
(*                                                                         *)
(* fds[0] is the listening socket; the slots from 1 to nfds - 1 are the    *)
(* sequence conns.  The array outlives the connections, so revents keeps   *)
(* its values past nfds.                                                   *)
(***************************************************************************)
EXTENDS Wire, UnixSocket, FiniteSets

CONSTANTS
  MaxClients,   \* MAX_CLIENTS
  BufferSize    \* BUFFER_SIZE

ASSUME MaxClientsAssumption == MaxClients \in Nat \ {0}
ASSUME BufferSizeAssumption == BufferSize \in Nat /\ BufferSize >= 3

VARIABLES
  spc,        \* where the server is
  shutdown,   \* shutdown_flag
  conns,      \* conns[i]: the client and the bytes in the buffer of slot i
  revents,    \* revents[i]: POLLIN is set in slot i
  i,          \* the slot of the scan after poll()
  state,      \* the running total
  log         \* log[c]: the lines of c, as the server logs them

serverVars == <<spc, shutdown, conns, revents, i, state, log>>

ServerLabels ==
  {"main", "setup", "test", "poll", "blocked", "scan", "send", "closing",
   "unlinking", "stopped", "terminated", "killed"}

InitServer ==
  /\ spc = "main"
  /\ shutdown = FALSE
  /\ conns = <<>>
  /\ revents = [k \in 0..MaxClients |-> FALSE]
  /\ i = 0
  /\ state = 0
  /\ log = [c \in Clients |-> <<>>]

nfds == Len(conns) + 1
Client(k) == conns[k].client
Buffered(k) == conns[k].buf

(* What poll() would report now.                                           *)
Ready(k) == IF k = 0 THEN backlog # <<>> ELSE Readable(Client(k))
AnyReady == \E k \in 0..(nfds - 1) : Ready(k)

-----------------------------------------------------------------------------
(* main() and setup_sigactions(): until here a signal ends the process.    *)
SetupSigactions ==
  /\ spc = "main"
  /\ spc' = "setup"
  /\ UNCHANGED <<shutdown, conns, revents, i, state, log, socketVars>>

(* setup_socket(): nobody can connect before listen() ...                  *)
SetupSocket ==
  /\ spc = "setup"
  /\ listening' = TRUE
  /\ spc' = "test"
  /\ UNCHANGED <<shutdown, conns, revents, i, state, log, backlog, cliEnd, wrote,
                 srvEnd, up, down>>

(* ... or the log, the configuration or a call before listen() fails, and  *)
(* the server returns 1.                                                   *)
StartUpFails ==
  /\ spc \in {"main", "setup"}
  /\ spc' = "stopped"
  /\ UNCHANGED <<shutdown, conns, revents, i, state, log, socketVars>>

(* while (!shutdown_flag)                                                  *)
TestFlag ==
  /\ spc = "test"
  /\ spc' = IF shutdown THEN "closing" ELSE "poll"
  /\ UNCHANGED <<shutdown, conns, revents, i, state, log, socketVars>>

PollBlocks ==
  /\ spc = "poll"
  /\ ~AnyReady
  /\ spc' = "blocked"
  /\ UNCHANGED <<shutdown, conns, revents, i, state, log, socketVars>>

(* poll() writes the first nfds entries and leaves the others.             *)
PollReturns ==
  /\ spc \in {"poll", "blocked"}
  /\ AnyReady
  /\ revents' = [k \in 0..MaxClients |->
                   IF k < nfds THEN Ready(k) ELSE revents[k]]
  /\ i' = 0
  /\ spc' = "scan"
  /\ UNCHANGED <<shutdown, conns, state, log, socketVars>>

-----------------------------------------------------------------------------
(* for (int i = 0; i < nfds; i++): nothing to do for this slot ...         *)
SkipSlot ==
  /\ spc = "scan" /\ i < nfds
  /\ ~revents[i]
  /\ i' = i + 1
  /\ UNCHANGED <<spc, shutdown, conns, revents, state, log, socketVars>>

EndScan ==
  /\ spc = "scan" /\ i >= nfds
  /\ spc' = "test"
  /\ i' = 0
  /\ UNCHANGED <<shutdown, conns, revents, state, log, socketVars>>

(* Mistake: one client more than the arrays have room for.                 *)
AcceptOneTooMany ==
  /\ spc = "scan" /\ i = 0 /\ revents[0]
  /\ nfds <= MaxClients + 1
  /\ conns' = Append(conns, [client |-> Head(backlog), buf |-> <<>>])
  /\ backlog' = Tail(backlog)
  /\ i' = i + 1
  /\ UNCHANGED <<spc, shutdown, revents, state, log, listening, cliEnd,
                 wrote, srvEnd, up, down>>

(* handle_new_connection: the new slot gets an empty buffer, and keeps the *)
(* revents of whoever had it last.                                         *)
AcceptConnection ==
  /\ spc = "scan" /\ i = 0 /\ revents[0]
  /\ nfds < MaxClients + 1
  /\ conns' = Append(conns, [client |-> Head(backlog), buf |-> <<>>])
  /\ backlog' = Tail(backlog)
  /\ i' = i + 1
  /\ UNCHANGED <<spc, shutdown, revents, state, log, listening, cliEnd, wrote,
                 srvEnd, up, down>>

(* Mistake: the surplus connection is not closed.                          *)
RejectWithoutClose ==
  /\ spc = "scan" /\ i = 0 /\ revents[0]
  /\ nfds >= MaxClients + 1
  /\ backlog' = Tail(backlog)
  /\ i' = i + 1
  /\ UNCHANGED <<spc, shutdown, conns, revents, state, log, listening, cliEnd, wrote,
                 srvEnd, up, down>>

(* ... "Server full, closing connection"                                   *)
RejectConnection ==
  /\ spc = "scan" /\ i = 0 /\ revents[0]
  /\ nfds >= MaxClients + 1
  /\ backlog' = Tail(backlog)
  /\ CloseServerEnds({Head(backlog)})
  /\ i' = i + 1
  /\ UNCHANGED <<spc, shutdown, conns, revents, state, log, listening,
                 cliEnd, wrote, down>>

(* ... or accept() fails, for want of a descriptor: the client stays in    *)
(* the backlog.                                                            *)
AcceptFails ==
  /\ spc = "scan" /\ i = 0 /\ revents[0]
  /\ i' = i + 1
  /\ UNCHANGED <<spc, shutdown, conns, revents, state, log, socketVars>>

(* handle_client_data: read() into what is left of the buffer, in the turn *)
(* of slot i.  On an open connection without data it blocks.               *)
InTurn == spc = "scan" /\ i \in 1..(nfds - 1) /\ revents[i]
(* Mistake: two bytes are kept free.                                       *)
SpaceTooSmall(k) == BufferSize - Len(Buffered(k)) - 2

Space(k) == BufferSize - Len(Buffered(k)) - 1
Incoming(k) == Take(up[Client(k)], Space(k))
Received(k) == Buffered(k) \o Incoming(k)

Consume(k) == up' = [up EXCEPT ![Client(k)] = Drop(@, Len(Incoming(k)))]
KeepInBuffer(k, bytes) == conns' = [conns EXCEPT ![k].buf = bytes]

(* Mistake: the last slot is dropped, whoever has disconnected.            *)
RemoveLastSlot(k) ==
  /\ conns' = SubSeq(conns, 1, Len(conns) - 1)
  /\ UNCHANGED revents

(* handle_close_client: the last slot moves to the slot of the client.     *)
RemoveSlot(k) ==
  LET last == Len(conns)
  IN  /\ conns' = [m \in 1..(last - 1) |-> IF m = k THEN conns[last] ELSE conns[m]]
      /\ revents' = [revents EXCEPT ![k] = revents[last]]

(* Mistake: the connection is closed and its slot is kept.                 *)
ReadEndKeepsSlot ==
  /\ InTurn
  /\ Readable(Client(i)) /\ Incoming(i) = <<>>
  /\ CloseServerEnds({Client(i)})
  /\ UNCHANGED <<spc, shutdown, conns, revents, i, state, log, listening,
                 backlog, cliEnd, wrote, down>>

(* read() <= 0: end of the stream, or no room to read into.  The slot is   *)
(* looked at again (i--, i++).                                             *)
ReadEnd ==
  /\ InTurn
  /\ Readable(Client(i)) /\ Incoming(i) = <<>>
  /\ RemoveSlot(i)
  /\ CloseServerEnds({Client(i)})
  /\ UNCHANGED <<spc, shutdown, i, state, log, listening, backlog,
                 cliEnd, wrote, down>>

(* The first complete line of the buffer, the total with it, and what      *)
(* stays in the buffer.                                                    *)
FirstLine == Take(Received(i), FirstNewline(Received(i)) - 1)

NewTotal == Added(state, FirstLine)

(* Mistakes: the buffer is emptied; the newline stays in it.               *)
NothingLeft == <<>>
LeftoverWithNewline == Drop(Received(i), FirstNewline(Received(i)) - 1)
Leftover == Drop(Received(i), FirstNewline(Received(i)))

(* A line is complete: it is taken out of the buffer and applied; one line *)
(* for one read(), whatever is behind it.                                  *)
ReadLine ==
  /\ InTurn
  /\ Incoming(i) # <<>>
  /\ HasNewline(Received(i))
  /\ state' = NewTotal
  /\ log' = [log EXCEPT ![Client(i)] = Append(@, FirstLine)]
  /\ KeepInBuffer(i, Leftover)
  /\ Consume(i)
  /\ spc' = "send"
  /\ UNCHANGED <<shutdown, revents, i, listening, backlog, cliEnd, wrote,
                 srvEnd, down>>

(* No complete line yet ...                                                *)
ReadPart ==
  /\ InTurn
  /\ Incoming(i) # <<>>
  /\ ~HasNewline(Received(i))
  /\ Len(Received(i)) < BufferSize - 1
  /\ KeepInBuffer(i, Received(i))
  /\ Consume(i)
  /\ i' = i + 1
  /\ UNCHANGED <<spc, shutdown, revents, state, log, listening, backlog,
                 cliEnd, wrote, srvEnd, down>>

(* ... and no room for one: the buffer is cleared, without an answer.      *)
ReadOverflow ==
  /\ InTurn
  /\ Incoming(i) # <<>>
  /\ ~HasNewline(Received(i))
  /\ Len(Received(i)) >= BufferSize - 1
  /\ KeepInBuffer(i, <<>>)
  /\ Consume(i)
  /\ i' = i + 1
  /\ UNCHANGED <<spc, shutdown, revents, state, log, listening, backlog,
                 cliEnd, wrote, srvEnd, down>>

(* send() of the total as ReadLine left it, which blocks for want of room  *)
(* ...                                                                     *)
SendAnswer ==
  /\ spc = "send"
  /\ cliEnd[Client(i)] = "open"
  /\ AnswerFits(Client(i))
  /\ down' = [down EXCEPT ![Client(i)] = Append(@, state)]
  /\ spc' = "scan"
  /\ i' = i + 1
  /\ UNCHANGED <<shutdown, conns, revents, state, log, listening,
                 backlog, cliEnd, wrote, srvEnd, up>>

(* ... raises SIGPIPE, which nobody handles, if the client has closed.     *)
SendRaisesSigpipe ==
  /\ spc = "send"
  /\ cliEnd[Client(i)] = "closed"
  /\ spc' = "killed"
  /\ listening' = FALSE
  /\ backlog' = <<>>
  /\ CloseServerEnds({c \in Clients : srvEnd[c] = "open"})
  /\ UNCHANGED <<shutdown, conns, revents, i, state, log, cliEnd, wrote, down>>

-----------------------------------------------------------------------------
(* After the loop: the connections, then the listening socket with the     *)
(* clients that were never accepted, and the socket file.                  *)
CloseConnections ==
  /\ spc = "closing"
  /\ CloseServerEnds({Client(k) : k \in 1..(nfds - 1)})
  /\ spc' = "unlinking"
  /\ UNCHANGED <<shutdown, conns, revents, i, state, log, listening,
                 backlog, cliEnd, wrote, down>>

CloseListener ==
  /\ spc = "unlinking"
  /\ listening' = FALSE
  /\ backlog' = <<>>
  /\ CloseServerEnds(ToSet(backlog))
  /\ spc' = "stopped"
  /\ UNCHANGED <<shutdown, conns, revents, i, state, log, cliEnd, wrote, down>>

ServerRuns == spc \notin {"stopped", "terminated", "killed"}

(* SIGINT or SIGTERM: handle_shutdown sets the flag, once it is installed. *)
(* A poll() that blocks ends with EINTR and the loop with it; a blocked    *)
(* read() or send() is restarted.                                          *)
Terminate ==
  /\ ServerRuns
  /\ ~shutdown
  /\ shutdown' = (spc # "main")
  /\ \/ spc = "main" /\ spc' = "terminated"
     \/ spc = "blocked" /\ ~AnyReady /\ spc' = "closing"
     \/ spc # "main" /\ (spc = "blocked" => AnyReady) /\ spc' = spc
  /\ UNCHANGED <<conns, revents, i, state, log, socketVars>>

HandleClient ==
  ReadEnd \/ ReadLine \/ ReadPart \/ ReadOverflow \/ SendAnswer
  \/ SendRaisesSigpipe

ServerStep ==
  \/ SetupSigactions \/ SetupSocket \/ StartUpFails
  \/ TestFlag \/ PollBlocks \/ PollReturns
  \/ SkipSlot \/ EndScan
  \/ AcceptConnection \/ RejectConnection \/ AcceptFails
  \/ HandleClient
  \/ CloseConnections \/ CloseListener

(* The server with clients of any kind.                                    *)
ClientMoves(c) ==
  \/ Connect(c) \/ ClientReceive(c) \/ ClientClose(c)
  \/ \E bytes \in Seq(Bytes) : ClientSend(c, bytes)

netVars == <<serverVars, socketVars>>

ServerNext ==
  \/ ServerStep
  \/ Terminate
  \/ \E c \in Clients : ClientMoves(c) /\ UNCHANGED serverVars

ServerSpec == InitServer /\ InitSockets /\ [][ServerNext]_netVars

-----------------------------------------------------------------------------
ServerTypeOK ==
  /\ SocketTypeOK(Bytes, Ints)
  /\ spc \in ServerLabels
  /\ shutdown \in BOOLEAN
  /\ \A k \in DOMAIN conns :
       conns[k] \in [client : Clients, buf : Seq(Bytes)]
  /\ Len(conns) <= MaxClients
  /\ revents \in [0..MaxClients -> BOOLEAN]
  /\ i \in 0..(MaxClients + 1)
  /\ state \in Ints
  /\ log \in [Clients -> Seq(Seq(Bytes))]

(* The slots are the accepted connections that are open, each once, and    *)
(* the backlog holds the open ones that were not accepted: no descriptor   *)
(* is leaked or closed twice by the swap in handle_close_client.           *)
SlotsAreOpenConnections ==
  ServerRuns /\ spc # "unlinking" =>
    LET accepted == {Client(k) : k \in DOMAIN conns}
        waiting == ToSet(backlog)
    IN  /\ Cardinality(accepted) = Len(conns)
        /\ Cardinality(waiting) = Len(backlog)
        /\ accepted \cap waiting = {}
        /\ accepted \cup waiting = {c \in Clients : srvEnd[c] = "open"}

(* The server hangs up on a connection it accepted only when the client    *)
(* did so and everything it sent was read, or when it stops: the buffer    *)
(* always has room for a byte, so that read() never returns 0 for want of  *)
(* space.                                                                  *)
HangsUpOnlyAtEnd ==
  [][\A k \in DOMAIN conns :
       srvEnd[Client(k)] = "open" /\ srvEnd'[Client(k)] = "closed" =>
         \/ cliEnd[Client(k)] = "closed" /\ up[Client(k)] = <<>>
         \/ spc' \in {"unlinking", "killed"}]_netVars

(* What ReadOverflow leaves of a line: the part behind the last time that  *)
(* it filled the buffer.                                                   *)
Seen(line) == Drop(line, Len(line) - (Len(line) % (BufferSize - 1)))
LinesSeen(stream) ==
  LET lines == LinesOf(stream)
  IN  [n \in DOMAIN lines |-> Seen(lines[n])]

(* The lines the server logs for a client are the lines it sent, in order  *)
(* and each once, whole if they fit the buffer, however the pieces were    *)
(* cut and however the buffers of the slots were moved.                    *)
LogsTheStream == \A c \in Clients : IsPrefix(log[c], LinesSeen(wrote[c]))

(* The server is one accumulator: each line the server logs is added to    *)
(* the total, once, in the order of its client, and nothing else changes   *)
(* the total.                                                              *)
Ledger ==
  INSTANCE Accumulator WITH
    Requests <- Seq(Bytes),
    Result <- Added,
    requests <- [c \in Clients |-> LinesSeen(wrote[c])],
    total <- state,
    applied <- [c \in Clients |-> Len(log[c])]
ImplementsAccumulator == Ledger!Spec
=============================================================================
