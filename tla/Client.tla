------------------------------- MODULE Client -------------------------------
(***************************************************************************)
(* t4/src/client/main.c.  A client connects, and then sends a piece of its *)
(* input and waits for one answer, in turn.  With --data the input is a    *)
(* file and a piece is a line of it; without, it is stdin and a piece is   *)
(* what fgets() returns.  The pauses and the statistics are left out: they *)
(* are steps that nobody else sees.                                        *)
(***************************************************************************)
EXTENDS Wire, UnixSocket

CONSTANTS
  Input,         \* Input[c]: the bytes of the data file or of stdin
  DataClients,   \* the clients that were given --data
  SendSize,      \* sizeof(send_buf) of run_loop
  Signalled,     \* the clients that may get SIGINT or SIGTERM
  Running,       \* the status of a client that has not exited
  Killed         \* the status of a client that SIGPIPE ended

ASSUME InputAssumption == Input \in [Clients -> Seq(Bytes)]
ASSUME DataClientsAssumption == DataClients \subseteq Clients
ASSUME SendSizeAssumption == SendSize \in Nat /\ SendSize >= 2
ASSUME SignalledAssumption == Signalled \subseteq Clients
ASSUME StatusAssumption == Running \notin {0, 1} /\ Killed \notin {0, 1}

VARIABLES
  cpc,       \* cpc[c]: where c is: before it connects, past the test of
             \* shutdown_flag at the head of its loop, in recv(), behind the
             \* loop, or gone
  pos,       \* pos[c]: how many bytes of its input c has sent
  flagged,   \* flagged[c]: shutdown_flag of c
  status     \* status[c]: the exit status of c, Killed or Running

ClientLabels == {"start", "ready", "recv", "leaving", "done"}

clientVars == <<cpc, pos, flagged, status>>

InitClients ==
  /\ cpc = [c \in Clients |-> "start"]
  /\ pos = [c \in Clients |-> 0]
  /\ flagged = [c \in Clients |-> FALSE]
  /\ status = [c \in Clients |-> Running]

Move(c, label) == cpc' = [cpc EXCEPT ![c] = label]
Finish(c, result) ==
  /\ Move(c, "done")
  /\ status' = [status EXCEPT ![c] = result]
  /\ UNCHANGED <<pos, flagged>>

(* What c sends next, <<>> when it is at the end: a whole line of the data *)
(* file, never its unterminated tail; or a line of stdin, as much of it as *)
(* fgets() has room for, tail included.                                    *)
Rest(c) == Drop(Input[c], pos[c])
Piece(c) ==
  IF HasNewline(Rest(c))
  THEN Take(Rest(c), IF c \in DataClients \/ FirstNewline(Rest(c)) < SendSize
                     THEN FirstNewline(Rest(c)) ELSE SendSize - 1)
  ELSE IF c \in DataClients THEN <<>> ELSE Take(Rest(c), SendSize - 1)

(* Mistake: run_test_loop forgets it too.                                  *)
FailureForgotten(c) == 0

(* The status after a failed send_and_print(): run_loop forgets it.        *)
FailureStatus(c) == IF c \in DataClients THEN 1 ELSE 0

-----------------------------------------------------------------------------
ConnectToServer(c) ==
  /\ cpc[c] = "start"
  /\ Connect(c)
  /\ Move(c, "ready")
  /\ UNCHANGED <<pos, flagged, status>>

ConnectFails(c) ==
  /\ cpc[c] = "start"
  /\ ~listening
  /\ Finish(c, 1)
  /\ UNCHANGED socketVars

(* Mistake: the answer is not waited for.                                  *)
SendWithoutWaiting(c) ==
  /\ cpc[c] = "ready"
  /\ Piece(c) # <<>>
  /\ ClientSend(c, Piece(c))
  /\ pos' = [pos EXCEPT ![c] = @ + Len(Piece(c))]
  /\ UNCHANGED <<cpc, flagged, status>>

(* send_and_print: send(), even if the flag was set since it was tested    *)
(* last ...                                                                *)
SendPiece(c) ==
  /\ cpc[c] = "ready"
  /\ Piece(c) # <<>>
  /\ ClientSend(c, Piece(c))
  /\ pos' = [pos EXCEPT ![c] = @ + Len(Piece(c))]
  /\ Move(c, "recv")
  /\ UNCHANGED <<flagged, status>>

(* ... to a connection that the server has closed raises SIGPIPE.          *)
SendToClosed(c) ==
  /\ cpc[c] = "ready"
  /\ Piece(c) # <<>>
  /\ srvEnd[c] = "closed"
  /\ ClientClose(c)
  /\ Finish(c, Killed)

(* recv() of the answer, and the test of the flag behind it ...            *)
ReceiveAnswer(c) ==
  /\ cpc[c] = "recv"
  /\ ClientReceive(c)
  /\ Move(c, IF flagged[c] THEN "leaving" ELSE "ready")
  /\ UNCHANGED <<pos, flagged, status>>

(* ... which returns 0 or fails when the server has closed the connection. *)
ReceiveFails(c) ==
  /\ cpc[c] = "recv"
  /\ down[c] = <<>> /\ srvEnd[c] = "closed"
  /\ ClientClose(c)
  /\ Finish(c, FailureStatus(c))

(* The loop ends at the end of the input or when the flag is set: between  *)
(* two bytes of the data file, in fgets(), or behind an answer.            *)
Leave(c) ==
  /\ \/ cpc[c] = "leaving"
     \/ cpc[c] = "ready" /\ (flagged[c] \/ Piece(c) = <<>>)
  /\ ClientClose(c)
  /\ Finish(c, 0)

(* handle_shutdown.  sa_flags is never initialised, so a recv() that waits *)
(* for the answer is restarted by the kernel or fails with EINTR.          *)
SignalClient(c) ==
  /\ c \in Signalled
  /\ cpc[c] \in {"ready", "recv"}
  /\ ~flagged[c]
  /\ flagged' = [flagged EXCEPT ![c] = TRUE]
  /\ UNCHANGED <<cpc, pos, status, socketVars>>

ReceiveInterrupted(c) ==
  /\ c \in Signalled
  /\ cpc[c] = "recv"
  /\ ~flagged[c]
  /\ ClientClose(c)
  /\ cpc' = [cpc EXCEPT ![c] = "done"]
  /\ status' = [status EXCEPT ![c] = FailureStatus(c)]
  /\ flagged' = [flagged EXCEPT ![c] = TRUE]
  /\ UNCHANGED pos

ClientStep(c) ==
  \/ ConnectToServer(c) \/ ConnectFails(c)
  \/ SendPiece(c) \/ SendToClosed(c)
  \/ ReceiveAnswer(c) \/ ReceiveFails(c)
  \/ Leave(c)

ClientSignal(c) == SignalClient(c) \/ ReceiveInterrupted(c)

ClientTypeOK ==
  /\ cpc \in [Clients -> ClientLabels]
  /\ pos \in [Clients -> Nat]
  /\ flagged \in [Clients -> BOOLEAN]
  /\ status \in [Clients -> {Running, Killed, 0, 1}]
=============================================================================
