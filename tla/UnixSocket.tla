----------------------------- MODULE UnixSocket -----------------------------
(***************************************************************************)
(* The kernel between the server and the clients of t4: one listening      *)
(* AF_UNIX stream socket and one connection for each client, as far as the *)
(* two programs use them.  A client connects at most once.  The backlog    *)
(* (SOMAXCONN) and the way to the server do not fill up; the way back      *)
(* holds AnswerRoom answers.                                               *)
(***************************************************************************)
EXTENDS Integers, Sequences

CONSTANTS
  Clients,
  AnswerRoom   \* how many answers fit the socket buffer of a client

ASSUME AnswerRoomAssumption == AnswerRoom \in Nat \ {0}

VARIABLES
  listening,   \* somebody listens at the socket file
  backlog,     \* clients that connected and were not accepted yet
  cliEnd,      \* cliEnd[c]: state of the client's end of its connection
  srvEnd,      \* srvEnd[c]: state of the server's end
  wrote,       \* wrote[c]: all the bytes that c has sent so far
  up,          \* up[c]: bytes on their way from c to the server
  down         \* down[c]: answers on their way from the server to c

socketVars == <<listening, backlog, cliEnd, srvEnd, wrote, up, down>>

EndStates == {"none", "open", "closed"}

InitSockets ==
  /\ listening = FALSE
  /\ backlog = <<>>
  /\ cliEnd = [c \in Clients |-> "none"]
  /\ srvEnd = [c \in Clients |-> "none"]
  /\ wrote = [c \in Clients |-> <<>>]
  /\ up = [c \in Clients |-> <<>>]
  /\ down = [c \in Clients |-> <<>>]

(* connect() succeeds before accept(), and the client may send at once.    *)
Connect(c) ==
  /\ listening
  /\ cliEnd[c] = "none"
  /\ cliEnd' = [cliEnd EXCEPT ![c] = "open"]
  /\ srvEnd' = [srvEnd EXCEPT ![c] = "open"]
  /\ backlog' = Append(backlog, c)
  /\ UNCHANGED <<listening, wrote, up, down>>

ClientSend(c, bytes) ==
  /\ cliEnd[c] = "open" /\ srvEnd[c] = "open"
  /\ wrote' = [wrote EXCEPT ![c] = @ \o bytes]
  /\ up' = [up EXCEPT ![c] = @ \o bytes]
  /\ UNCHANGED <<listening, backlog, cliEnd, srvEnd, down>>

ClientReceive(c) ==
  /\ cliEnd[c] = "open"
  /\ down[c] # <<>>
  /\ down' = [down EXCEPT ![c] = Tail(@)]
  /\ UNCHANGED <<listening, backlog, cliEnd, srvEnd, wrote, up>>

(* Room for one more answer: otherwise send() blocks.                      *)
AnswerFits(c) == Len(down[c]) < AnswerRoom

(* What the client sent before stays readable for the server.              *)
ClientClose(c) ==
  /\ cliEnd[c] = "open"
  /\ cliEnd' = [cliEnd EXCEPT ![c] = "closed"]
  /\ down' = [down EXCEPT ![c] = <<>>]
  /\ UNCHANGED <<listening, backlog, srvEnd, wrote, up>>

(* poll() says POLLIN for the connection, and read() does not block.       *)
Readable(c) == up[c] # <<>> \/ cliEnd[c] = "closed"

(* Ends of the server that all close at once: what was not read is lost.   *)
CloseServerEnds(C) ==
  /\ srvEnd' = [c \in Clients |-> IF c \in C THEN "closed" ELSE srvEnd[c]]
  /\ up' = [c \in Clients |-> IF c \in C THEN <<>> ELSE up[c]]

SocketTypeOK(Byte, Answer) ==
  /\ listening \in BOOLEAN
  /\ backlog \in Seq(Clients)
  /\ cliEnd \in [Clients -> EndStates]
  /\ srvEnd \in [Clients -> EndStates]
  /\ wrote \in [Clients -> Seq(Byte)]
  /\ up \in [Clients -> Seq(Byte)]
  /\ down \in [Clients -> Seq(Answer)]
=============================================================================
