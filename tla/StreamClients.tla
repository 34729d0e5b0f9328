---------------------------- MODULE StreamClients ----------------------------
(***************************************************************************)
(* The server of t4 with clients of any kind, each of them with a stream   *)
(* of bytes to send: a client writes its stream in pieces of its own       *)
(* choice, pipelines requests or not, reads its answers or not, and hangs  *)
(* up when it likes.                                                       *)
(***************************************************************************)
EXTENDS Server

CONSTANT Stream    \* Stream[c]: what c writes when it is not cut off

ASSUME StreamAssumption == Stream \in [Clients -> Seq(Bytes)]

Init == InitServer /\ InitSockets

StreamWrite(c) ==
  \E n \in (Len(wrote[c]) + 1)..Len(Stream[c]) :
    ClientSend(c, SubSeq(Stream[c], Len(wrote[c]) + 1, n))

StreamClient(c) ==
  \/ Connect(c) \/ StreamWrite(c) \/ ClientReceive(c) \/ ClientClose(c)

Next ==
  \/ ServerStep
  \/ Terminate
  \/ \E c \in Clients : StreamClient(c) /\ UNCHANGED serverVars

Spec == Init /\ [][Next]_netVars
=============================================================================
