------------------------- MODULE ClientServerProofs -------------------------
(***************************************************************************)
(* Proofs about the server of t4 with its own clients, for every set of    *)
(* clients and of inputs, typed or from files: what is proved of the       *)
(* server with clients of any kind holds here, requests and answers        *)
(* alternate on each connection, a client with --data that exits with      *)
(* status 0 has had its whole file applied, and the total is the sum of    *)
(* what was applied, in whatever order.                                    *)
(***************************************************************************)
EXTENDS ClientServer, ServerProofs

(* What send_and_print gets to send: the next bytes of the input, with a   *)
(* newline at most at their end; nothing, with --data, only when there is  *)
(* no line left.                                                           *)
LEMMA PieceIs ==
  ASSUME NEW c \in Clients, pos[c] \in Nat
  PROVE  /\ Rest(c) \in Seq(Bytes)
         /\ \E n \in 0..Len(Rest(c)) :
              /\ Piece(c) = SubSeq(Rest(c), 1, n)
              /\ \A k \in 1..n - 1 : Rest(c)[k] # NL
         /\ c \in DataClients /\ Piece(c) = <<>> => ~HasNewline(Rest(c))
<1> DEFINE r == Rest(c)
<1>1. r \in Seq(Bytes)
  BY InputAssumption, TakeAndDrop DEF Rest
<1> HIDE DEF r
<1>2. Len(r) \in Nat
  BY <1>1
<1>3. ASSUME NEW m \in Nat, \A k \in 1..m - 1 : k <= Len(r) => r[k] # NL,
             Piece(c) = Take(r, m)
      PROVE  \E n \in 0..Len(r) :
               Piece(c) = SubSeq(r, 1, n) /\ \A k \in 1..n - 1 : r[k] # NL
  <2>1. CASE m < Len(r)
    <3>1. m \in 0..Len(r) /\ Piece(c) = SubSeq(r, 1, m)
      BY <1>2, <1>3, <2>1 DEF Take
    <3>2. \A k \in 1..m - 1 : r[k] # NL
      BY <1>2, <1>3, <2>1
    <3> QED BY <3>1, <3>2
  <2>2. CASE ~(m < Len(r))
    <3>1. Len(r) \in 0..Len(r) /\ Piece(c) = SubSeq(r, 1, Len(r))
      BY <1>2, <1>3, <2>2 DEF Take
    <3>2. \A k \in 1..Len(r) - 1 : r[k] # NL
      BY <1>2, <1>3, <2>2
    <3> QED BY <3>1, <3>2
  <2> QED BY <2>1, <2>2
<1>4. SendSize - 1 \in Nat /\ SendSize - 1 >= 1
  BY SendSizeAssumption
<1>5. CASE HasNewline(r)
  <2> DEFINE f == FirstNewline(r)
  <2>1. f \in 1..Len(r) /\ \A k \in 1..f - 1 : r[k] # NL
    BY <1>1, <1>5, FirstNewlineExists
  <2> HIDE DEF f
  <2>2. CASE c \in DataClients \/ f < SendSize
    <3>1. Piece(c) = Take(r, f)
      BY <1>5, <2>2 DEF Piece, r, f
    <3>2. Piece(c) # <<>>
      BY <1>1, <1>2, <1>5, <2>1, <3>1, TakeAndDrop DEF HasNewline
    <3> QED BY <1>1, <1>3, <2>1, <3>1, <3>2 DEF r
  <2>3. CASE ~(c \in DataClients \/ f < SendSize)
    <3>1. Piece(c) = Take(r, SendSize - 1)
      BY <1>5, <2>3 DEF Piece, r, f
    <3>2. \A k \in 1..SendSize - 1 - 1 : k <= Len(r) => r[k] # NL
      BY <1>2, <2>1, <2>3, SendSizeAssumption
    <3> QED BY <1>1, <1>3, <1>4, <2>3, <3>1, <3>2 DEF r
  <2> QED BY <2>2, <2>3
<1>6. CASE ~HasNewline(r)
  <2>1. \A k \in 1..Len(r) : r[k] # NL
    BY <1>6 DEF HasNewline
  <2>2. CASE c \in DataClients
    <3>1. Piece(c) = <<>>
      BY <1>6, <2>2 DEF Piece, r
    <3>2. <<>> = SubSeq(r, 1, 0)
      BY <1>1
    <3> QED BY <1>1, <1>2, <1>6, <3>1, <3>2 DEF r
  <2>3. CASE c \notin DataClients
    <3>1. Piece(c) = Take(r, SendSize - 1)
      BY <1>6, <2>3 DEF Piece, r
    <3>2. \A k \in 1..SendSize - 1 - 1 : k <= Len(r) => r[k] # NL
      BY <1>2, <1>4, <2>1
    <3> QED BY <1>1, <1>3, <1>4, <2>3, <3>1, <3>2 DEF r
  <2> QED BY <2>2, <2>3
<1> QED BY <1>5, <1>6

(* What is sent are bytes.                                                 *)
LEMMA PieceType ==
  ASSUME NEW c \in Clients, pos[c] \in Nat
  PROVE  Piece(c) \in Seq(Bytes) /\ Len(Piece(c)) \in Nat
<1>1. PICK n \in 0..Len(Rest(c)) : Piece(c) = SubSeq(Rest(c), 1, n)
  BY PieceIs
<1>2. /\ Rest(c) \in Seq(Bytes)
      /\ 0 \in Nat /\ n \in Nat /\ 0 <= n /\ n <= Len(Rest(c))
  BY PieceIs
<1>3. SubSeq(Rest(c), 0 + 1, n) \in Seq(Bytes)
  BY <1>2, PartOf
<1> QED BY <1>1, <1>3

(* The types of the clients are kept by every step.                        *)
LEMMA ClientTypeInvariant == ClientTypeOK /\ [Next]_systemVars => ClientTypeOK'
<1> SUFFICES ASSUME ClientTypeOK, [Next]_systemVars
             PROVE  ClientTypeOK'
  OBVIOUS
<1>1. CASE UNCHANGED clientVars
  BY <1>1 DEF ClientTypeOK, clientVars
<1>2. ASSUME NEW c \in Clients, ClientStep(c) \/ ClientSignal(c)
      PROVE  ClientTypeOK'
  <2>1. CASE SendPiece(c)
    <3>1. pos[c] \in Nat /\ Len(Piece(c)) \in Nat
      BY PieceType DEF ClientTypeOK
    <3> QED BY <2>1, <3>1 DEF SendPiece, Move, ClientTypeOK, ClientLabels
  <2>2. CASE ~SendPiece(c)
    <3>1. FailureStatus(c) \in {0, 1}
      BY DEF FailureStatus
    <3> QED
      BY <1>2, <2>2, <3>1
         DEF ClientStep, ClientSignal, ConnectToServer, ConnectFails,
             SendToClosed, ReceiveAnswer, ReceiveFails, Leave, SignalClient,
             ReceiveInterrupted, Move, Finish, ClientTypeOK, ClientLabels
  <2> QED BY <2>1, <2>2
<1> QED
  BY <1>1, <1>2 DEF Next, ServerActs, ClientActs, StopServer, StopClient,
       systemVars

(* A client of t4 does what the server expects of a client.                *)
LEMMA ClientMovesOnly ==
  ASSUME ClientTypeOK, NEW c \in Clients, ClientStep(c) \/ ClientSignal(c)
  PROVE  ClientMoves(c) \/ UNCHANGED socketVars
<1>1. CASE SendPiece(c)
  <2>1. Piece(c) \in Seq(Bytes)
    BY PieceType DEF ClientTypeOK
  <2> QED BY <1>1, <2>1 DEF SendPiece, ClientMoves
<1>2. CASE ~SendPiece(c)
  BY <1>2 DEF ClientStep, ClientSignal, ConnectToServer, ConnectFails,
       SendToClosed, ReceiveAnswer, ReceiveFails, Leave, SignalClient,
       ReceiveInterrupted, ClientMoves
<1> QED BY <1>1, <1>2

(* A step of the system is a step of the server and its clients, or none.  *)
LEMMA StepOfServer == ClientTypeOK /\ [Next]_systemVars => [ServerNext]_netVars
<1> SUFFICES ASSUME ClientTypeOK, [Next]_systemVars
             PROVE  [ServerNext]_netVars
  OBVIOUS
<1>1. ASSUME NEW c \in Clients, ClientStep(c) \/ ClientSignal(c),
             UNCHANGED serverVars
      PROVE  [ServerNext]_netVars
  BY <1>1, ClientMovesOnly DEF ServerNext, netVars
<1>2. CASE ServerStep \/ Terminate \/ UNCHANGED systemVars
  BY <1>2 DEF ServerNext, netVars, systemVars
<1> QED
  BY <1>1, <1>2 DEF Next, ServerActs, ClientActs, StopServer, StopClient

(* The types of the clients, in every reachable state.                     *)
THEOREM ClientTypeOKHolds == Spec => []ClientTypeOK
<1>1. Init => ClientTypeOK
  BY DEF Init, InitClients, ClientTypeOK, ClientLabels
<1> QED BY <1>1, ClientTypeInvariant, PTL DEF Spec

(* The system with its own clients is a system with clients of some kind:  *)
(* what ServerProofs says of the server holds of it.                       *)
THEOREM SystemIsServed == Spec => ServerSpec
<1>1. Init => InitServer /\ InitSockets
  BY DEF Init
<1> QED
  BY <1>1, StepOfServer, ClientTypeOKHolds, PTL DEF Spec, ServerSpec

(* The types of the server, the sockets and the clients.                   *)
THEOREM SystemTypeOKHolds == Spec => []SystemTypeOK
<1> QED
  BY SystemIsServed, ServerTypeOKHolds, ClientTypeOKHolds, PTL
     DEF SystemTypeOK

(* Whatever the real clients do, each line they send is added to the total *)
(* once, and in the order of its client (server.c lines 150 to 193).       *)
THEOREM SystemAccumulates == Spec => ImplementsAccumulator
BY SystemIsServed, ImplementsAccumulatorHolds

-----------------------------------------------------------------------------
(* The server is about to send its answer to c.                            *)
Answering(c) == spc = "send" /\ Client(i) = c

(* A client has its end of the connection between connect() and close().   *)
EndOf(c) ==
  /\ cpc[c] = "start" => cliEnd[c] = "none"
  /\ cpc[c] \in {"ready", "recv", "leaving"} <=> cliEnd[c] = "open"

(* Nothing that c has sent is left to be read, and all its lines are       *)
(* applied ...                                                             *)
AllTaken(c) == up[c] = <<>> /\ Len(log[c]) = LineCount(wrote[c])

(* ... before its first piece, between an answer and the next piece, and   *)
(* while its answer is made and under way.                                 *)
Quiet(c) ==
  \/ cpc[c] \in {"start", "ready", "leaving"}
  \/ down[c] # <<>>
  \/ Answering(c)

LineAtEnd(s) == \A k \in 1..Len(s) - 1 : s[k] # NL

TurnOf(c) ==
  /\ EndOf(c)
  /\ LineAtEnd(up[c])
  /\ Quiet(c) => AllTaken(c)
  /\ down[c] # <<>> => cpc[c] = "recv" /\ ~Answering(c) /\ Len(down[c]) = 1
  /\ Answering(c) => cpc[c] \in {"recv", "done"}

SlotOf(c, bytes) ==
  ~HasNewline(bytes) /\ (Quiet(c) => bytes = <<>>)

TurnIInv ==
  /\ \A c \in Clients : TurnOf(c)
  /\ Serving => \A k \in 1..Len(conns) : SlotOf(Client(k), Buffered(k))

(* What a data file has had applied, when its client exits with status 0.  *)
FileIInv ==
  \A c \in Clients :
    /\ pos[c] \in 0..Len(Input[c])
    /\ wrote[c] = SubSeq(Input[c], 1, pos[c])
    /\ cpc[c] = "leaving" => flagged[c]
    /\ c \in DataClients /\ status[c] = 0 /\ ~flagged[c] =>
         cpc[c] = "done" /\ up[c] = <<>> /\ log[c] = LinesSeen(Input[c])

SystemIInv == ServerIInv /\ ClientTypeOK /\ TurnIInv /\ FileIInv

-----------------------------------------------------------------------------
(* A client that a step does not concern stays as it was.                  *)
LEMMA TurnUntouched ==
  ASSUME NEW c \in Clients, TurnOf(c),
         cpc'[c] = cpc[c], cliEnd'[c] = cliEnd[c], wrote'[c] = wrote[c],
         log'[c] = log[c], up'[c] = up[c] \/ up'[c] = <<>>,
         down'[c] = down[c], Answering(c)' => Answering(c)
  PROVE  TurnOf(c)' /\ (Quiet(c)' => Quiet(c))
<1>1. Quiet(c)' => Quiet(c)
  BY DEF Quiet
<1>2. AllTaken(c) => AllTaken(c)'
  BY DEF AllTaken
<1>3. LineAtEnd(up[c]) => LineAtEnd(up'[c])
  <2>1. \A k : k \notin 1..Len(<<>>) - 1
    <3>1. Len(<<>>) = 0
      OBVIOUS
    <3> QED BY <3>1
  <2> QED BY <2>1 DEF LineAtEnd
<1> QED BY <1>1, <1>2, <1>3 DEF TurnOf, EndOf

(* When everything of a stream was read and no part of a line is left, all *)
(* its lines are in the log.                                               *)
LEMMA AllRead ==
  ASSUME NEW w \in Seq(Bytes), NEW n \in Nat, n <= LineCount(w),
         Behind(w, LineEnd(w, n), <<>>, <<>>)
  PROVE  n = LineCount(w)
<1> DEFINE last == LineEnd(w, n)
<1>1. Len(w) \in Nat /\ LineCount(w) \in Nat /\ n \in 0..LineCount(w)
  <2>1. Len(w) \in Nat
    OBVIOUS
  <2>2. LineCount(w) \in Nat
    BY <2>1, CountStep DEF LineCount
  <2> QED BY <2>1, <2>2
<1>2. last \in 0..Len(w) /\ NewlinesIn(w, last) = n
  BY <1>1, LineEndFrom
<1>3. \A k \in last + 1..Len(w) : w[k] # NL
  <2>1. Cut(w, <<>>, <<>>) = Len(w)
    <3>1. Cut(w, <<>>, <<>>) = Len(w) - Len(<<>>) - Len(<<>>) /\ Len(<<>>) = 0
      BY EmptySeq DEF Cut
    <3> QED BY <1>1, <3>1
  <2> QED BY <2>1 DEF Behind
<1> HIDE DEF last
<1>4. NewlinesIn(w, Len(w)) = NewlinesIn(w, last)
  BY <1>1, <1>2, <1>3, CountOver
<1> QED BY <1>2, <1>4 DEF LineCount

(* handle_client_data when a line is complete: with these clients it is    *)
(* all there is, and nothing stays behind it.                              *)
LEMMA WholeLineRead ==
  ASSUME ServerIInv, ClientTypeOK, TurnIInv, ReadLine
  PROVE  /\ ~Quiet(Client(i)) /\ cpc[Client(i)] \in {"recv", "done"}
         /\ up'[Client(i)] = <<>> /\ Leftover = <<>>
<1>0. TableTypeOK /\ ValueTypeOK
  BY DEF ServerIInv, SlotIInv
<1>1. InTurn /\ i \in 1..Len(conns) /\ Serving
  BY <1>0, TurnOfSlot DEF ReadLine, InTurn, Serving, ServerRuns
<1>2. PICK c \in Clients : c = Client(i)
  BY <1>0, <1>1, TurnOfSlot
<1> DEFINE b == Buffered(i)
           u == up[c]
           t == Incoming(i)
           p == FirstNewline(Received(i))
<1>3. b \in Seq(Bytes) /\ u \in Seq(Bytes) /\ SlotOf(c, b) /\ TurnOf(c)
  BY <1>0, <1>1, <1>2, SlotTypes DEF TurnIInv
<1>4. PICK n \in 0..Len(u) : t = SubSeq(u, 1, n)
  <2>1. Len(b) \in Nat /\ Len(b) <= BufferSize - 2
    BY <1>0, <1>1, <1>3 DEF TableTypeOK, BuffersHaveRoom, Buffered
  <2>2. Space(i) \in Nat
    BY <2>1, BufferSizeAssumption DEF Space
  <2>3. t = SubSeq(u, 1, IF Space(i) < Len(u) THEN Space(i) ELSE Len(u))
    BY <1>2 DEF Incoming, Take
  <2> QED BY <1>3, <2>2, <2>3
<1>5. Received(i) = b \o t /\ t # <<>> /\ HasNewline(Received(i))
  BY DEF ReadLine, Received
<1> HIDE DEF b, u, t
<1>6. t \in Seq(Bytes) /\ Len(t) = n /\ \A k \in 1..n : t[k] = u[k]
  <2>1. 0 \in Nat /\ n \in Nat /\ 0 <= n /\ n <= Len(u)
    BY <1>3
  <2>2. t = SubSeq(u, 0 + 1, n)
    BY <1>4
  <2>3. /\ t \in Seq(Bytes) /\ Len(t) = n - 0
        /\ \A k \in 1..n - 0 : t[k] = u[0 + k]
    BY <1>3, <2>1, <2>2, PartOf
  <2> QED BY <2>1, <2>3
<1>7. Len(b) \in Nat /\ Len(u) \in Nat /\ n \in Nat /\ n # 0 /\ u # <<>>
  BY <1>3, <1>5, <1>6, EmptySeq
<1>8. ~Quiet(c) /\ cpc[c] \in {"recv", "done"}
  <2>1. ~Quiet(c)
    BY <1>3, <1>7 DEF TurnOf, AllTaken, u
  <2> QED BY <2>1 DEF Quiet, ClientTypeOK, ClientLabels
<1>9. /\ Received(i) \in Seq(Bytes) /\ Len(Received(i)) = Len(b) + n
      /\ \A k \in 1..Len(b) : Received(i)[k] = b[k]
      /\ \A k \in 1..n : Received(i)[Len(b) + k] = u[k]
  <2>1. /\ b \o t \in Seq(Bytes) /\ Len(b \o t) = Len(b) + n
        /\ \A k \in 1..Len(b) : (b \o t)[k] = b[k]
    BY <1>3, <1>6, <1>7
  <2>2. ASSUME NEW k \in 1..n
        PROVE  (b \o t)[Len(b) + k] = u[k]
    <3>1. /\ Len(b) + k \in 1..Len(b) + n /\ Len(b) + k > Len(b)
          /\ Len(b) + k - Len(b) = k
      BY <1>7
    <3>2. (b \o t)[Len(b) + k] = t[Len(b) + k - Len(b)]
      BY <1>3, <1>6, <1>7, <3>1
    <3> QED BY <1>6, <3>1, <3>2
  <2> QED BY <1>5, <2>1, <2>2
<1>10. p \in 1..Len(b) + n /\ Received(i)[p] = NL
  BY <1>5, <1>9, FirstNewlineExists
<1> HIDE DEF p
<1>11. p = Len(b) + n /\ n = Len(u)
  <2>1. ~(p <= Len(b))
    BY <1>3, <1>7, <1>9, <1>10 DEF SlotOf, HasNewline
  <2>2. p - Len(b) \in 1..n /\ u[p - Len(b)] = NL
    <3>1. p - Len(b) \in 1..n /\ Len(b) + (p - Len(b)) = p
      BY <1>7, <1>10, <2>1
    <3> QED BY <1>9, <1>10, <3>1
  <2>3. p - Len(b) \notin 1..Len(u) - 1
    BY <1>3, <2>2 DEF TurnOf, LineAtEnd, u
  <2> QED BY <1>7, <1>10, <2>2, <2>3
<1>12. up'[c] = <<>>
  <2>1. up'[c] = Drop(u, n)
    BY <1>0, <1>2, <1>6 DEF ReadLine, Consume, TableTypeOK, u, t
  <2> QED BY <1>3, <1>7, <1>11, <2>1 DEF Drop
<1>13. Leftover = <<>>
  BY <1>7, <1>9, <1>11 DEF Leftover, Drop, p
<1> QED BY <1>2, <1>8, <1>12, <1>13

(* The steps of the server.                                                *)
LEMMA TurnServer ==
  ASSUME ServerIInv, ServerIInv', ClientTypeOK, TurnIInv,
         ServerStep, UNCHANGED clientVars
  PROVE  TurnIInv'
<1>0. TableTypeOK /\ ValueTypeOK /\ TableTypeOK' /\ ValueTypeOK' /\ LinesIInv'
  BY DEF ServerIInv, SlotIInv
<1>1. UNCHANGED <<cpc, cliEnd, wrote>>
  BY DEF clientVars, ServerStep, HandleClient, SetupSigactions, SetupSocket,
       StartUpFails, TestFlag, PollBlocks, PollReturns, SkipSlot, EndScan,
       AcceptConnection, RejectConnection, AcceptFails, ReadEnd, ReadLine,
       ReadPart, ReadOverflow, SendAnswer, SendRaisesSigpipe,
       CloseConnections, CloseListener, socketVars
<1>2. ASSUME NEW d \in Clients, log'[d] = log[d],
             up'[d] = up[d] \/ up'[d] = <<>>, down'[d] = down[d],
             Answering(d)' => Answering(d)
      PROVE  TurnOf(d)' /\ \A b : SlotOf(d, b) => SlotOf(d, b)'
  BY <1>1, <1>2, TurnUntouched DEF TurnIInv, SlotOf
(* All other clients were untouched, and each slot is as one was before.   *)
<1>3. ASSUME \A d \in Clients : TurnOf(d)',
             \A k \in 1..Len(conns') : \E d, b :
               Client(k)' = d /\ Buffered(k)' = b /\ SlotOf(d, b)'
      PROVE  TurnIInv'
  <2>1. ASSUME NEW k \in 1..Len(conns')
        PROVE  SlotOf(Client(k), Buffered(k))'
    <3>1. PICK d, b : Client(k)' = d /\ Buffered(k)' = b /\ SlotOf(d, b)'
      BY <1>3
    <3> QED BY <3>1 DEF SlotOf, Quiet, Answering
  <2> QED BY <1>3, <2>1 DEF TurnIInv
<1>4. ASSUME NEW k \in 1..Len(conns), Serving
      PROVE  \E d, b : /\ d = Client(k) /\ b = Buffered(k) /\ d \in Clients
                       /\ SlotOf(d, b)
  BY <1>0, <1>4, SlotTypes DEF TurnIInv
<1>5. CASE UNCHANGED <<conns, log, up, down>> /\ spc' # "send" /\ Serving
  <2>1. \A d \in Clients : TurnOf(d)' /\ \A b : SlotOf(d, b) => SlotOf(d, b)'
    BY <1>2, <1>5 DEF Answering
  <2>2. ASSUME NEW k \in 1..Len(conns')
        PROVE  \E d, b : Client(k)' = d /\ Buffered(k)' = b /\ SlotOf(d, b)'
    <3>1. PICK d, b : d = Client(k) /\ b = Buffered(k) /\ d \in Clients
                      /\ SlotOf(d, b)
      BY <1>4, <1>5, <2>2
    <3>2. Client(k)' = d /\ Buffered(k)' = b
      BY <1>5, <3>1 DEF Client, Buffered
    <3> QED BY <2>1, <3>1, <3>2
  <2> QED BY <1>3, <2>1, <2>2
<1>6. CASE AcceptConnection
  <2> DEFINE new == Head(backlog)
  <2>1. Serving /\ UNCHANGED <<log, up, down>> /\ spc' = "scan"
    BY <1>6 DEF AcceptConnection, Serving, ServerRuns
  <2>2. new \in Clients
    BY <1>0, <1>6, <2>1, FirstLeaves
       DEF AcceptConnection, TableTypeOK, SomebodyWaits, ServerIInv, SlotIInv,
           ConnectionsAgree
  <2>3. /\ Len(conns') = Len(conns) + 1
        /\ \A k \in 1..Len(conns) : conns'[k] = conns[k]
        /\ conns'[Len(conns) + 1] = [client |-> new, buf |-> <<>>]
    BY <1>0, <1>6, <2>2, NewSlot DEF AcceptConnection, TableTypeOK
  <2>4. \A d \in Clients : TurnOf(d)' /\ \A b : SlotOf(d, b) => SlotOf(d, b)'
    BY <1>2, <2>1 DEF Answering
  <2>5. ASSUME NEW k \in 1..Len(conns')
        PROVE  \E d, b : Client(k)' = d /\ Buffered(k)' = b /\ SlotOf(d, b)'
    <3>1. CASE k \in 1..Len(conns)
      <4>1. PICK d, b : d = Client(k) /\ b = Buffered(k) /\ d \in Clients
                        /\ SlotOf(d, b)
        BY <1>4, <2>1, <3>1
      <4>2. Client(k)' = d /\ Buffered(k)' = b
        BY <2>3, <3>1, <4>1 DEF Client, Buffered
      <4> QED BY <2>4, <4>1, <4>2
    <3>2. CASE k = Len(conns) + 1
      <4>1. PICK d, b : d = new /\ b = <<>>
        OBVIOUS
      <4>2. ~HasNewline(<<>>)
        <5>1. Len(<<>>) = 0
          OBVIOUS
        <5> QED BY <5>1 DEF HasNewline
      <4>3. Client(k)' = d /\ Buffered(k)' = b
        BY <2>3, <3>2, <4>1 DEF Client, Buffered
      <4> QED BY <4>1, <4>2, <4>3 DEF SlotOf
    <3> QED
      <4>1. Len(conns) \in Nat
        BY <1>0 DEF TableTypeOK
      <4> QED BY <2>3, <2>5, <3>1, <3>2, <4>1
  <2> QED BY <1>3, <2>4, <2>5
<1>7. ASSUME NEW C, CloseServerEnds(C), UNCHANGED <<log, down>>, spc' # "send"
      PROVE  \A d \in Clients :
               TurnOf(d)' /\ \A b : SlotOf(d, b) => SlotOf(d, b)'
  BY <1>2, <1>7 DEF CloseServerEnds, Answering
<1>8. CASE RejectConnection
  <2>1. Serving /\ UNCHANGED <<conns, log, down>> /\ spc' = "scan"
        /\ CloseServerEnds({Head(backlog)})
    BY <1>8 DEF RejectConnection, Serving, ServerRuns
  <2>2. \A d \in Clients : TurnOf(d)' /\ \A b : SlotOf(d, b) => SlotOf(d, b)'
    BY <1>7, <2>1
  <2>3. ASSUME NEW k \in 1..Len(conns')
        PROVE  \E d, b : Client(k)' = d /\ Buffered(k)' = b /\ SlotOf(d, b)'
    <3>1. PICK d, b : d = Client(k) /\ b = Buffered(k) /\ d \in Clients
                      /\ SlotOf(d, b)
      BY <1>4, <2>1, <2>3
    <3>2. Client(k)' = d /\ Buffered(k)' = b
      BY <2>1, <3>1 DEF Client, Buffered
    <3> QED BY <2>2, <3>1, <3>2
  <2> QED BY <1>3, <2>2, <2>3
<1>9. CASE SendRaisesSigpipe \/ CloseConnections \/ CloseListener
  <2>1. UNCHANGED <<log, down>> /\ ~Serving' /\ spc' # "send"
        /\ \E C : CloseServerEnds(C)
    BY <1>9 DEF SendRaisesSigpipe, CloseConnections, CloseListener, Serving,
         ServerRuns
  <2>2. \A d \in Clients : TurnOf(d)'
    BY <1>7, <2>1
  <2> QED BY <2>1, <2>2 DEF TurnIInv
<1>10. CASE ReadEnd
  <2>1. Serving /\ UNCHANGED <<log, down>> /\ spc' = "scan"
        /\ CloseServerEnds({Client(i)}) /\ RemoveSlot(i) /\ InTurn
    BY <1>10 DEF ReadEnd, InTurn, Serving, ServerRuns
  <2>2. \A d \in Clients : TurnOf(d)' /\ \A b : SlotOf(d, b) => SlotOf(d, b)'
    BY <1>7, <2>1
  <2>3. i \in 1..Len(conns) /\ conns \in Seq(Slots)
    BY <1>0, <2>1, TurnOfSlot DEF TableTypeOK
  <2>4. /\ Len(conns') = Len(conns) - 1
        /\ \A m \in 1..Len(conns') :
             conns'[m] = IF m = i THEN conns[Len(conns)] ELSE conns[m]
    BY <2>1, <2>3, RemovedSlot
  <2>5. ASSUME NEW k \in 1..Len(conns')
        PROVE  \E d, b : Client(k)' = d /\ Buffered(k)' = b /\ SlotOf(d, b)'
    <3>1. PICK m \in 1..Len(conns) : conns'[k] = conns[m]
      <4>1. Len(conns) \in 1..Len(conns) /\ k \in 1..Len(conns)
        BY <2>3, <2>4
      <4> QED BY <2>4, <4>1
    <3>2. PICK d, b : d = Client(m) /\ b = Buffered(m) /\ d \in Clients
                      /\ SlotOf(d, b)
      BY <1>4, <2>1
    <3>3. Client(k)' = d /\ Buffered(k)' = b
      BY <3>1, <3>2 DEF Client, Buffered
    <3> QED BY <2>2, <3>2, <3>3
  <2> QED BY <1>3, <2>2, <2>5
<1>11. CASE ReadPart \/ ReadOverflow
  <2>1. Serving /\ UNCHANGED <<log, down, srvEnd>> /\ spc' = "scan"
        /\ Consume(i) /\ Incoming(i) # <<>> /\ InTurn
        /\ ~HasNewline(Received(i))
    BY <1>11 DEF ReadPart, ReadOverflow, InTurn, Serving, ServerRuns
  <2>2. i \in 1..Len(conns) /\ conns \in Seq(Slots) /\ Client(i) \in Clients
        /\ Received(i) \in Seq(Bytes)
    BY <1>0, <2>1, TurnOfSlot DEF TableTypeOK
  <2>3. PICK s \in Seq(Bytes) : KeepInBuffer(i, s) /\ ~HasNewline(s)
    <3>1. <<>> \in Seq(Bytes) /\ Len(<<>>) = 0
      BY EmptySeq
    <3>2. ~HasNewline(<<>>)
      BY <3>1 DEF HasNewline
    <3> QED BY <1>11, <2>1, <2>2, <3>1, <3>2 DEF ReadPart, ReadOverflow
  <2>4. /\ Len(conns') = Len(conns)
        /\ \A m \in 1..Len(conns) : conns'[m].client = conns[m].client
        /\ \A m \in 1..Len(conns) : m # i => conns'[m] = conns[m]
        /\ conns'[i].buf = s
    BY <2>2, <2>3, FilledSlot
  <2>5. PICK c \in Clients : c = Client(i)
    BY <2>2
  <2>6. TurnOf(c) /\ ~Quiet(c)
    <3>1. up[c] # <<>>
      <4>1. Incoming(i) = Take(up[c], Space(i)) /\ up[c] \in Seq(Bytes)
        BY <1>0, <2>5 DEF Incoming, TableTypeOK
      <4>2. Take(<<>>, Space(i)) = <<>>
        <5>1. Len(<<>>) = 0
          OBVIOUS
        <5> QED BY <5>1 DEF Take
      <4> QED BY <2>1, <4>1, <4>2
    <3> QED BY <3>1 DEF TurnIInv, TurnOf, AllTaken
  <2>7. ASSUME NEW d \in Clients, d # c
        PROVE  TurnOf(d)' /\ \A b : SlotOf(d, b) => SlotOf(d, b)'
    <3>1. up'[d] = up[d]
      BY <1>0, <2>1, <2>5, <2>7 DEF Consume, TableTypeOK
    <3> QED BY <1>2, <2>1, <3>1 DEF Answering
  <2>8. TurnOf(c)' /\ ~Quiet(c)'
    <3>1. ~Quiet(c)' /\ ~Answering(c)' /\ down'[c] = <<>> /\ EndOf(c)'
      BY <1>1, <2>1, <2>6 DEF Quiet, Answering, TurnOf, EndOf
    <3>2. LineAtEnd(up'[c])
      <4>1. up[c] \in Seq(Bytes) /\ Len(Incoming(i)) \in Nat
            /\ Len(Incoming(i)) <= Len(up[c])
        <5>1. up[c] \in Seq(Bytes) /\ Len(up[c]) \in Nat
          BY <1>0 DEF TableTypeOK
        <5>2. Buffered(i) \in Seq(Bytes) /\ Len(Buffered(i)) <= BufferSize - 2
          BY <1>0, <2>2, SlotTypes DEF TableTypeOK, BuffersHaveRoom, Buffered
        <5>3. Space(i) \in Nat
          BY <5>2, BufferSizeAssumption DEF Space
        <5>4. Incoming(i) = SubSeq(up[c], 1, IF Space(i) < Len(up[c])
                                             THEN Space(i) ELSE Len(up[c]))
          BY <2>5 DEF Incoming, Take
        <5> QED BY <5>1, <5>3, <5>4
      <4> DEFINE n == Len(Incoming(i))
                 u == up[c]
      <4>2. up'[c] = SubSeq(u, n + 1, Len(u))
        BY <1>0, <2>1, <2>5 DEF Consume, TableTypeOK, Drop
      <4> HIDE DEF n, u
      <4>3. /\ Len(SubSeq(u, n + 1, Len(u))) = Len(u) - n
            /\ \A k \in 1..Len(u) - n : SubSeq(u, n + 1, Len(u))[k] = u[n + k]
        <5>1. u \in Seq(Bytes) /\ n \in Nat /\ n <= Len(u) /\ Len(u) \in Nat
              /\ Len(u) <= Len(u)
          BY <4>1 DEF n, u
        <5> QED BY <5>1, PartOf
      <4>4. Len(u) \in Nat /\ n \in Nat /\ LineAtEnd(u)
        BY <2>6, <4>1 DEF n, u, TurnOf
      <4>5. ASSUME NEW k \in 1..Len(u) - n - 1
            PROVE  u[n + k] # NL
        <5>1. n + k \in 1..Len(u) - 1
          BY <4>4
        <5> QED BY <4>4, <5>1 DEF LineAtEnd
      <4> QED BY <4>2, <4>3, <4>4, <4>5 DEF LineAtEnd
    <3> QED BY <3>1, <3>2 DEF TurnOf
  <2>9. ASSUME NEW k \in 1..Len(conns')
        PROVE  \E d, b : Client(k)' = d /\ Buffered(k)' = b /\ SlotOf(d, b)'
    <3>1. CASE Client(k) = c
      <4>1. k = i
        BY <1>0, <2>1, <2>2, <2>4, <2>5, <3>1
           DEF ServerIInv, SlotIInv, ConnectionsAgree, OneSlotEach
      <4>2. Client(k)' = c /\ Buffered(k)' = s
        BY <2>2, <2>4, <2>5, <4>1 DEF Client, Buffered
      <4> QED BY <2>3, <2>8, <4>2 DEF SlotOf
    <3>2. CASE Client(k) # c
      <4>1. k \in 1..Len(conns) /\ k # i
        BY <2>4, <2>5, <3>2
      <4>2. PICK d, b : d = Client(k) /\ b = Buffered(k) /\ d \in Clients
                        /\ SlotOf(d, b)
        BY <1>4, <2>1, <4>1
      <4>3. Client(k)' = d /\ Buffered(k)' = b
        BY <2>4, <4>1, <4>2 DEF Client, Buffered
      <4> QED BY <2>7, <3>2, <4>2, <4>3
    <3> QED BY <3>1, <3>2
  <2> QED BY <1>3, <2>7, <2>8, <2>9
<1>12. CASE ReadLine
  <2>1. Serving /\ Serving' /\ UNCHANGED <<down, srvEnd, i>> /\ spc' = "send"
        /\ Consume(i) /\ InTurn /\ KeepInBuffer(i, Leftover)
        /\ log' = [log EXCEPT ![Client(i)] = Append(@, FirstLine)]
    BY <1>12 DEF ReadLine, InTurn, Serving, ServerRuns
  <2>2. i \in 1..Len(conns) /\ conns \in Seq(Slots) /\ <<>> \in Seq(Bytes)
    BY <1>0, <2>1, TurnOfSlot, EmptySeq DEF TableTypeOK
  <2>3. PICK c \in Clients : c = Client(i)
    BY <1>0, <2>1, TurnOfSlot
  <2>4. /\ ~Quiet(c) /\ cpc[c] \in {"recv", "done"} /\ up'[c] = <<>>
        /\ KeepInBuffer(i, <<>>)
    BY <1>12, <2>1, <2>3, WholeLineRead
  <2>5. /\ Len(conns') = Len(conns)
        /\ \A m \in 1..Len(conns) : conns'[m].client = conns[m].client
        /\ \A m \in 1..Len(conns) : m # i => conns'[m] = conns[m]
        /\ conns'[i].buf = <<>>
    BY <2>2, <2>4, FilledSlot
  <2>6. Client(i)' = c
    BY <2>1, <2>2, <2>3, <2>5 DEF Client
  <2>7. ASSUME NEW d \in Clients, d # c
        PROVE  TurnOf(d)' /\ \A b : SlotOf(d, b) => SlotOf(d, b)'
    <3>1. up'[d] = up[d] /\ log'[d] = log[d]
      BY <1>0, <2>1, <2>3, <2>7 DEF Consume, TableTypeOK, ValueTypeOK
    <3>2. ~Answering(d)'
      BY <2>6, <2>7 DEF Answering
    <3> QED BY <1>2, <2>1, <3>1, <3>2
  <2>8. AllTaken(c)'
    <3>1. \A k \in 1..Len(conns') : InStep(Client(k), Buffered(k))'
      BY <1>0, <2>1 DEF LinesIInv
    <3>2. InStep(c, <<>>)'
      <4>1. i \in 1..Len(conns') /\ Client(i)' = c /\ Buffered(i)' = <<>>
        BY <2>1, <2>2, <2>5, <2>6 DEF Buffered
      <4>2. conns'[i].client = c /\ conns'[i].buf = <<>>
        BY <2>1, <4>1 DEF Client, Buffered
      <4> QED BY <2>1, <3>1, <4>1, <4>2 DEF InStep, LastLine, Client, Buffered
    <3>3. Behind(wrote'[c], LineEnd(wrote'[c], Len(log'[c])), <<>>, <<>>)
      BY <2>4, <3>2 DEF InStep, LastLine
    <3>4. /\ wrote'[c] \in Seq(Bytes) /\ Len(log'[c]) \in Nat
          /\ Len(log'[c]) <= LineCount(wrote'[c])
      BY <1>0 DEF TableTypeOK, ValueTypeOK, LinesIInv, LogAgrees
    <3> QED BY <2>4, <3>3, <3>4, AllRead DEF AllTaken
  <2>9. TurnOf(c)'
    <3>1. down'[c] = <<>> /\ EndOf(c)' /\ cpc'[c] \in {"recv", "done"}
      BY <1>1, <2>1, <2>4 DEF Quiet, TurnIInv, TurnOf, EndOf
    <3>2. LineAtEnd(up'[c])
      <4>1. Len(<<>>) = 0
        OBVIOUS
      <4> QED BY <2>4, <4>1 DEF LineAtEnd
    <3> QED BY <2>8, <3>1, <3>2 DEF TurnOf
  <2>10. ASSUME NEW k \in 1..Len(conns')
         PROVE  \E d, b : Client(k)' = d /\ Buffered(k)' = b /\ SlotOf(d, b)'
    <3>1. CASE k = i
      <4>1. Client(k)' = c /\ Buffered(k)' = <<>>
        BY <2>2, <2>3, <2>5, <3>1 DEF Client, Buffered
      <4>2. ~HasNewline(<<>>)
        <5>1. Len(<<>>) = 0
          OBVIOUS
        <5> QED BY <5>1 DEF HasNewline
      <4> QED BY <4>1, <4>2 DEF SlotOf
    <3>2. CASE k # i
      <4>1. Client(k) # c
        BY <1>0, <2>1, <2>2, <2>3, <2>5, <3>2
           DEF ServerIInv, SlotIInv, ConnectionsAgree, OneSlotEach
      <4>2. PICK d, b : d = Client(k) /\ b = Buffered(k) /\ d \in Clients
                        /\ SlotOf(d, b)
        BY <1>4, <2>1, <2>5
      <4>3. Client(k)' = d /\ Buffered(k)' = b
        BY <2>5, <3>2, <4>2 DEF Client, Buffered
      <4> QED BY <2>7, <4>1, <4>2, <4>3
    <3> QED BY <3>1, <3>2
  <2> QED BY <1>3, <2>7, <2>9, <2>10
<1>13. CASE SendAnswer
  <2>1. Serving /\ UNCHANGED <<conns, log, up>> /\ spc = "send" /\ spc' = "scan"
        /\ cliEnd[Client(i)] = "open"
        /\ down' = [down EXCEPT ![Client(i)] = Append(@, state)]
    BY <1>13 DEF SendAnswer, Serving, ServerRuns
  <2>2. PICK c \in Clients : c = Client(i)
    BY <1>0, <2>1, SlotTypes DEF ValueTypeOK, ScanInRange
  <2>3. TurnOf(c) /\ Answering(c) /\ down[c] = <<>> /\ cpc[c] = "recv"
    BY <2>1, <2>2 DEF TurnIInv, Answering, TurnOf, EndOf
  <2>4. \A d \in Clients : ~Answering(d)'
    BY <2>1 DEF Answering
  <2>5. ASSUME NEW d \in Clients, d # c
        PROVE  TurnOf(d)' /\ \A b : SlotOf(d, b) => SlotOf(d, b)'
    <3>1. down'[d] = down[d]
      BY <1>0, <2>1, <2>2, <2>5 DEF ValueTypeOK
    <3> QED BY <1>2, <2>1, <2>4, <3>1
  <2>6. TurnOf(c)' /\ \A b : SlotOf(c, b) => SlotOf(c, b)'
    <3>1. down'[c] = Append(<<>>, state)
      BY <1>0, <2>1, <2>2, <2>3 DEF ValueTypeOK
    <3>2. down'[c] # <<>> /\ Len(down'[c]) = 1
      BY <3>1
    <3>3. AllTaken(c) /\ AllTaken(c)' /\ Quiet(c)
      BY <1>1, <2>1, <2>3 DEF TurnOf, AllTaken, Quiet
    <3>4. EndOf(c)' /\ LineAtEnd(up[c])' /\ cpc'[c] = "recv"
      BY <1>1, <2>1, <2>3 DEF TurnOf, EndOf
    <3>5. TurnOf(c)'
      BY <2>4, <3>2, <3>3, <3>4 DEF TurnOf
    <3> QED BY <3>3, <3>5 DEF SlotOf
  <2>7. ASSUME NEW k \in 1..Len(conns')
        PROVE  \E d, b : Client(k)' = d /\ Buffered(k)' = b /\ SlotOf(d, b)'
    <3>1. PICK d, b : d = Client(k) /\ b = Buffered(k) /\ d \in Clients
                      /\ SlotOf(d, b)
      BY <1>4, <2>1, <2>7
    <3>2. Client(k)' = d /\ Buffered(k)' = b
      BY <2>1, <3>1 DEF Client, Buffered
    <3> QED BY <2>5, <2>6, <3>1, <3>2
  <2> QED BY <1>3, <2>5, <2>6, <2>7
<1>14. CASE \/ SetupSigactions \/ SetupSocket \/ StartUpFails \/ TestFlag
            \/ PollBlocks \/ PollReturns \/ SkipSlot \/ EndScan \/ AcceptFails
  <2>1. UNCHANGED <<conns, log, up, down>> /\ spc' # "send" /\ Serving
    BY <1>14 DEF SetupSigactions, SetupSocket, StartUpFails, TestFlag,
         PollBlocks, PollReturns, SkipSlot, EndScan, AcceptFails, socketVars,
         Serving, ServerRuns
  <2> QED BY <1>5, <2>1
<1> QED
  BY <1>6, <1>8, <1>9, <1>10, <1>11, <1>12, <1>13, <1>14
     DEF ServerStep, HandleClient

(* The steps of a client.                                                  *)
LEMMA TurnClient ==
  ASSUME ServerIInv, ClientTypeOK, TurnIInv, UNCHANGED serverVars,
         NEW c \in Clients, ClientStep(c) \/ ClientSignal(c)
  PROVE  TurnIInv'
<1>0. /\ cpc \in [Clients -> ClientLabels]
      /\ cliEnd \in [Clients -> EndStates]
      /\ up \in [Clients -> Seq(Bytes)]
      /\ down \in [Clients -> Seq(Ints)]
      /\ UNCHANGED <<spc, conns, i, log>>
  BY DEF ServerIInv, SlotIInv, TableTypeOK, ValueTypeOK, ClientTypeOK,
     serverVars
<1>1. \A d \in Clients : Answering(d)' <=> Answering(d)
  BY <1>0 DEF Answering, Client
<1>2. TurnOf(c)
  BY DEF TurnIInv
<1>3. ASSUME TurnOf(c)' /\ (Quiet(c)' => Quiet(c)),
             \A d \in Clients : d # c =>
               /\ cpc'[d] = cpc[d] /\ cliEnd'[d] = cliEnd[d]
               /\ wrote'[d] = wrote[d] /\ up'[d] = up[d] /\ down'[d] = down[d]
      PROVE  TurnIInv'
  <2>1. \A d \in Clients : TurnOf(d)' /\ (Quiet(d)' => Quiet(d))
    BY <1>0, <1>1, <1>3, TurnUntouched DEF TurnIInv
  <2>2. ASSUME Serving', NEW k \in 1..Len(conns')
        PROVE  SlotOf(Client(k), Buffered(k))'
    <3>1. PICK d, b : /\ d = Client(k) /\ b = Buffered(k) /\ d \in Clients
                      /\ SlotOf(d, b)
      <4>1. Serving /\ k \in 1..Len(conns)
        BY <1>0, <2>2 DEF Serving, ServerRuns
      <4> QED BY <4>1, SlotTypes DEF ServerIInv, SlotIInv, TurnIInv
    <3>2. SlotOf(d, b)'
      BY <2>1, <3>1 DEF SlotOf
    <3>3. Client(k)' = d /\ Buffered(k)' = b
      BY <1>0, <3>1 DEF Client, Buffered
    <3> QED BY <3>2, <3>3 DEF SlotOf, Quiet, Answering
  <2> QED BY <2>1, <2>2 DEF TurnIInv
(* close(): what the client sent stays as it is.                           *)
<1>4. ASSUME ClientClose(c), Move(c, "done")
      PROVE  TurnIInv'
  <2>1. /\ cliEnd[c] = "open" /\ cliEnd'[c] = "closed"
        /\ down'[c] = <<>> /\ cpc'[c] = "done"
        /\ UNCHANGED <<wrote, up, log>>
    BY <1>0, <1>4 DEF ClientClose, Move
  <2>2. Quiet(c)' => Answering(c)
    BY <1>1, <2>1 DEF Quiet
  <2>3. TurnOf(c)' /\ (Quiet(c)' => Quiet(c))
    BY <1>1, <1>2, <2>1, <2>2 DEF TurnOf, EndOf, Quiet, AllTaken
  <2> QED BY <1>0, <1>3, <1>4, <2>3 DEF ClientClose, Move
<1>5. CASE ConnectToServer(c)
  <2>1. /\ cpc[c] = "start" /\ cpc'[c] = "ready" /\ cliEnd'[c] = "open"
        /\ UNCHANGED <<wrote, up, down, log>>
    BY <1>0, <1>5 DEF ConnectToServer, Connect, Move
  <2>2. TurnOf(c)' /\ (Quiet(c)' => Quiet(c))
    BY <1>1, <1>2, <2>1 DEF TurnOf, EndOf, Quiet, AllTaken
  <2> QED BY <1>0, <1>3, <1>5, <2>2 DEF ConnectToServer, Connect, Move
<1>6. CASE ConnectFails(c)
  <2>1. /\ cpc[c] = "start" /\ cpc'[c] = "done"
        /\ UNCHANGED <<cliEnd, wrote, up, down, log>>
    BY <1>0, <1>6 DEF ConnectFails, Finish, Move, socketVars
  <2>2. TurnOf(c)' /\ (Quiet(c)' => Quiet(c))
    BY <1>1, <1>2, <2>1 DEF TurnOf, EndOf, Quiet, AllTaken
  <2> QED BY <1>0, <1>3, <1>6, <2>2
          DEF ConnectFails, Finish, Move, socketVars
<1>7. CASE SendPiece(c)
  <2>1. /\ cpc[c] = "ready" /\ cpc'[c] = "recv"
        /\ up'[c] = up[c] \o Piece(c)
        /\ UNCHANGED <<cliEnd, down, log>>
    BY <1>0, <1>7 DEF SendPiece, ClientSend, Move
  <2>2. up[c] = <<>> /\ down[c] = <<>> /\ ~Answering(c)
    BY <1>2, <2>1 DEF TurnOf, Quiet, AllTaken
  <2>3. PICK n \in 0..Len(Rest(c)) :
          /\ Rest(c) \in Seq(Bytes)
          /\ Piece(c) = SubSeq(Rest(c), 1, n)
          /\ \A k \in 1..n - 1 : Rest(c)[k] # NL
    BY PieceIs DEF ClientTypeOK
  <2>4. up'[c] = SubSeq(Rest(c), 1, n)
    <3>1. Piece(c) \in Seq(Bytes)
      BY PieceType DEF ClientTypeOK
    <3> QED BY <2>1, <2>2, <2>3, <3>1
  <2>5. LineAtEnd(up'[c])
    <3>1. \A k \in 1..n : SubSeq(Rest(c), 1, n)[k] = Rest(c)[k]
      BY <2>3
    <3>2. Len(SubSeq(Rest(c), 1, n)) = n
      BY <2>3
    <3> QED BY <2>3, <2>4, <3>1, <3>2 DEF LineAtEnd
  <2>6. ~Quiet(c)' /\ ~Answering(c)'
    BY <1>1, <2>1, <2>2 DEF Quiet
  <2>7. TurnOf(c)'
    BY <1>2, <2>1, <2>2, <2>5, <2>6 DEF TurnOf, EndOf
  <2> QED BY <1>0, <1>3, <1>7, <2>6, <2>7 DEF SendPiece, ClientSend, Move
<1>8. CASE ReceiveAnswer(c)
  <2>1. /\ cpc[c] = "recv" /\ cpc'[c] \in {"leaving", "ready"}
        /\ down[c] # <<>> /\ down'[c] = Tail(down[c])
        /\ UNCHANGED <<cliEnd, wrote, up, log>>
    BY <1>0, <1>8 DEF ReceiveAnswer, ClientReceive, Move
  <2>2. Quiet(c) /\ AllTaken(c) /\ ~Answering(c) /\ Len(down[c]) = 1
    BY <1>2, <2>1 DEF TurnOf, Quiet
  <2>3. down'[c] = <<>>
    <3>1. PICK s \in Seq(Ints) : s = down[c]
      BY <1>0
    <3>2. Tail(s) \in Seq(Ints) /\ Len(Tail(s)) = 0
      BY <2>1, <2>2, <3>1
    <3> QED BY <2>1, <3>1, <3>2, EmptySeq
  <2>4. TurnOf(c)' /\ (Quiet(c)' => Quiet(c))
    BY <1>1, <1>2, <2>1, <2>2, <2>3 DEF TurnOf, EndOf, AllTaken
  <2> QED BY <1>0, <1>3, <1>8, <2>4 DEF ReceiveAnswer, ClientReceive, Move
<1>9. CASE SignalClient(c)
  <2>1. UNCHANGED <<cpc, cliEnd, wrote, up, down>>
    BY <1>9 DEF SignalClient, socketVars
  <2>2. TurnOf(c)' /\ (Quiet(c)' => Quiet(c))
    BY <1>0, <1>1, <1>2, <2>1, TurnUntouched
  <2> QED BY <1>3, <2>1, <2>2
<1> QED
  BY <1>4, <1>5, <1>6, <1>7, <1>8, <1>9
     DEF ClientStep, ClientSignal, SendToClosed, ReceiveFails, Leave, Finish,
         ReceiveInterrupted, Move

(* A step that nobody of the two takes, and a signal for the server.       *)
LEMMA TurnElse ==
  ASSUME TurnIInv, ServerIInv, UNCHANGED clientVars,
         Terminate \/ UNCHANGED systemVars
  PROVE  TurnIInv'
<1>1. /\ UNCHANGED <<cpc, cliEnd, wrote, up, down, log, conns, i>>
      /\ (spc' = "send" => spc = "send") /\ (Serving' => Serving)
  BY DEF Terminate, systemVars, serverVars, socketVars, clientVars, Serving,
     ServerRuns
<1>2. \A d \in Clients : TurnOf(d)' /\ (Quiet(d)' => Quiet(d))
  BY <1>1, TurnUntouched DEF TurnIInv, Answering, Client
<1>3. ASSUME Serving', NEW k \in 1..Len(conns')
      PROVE  SlotOf(Client(k), Buffered(k))'
  <2>1. PICK d, b : /\ d = Client(k) /\ b = Buffered(k) /\ d \in Clients
                    /\ SlotOf(d, b)
    BY <1>1, <1>3, SlotTypes DEF ServerIInv, SlotIInv, TurnIInv
  <2>2. SlotOf(d, b)' /\ Client(k)' = d /\ Buffered(k)' = b
    BY <1>1, <1>2, <2>1 DEF SlotOf, Client, Buffered
  <2> QED BY <2>2 DEF SlotOf, Quiet, Answering
<1> QED BY <1>2, <1>3 DEF TurnIInv

(* Every step keeps them in turn ...                                       *)
LEMMA TurnInvariant ==
  ASSUME ServerIInv, ServerIInv', ClientTypeOK, TurnIInv, [Next]_systemVars
  PROVE  TurnIInv'
<1>1. CASE ServerActs
  BY <1>1, TurnServer DEF ServerActs
<1>2. ASSUME NEW c \in Clients, ClientActs(c) \/ StopClient(c)
      PROVE  TurnIInv'
  BY <1>2, TurnClient DEF ClientActs, StopClient
<1>3. CASE StopServer \/ UNCHANGED systemVars
  BY <1>3, TurnElse DEF StopServer, systemVars
<1> QED BY <1>1, <1>2, <1>3 DEF Next

(* ... from the first state on.                                            *)
LEMMA TurnInitially == Init => TurnIInv
<1> SUFFICES ASSUME Init
             PROVE  TurnIInv
  OBVIOUS
<1>1. Len(<<>>) = 0
  OBVIOUS
<1>2. \A c \in Clients :
        /\ cpc[c] = "start" /\ cliEnd[c] = "none" /\ up[c] = <<>>
        /\ down[c] = <<>> /\ wrote[c] = <<>> /\ log[c] = <<>>
  BY DEF Init, InitServer, InitSockets, InitClients
<1>3. spc = "main" /\ Len(conns) = 0
  BY <1>1 DEF Init, InitServer
<1>4. ASSUME NEW c \in Clients
      PROVE  TurnOf(c)
  <2>1. LineAtEnd(up[c])
    BY <1>1, <1>2 DEF LineAtEnd
  <2>2. AllTaken(c) /\ ~Answering(c)
    BY <1>1, <1>2, <1>3, NoLines DEF AllTaken, Answering
  <2> QED BY <1>2, <2>1, <2>2 DEF TurnOf, EndOf
<1> QED BY <1>3, <1>4 DEF TurnIInv

-----------------------------------------------------------------------------
(* What was sent of an input, with the next piece.                         *)
LEMMA SentGrows ==
  ASSUME NEW s \in Seq(Bytes), NEW p \in 0..Len(s), NEW n \in 0..Len(Drop(s, p))
  PROVE  /\ p + n \in 0..Len(s)
         /\ SubSeq(s, 1, p) \o SubSeq(Drop(s, p), 1, n) = SubSeq(s, 1, p + n)
<1> DEFINE r == Drop(s, p)
           head == SubSeq(s, 1, p)
           next == SubSeq(r, 1, n)
           all == SubSeq(s, 1, p + n)
<1>1. Len(s) \in Nat /\ p \in Nat /\ p <= Len(s) /\ Len(s) <= Len(s)
  OBVIOUS
<1>2. /\ r \in Seq(Bytes) /\ Len(r) = Len(s) - p
      /\ \A k \in 1..Len(s) - p : r[k] = s[p + k]
  BY <1>1, PartOf DEF Drop
<1>3. n \in Nat /\ n <= Len(r)
  BY <1>2
<1> HIDE DEF r
<1>4. /\ next \in Seq(Bytes) /\ Len(next) = n
      /\ \A k \in 1..n : next[k] = r[k]
  BY <1>2, <1>3
<1>5. /\ head \in Seq(Bytes) /\ Len(head) = p
      /\ \A k \in 1..p : head[k] = s[k]
  BY <1>1
<1>6. p + n \in 0..Len(s)
  BY <1>1, <1>2, <1>3
<1>7. /\ all \in Seq(Bytes) /\ Len(all) = p + n
      /\ \A k \in 1..p + n : all[k] = s[k]
  BY <1>6
<1> HIDE DEF head, next, all
<1>8. head \o next \in Seq(Bytes) /\ Len(head \o next) = p + n
  BY <1>4, <1>5
<1>9. ASSUME NEW k \in 1..p + n
      PROVE  (head \o next)[k] = all[k]
  <2>1. CASE k <= p
    <3>1. k \in 1..p
      BY <1>1, <1>3, <2>1
    <3>2. (head \o next)[k] = head[k]
      BY <1>1, <1>3, <1>4, <1>5, <3>1
    <3>3. head[k] = s[k] /\ all[k] = s[k]
      BY <1>5, <1>7, <3>1
    <3> QED BY <3>2, <3>3
  <2>2. CASE k > p
    <3>1. k - p \in 1..n /\ k - p \in 1..Len(s) - p /\ p + (k - p) = k
      BY <1>1, <1>2, <1>3, <2>2
    <3>2. (head \o next)[k] = next[k - p]
      BY <1>1, <1>3, <1>4, <1>5, <2>2, <3>1
    <3>3. next[k - p] = s[p + (k - p)]
      BY <1>2, <1>4, <3>1
    <3> QED BY <1>7, <3>1, <3>2, <3>3
  <2>3. k <= p \/ k > p
    BY <1>1, <1>3
  <2> QED BY <2>1, <2>2, <2>3
<1>10. head \o next = all
  BY <1>7, <1>8, <1>9, SeqEqual
<1> QED BY <1>6, <1>10 DEF head, next, all, r

(* A tail without a newline adds no line.                                  *)
LEMMA NoLineInTail ==
  ASSUME NEW w \in Seq(Bytes), NEW r \in Seq(Bytes), ~HasNewline(r)
  PROVE  LinesSeen(w \o r) = LinesSeen(w)
<1> DEFINE s == w \o r
<1>1. /\ s \in Seq(Bytes) /\ Len(s) = Len(w) + Len(r)
      /\ Len(w) \in Nat /\ Len(r) \in Nat
      /\ \A k \in 1..Len(w) : s[k] = w[k]
  OBVIOUS
<1>2. ASSUME NEW k \in Len(w) + 1..Len(s)
      PROVE  s[k] # NL
  <2>1. k - Len(w) \in 1..Len(r) /\ s[k] = r[k - Len(w)]
    BY <1>1
  <2> QED BY <2>1 DEF HasNewline
<1> HIDE DEF s
<1>3. LineCount(s) = LineCount(w)
  <2>1. NewlinesIn(s, Len(s)) = NewlinesIn(s, Len(w))
    BY <1>1, <1>2, CountOver
  <2>2. NewlinesIn(s, Len(w)) = NewlinesIn(w, Len(w))
    <3>1. {k \in 1..Len(w) : s[k] = NL} = {k \in 1..Len(w) : w[k] = NL}
      BY <1>1
    <3> QED BY <3>1 DEF NewlinesIn
  <2> QED BY <2>1, <2>2 DEF LineCount
<1>4. \A n \in 1..LineCount(w) : LinesSeen(s)[n] = LinesSeen(w)[n]
  BY LinesStay DEF s
<1>5. /\ LinesSeen(s) \in Seq(Seq(Bytes)) /\ Len(LinesSeen(s)) = LineCount(s)
      /\ LinesSeen(w) \in Seq(Seq(Bytes)) /\ Len(LinesSeen(w)) = LineCount(w)
  BY <1>1, LinesSeenType
<1> QED BY <1>3, <1>4, <1>5, SeqEqual DEF s

(* The server leaves a client alone of which nothing is left to read.      *)
LEMMA NothingToRead ==
  ASSUME TableTypeOK, ValueTypeOK, ServerStep, NEW c \in Clients, up[c] = <<>>
  PROVE  up'[c] = <<>> /\ log'[c] = log[c]
<1>1. CASE ReadLine \/ ReadPart \/ ReadOverflow
  <2>1. /\ InTurn /\ Consume(i) /\ Incoming(i) # <<>>
        /\ \/ log' = log
           \/ \E line : log' = [log EXCEPT ![Client(i)] = Append(@, line)]
    BY <1>1 DEF ReadLine, ReadPart, ReadOverflow
  <2>2. Client(i) # c
    <3>1. Take(<<>>, Space(i)) = <<>>
      <4>1. Len(<<>>) = 0
        OBVIOUS
      <4> QED BY <4>1 DEF Take
    <3> QED BY <2>1, <3>1 DEF Incoming
  <2> QED BY <2>1, <2>2 DEF Consume, TableTypeOK, ValueTypeOK
<1>2. CASE ~(ReadLine \/ ReadPart \/ ReadOverflow)
  BY <1>2 DEF ServerStep, HandleClient, SetupSigactions, SetupSocket,
       StartUpFails, TestFlag, PollBlocks, PollReturns, SkipSlot, EndScan,
       AcceptConnection, RejectConnection, AcceptFails, ReadEnd, SendAnswer,
       SendRaisesSigpipe, CloseConnections, CloseListener, CloseServerEnds,
       socketVars
<1> QED BY <1>1, <1>2

(* The steps of the server leave the files as they were.                   *)
LEMMA FileServer ==
  ASSUME ServerIInv, FileIInv, ServerStep \/ Terminate, UNCHANGED clientVars
  PROVE  FileIInv'
<1>0. TableTypeOK /\ ValueTypeOK
  BY DEF ServerIInv, SlotIInv
<1>1. UNCHANGED <<wrote, cpc, pos, flagged, status>>
  BY DEF clientVars, ServerStep, HandleClient, SetupSigactions, SetupSocket,
       StartUpFails, TestFlag, PollBlocks, PollReturns, SkipSlot, EndScan,
       AcceptConnection, RejectConnection, AcceptFails, ReadEnd, ReadLine,
       ReadPart, ReadOverflow, SendAnswer, SendRaisesSigpipe,
       CloseConnections, CloseListener, Terminate, socketVars
<1>2. ASSUME NEW c \in Clients, up[c] = <<>>
      PROVE  up'[c] = <<>> /\ log'[c] = log[c]
  <2>1. CASE ServerStep
    BY <1>0, <1>2, <2>1, NothingToRead
  <2>2. CASE Terminate
    BY <1>2, <2>2 DEF Terminate, socketVars
  <2> QED BY <2>1, <2>2
<1> QED BY <1>1, <1>2 DEF FileIInv

(* A client with --data leaves its loop with everything applied.           *)
LEMMA FileApplied ==
  ASSUME ServerIInv, ClientTypeOK, TurnIInv, FileIInv,
         NEW c \in DataClients, cpc[c] = "ready", Piece(c) = <<>>
  PROVE  up[c] = <<>> /\ log[c] = LinesSeen(Input[c])
<1>0. c \in Clients /\ TableTypeOK /\ ValueTypeOK /\ LinesIInv
  BY DataClientsAssumption DEF ServerIInv, SlotIInv
<1>1. AllTaken(c)
  BY <1>0 DEF TurnIInv, TurnOf, Quiet
<1>2. /\ wrote[c] \in Seq(Bytes) /\ log[c] \in Seq(Seq(Bytes))
      /\ LinesSeen(wrote[c]) \in Seq(Seq(Bytes))
      /\ Len(LinesSeen(wrote[c])) = LineCount(wrote[c])
  BY <1>0, LinesSeenType DEF TableTypeOK, ValueTypeOK
<1>3. log[c] = LinesSeen(wrote[c])
  <2>1. Len(log[c]) = Len(LinesSeen(wrote[c]))
    BY <1>1, <1>2 DEF AllTaken
  <2>2. \A n \in 1..Len(log[c]) : log[c][n] = LinesSeen(wrote[c])[n]
    BY <1>0 DEF LinesIInv, LogAgrees
  <2> QED BY <1>2, <2>1, <2>2, SeqEqual
<1>4. /\ Rest(c) \in Seq(Bytes) /\ ~HasNewline(Rest(c))
      /\ Input[c] \in Seq(Bytes) /\ pos[c] \in 0..Len(Input[c])
      /\ wrote[c] = SubSeq(Input[c], 1, pos[c])
  BY <1>0, PieceIs, InputAssumption DEF ClientTypeOK, FileIInv
<1>5. Input[c] = wrote[c] \o Rest(c)
  <2> DEFINE n == Len(Rest(c))
             s == Input[c]
             p == pos[c]
  <2>1. n \in Nat /\ n \in 0..Len(Drop(s, p))
    BY <1>4 DEF Rest
  <2>2. SubSeq(s, 1, p) \o SubSeq(Drop(s, p), 1, n) = SubSeq(s, 1, p + n)
    BY <1>4, <2>1, SentGrows
  <2>3. n = Len(s) - p
    <3>1. Len(s) \in Nat /\ p \in Nat /\ p <= Len(s) /\ Len(s) <= Len(s)
      BY <1>4
    <3> QED BY <1>4, <3>1, PartOf DEF Rest, Drop
  <2>4. SubSeq(s, 1, p + n) = s /\ SubSeq(Drop(s, p), 1, n) = Rest(c)
    <3>1. p + n = Len(s)
      BY <1>4, <2>3
    <3>2. SubSeq(s, 1, Len(s)) = s
      BY <1>4
    <3>3. SubSeq(Rest(c), 1, Len(Rest(c))) = Rest(c)
      BY <1>4
    <3> QED BY <3>1, <3>2, <3>3 DEF Rest
  <2> QED BY <1>4, <2>2, <2>4
<1>6. LinesSeen(Input[c]) = LinesSeen(wrote[c])
  BY <1>2, <1>4, <1>5, NoLineInTail
<1> QED BY <1>1, <1>3, <1>6 DEF AllTaken

(* The steps of a client.                                                  *)
LEMMA FileClient ==
  ASSUME ServerIInv, ClientTypeOK, TurnIInv, FileIInv, UNCHANGED serverVars,
         NEW c \in Clients, ClientStep(c) \/ ClientSignal(c)
  PROVE  FileIInv'
<1>0. /\ cpc \in [Clients -> ClientLabels] /\ pos \in [Clients -> Nat]
      /\ flagged \in [Clients -> BOOLEAN]
      /\ status \in [Clients -> {Running, Killed, 0, 1}]
      /\ wrote \in [Clients -> Seq(Bytes)] /\ up \in [Clients -> Seq(Bytes)]
      /\ UNCHANGED log
  BY DEF ServerIInv, SlotIInv, TableTypeOK, ClientTypeOK, serverVars
<1> DEFINE FileOf(d) ==
             /\ pos[d] \in 0..Len(Input[d])
             /\ wrote[d] = SubSeq(Input[d], 1, pos[d])
             /\ cpc[d] = "leaving" => flagged[d]
             /\ d \in DataClients /\ status[d] = 0 /\ ~flagged[d] =>
                  /\ cpc[d] = "done" /\ up[d] = <<>>
                  /\ log[d] = LinesSeen(Input[d])
<1>1. \A d \in Clients : FileOf(d)
  BY DEF FileIInv
<1>2. ASSUME FileOf(c)',
             \A d \in Clients : d # c =>
               /\ cpc'[d] = cpc[d] /\ pos'[d] = pos[d]
               /\ flagged'[d] = flagged[d] /\ status'[d] = status[d]
               /\ wrote'[d] = wrote[d] /\ up'[d] = up[d]
      PROVE  FileIInv'
  <2>1. ASSUME NEW d \in Clients
        PROVE  FileOf(d)'
    <3>1. CASE d = c
      BY <1>2, <3>1
    <3>2. CASE d # c
      BY <1>0, <1>1, <1>2, <3>2
    <3> QED BY <3>1, <3>2
  <2> QED BY <2>1 DEF FileIInv
(* close() with an exit status.                                            *)
<1>3. ASSUME NEW result, Finish(c, result), UNCHANGED <<wrote, up>>,
             c \in DataClients /\ result = 0 /\ ~flagged[c] =>
               up[c] = <<>> /\ log[c] = LinesSeen(Input[c])
      PROVE  FileIInv'
  <2>1. cpc'[c] = "done" /\ status'[c] = result /\ UNCHANGED <<pos, flagged>>
    BY <1>0, <1>3 DEF Finish, Move
  <2>2. FileOf(c)'
    BY <1>0, <1>1, <1>3, <2>1
  <2> HIDE DEF FileOf
  <2> QED BY <1>0, <1>2, <1>3, <2>2 DEF Finish, Move
<1>4. CASE ConnectToServer(c)
  <2>1. /\ cpc[c] = "start" /\ cpc'[c] = "ready"
        /\ UNCHANGED <<pos, flagged, status, wrote, up>>
    BY <1>0, <1>4 DEF ConnectToServer, Connect, Move
  <2>2. FileOf(c)'
    BY <1>0, <1>1, <2>1
  <2> HIDE DEF FileOf
  <2> QED BY <1>2, <1>4, <2>1, <2>2 DEF ConnectToServer, Move
<1>5. CASE ConnectFails(c)
  BY <1>3, <1>5 DEF ConnectFails, socketVars
<1>6. CASE SendPiece(c)
  <2>1. /\ cpc[c] = "ready" /\ cpc'[c] = "recv"
        /\ pos'[c] = pos[c] + Len(Piece(c))
        /\ wrote'[c] = wrote[c] \o Piece(c)
        /\ UNCHANGED <<flagged, status>>
    BY <1>0, <1>6 DEF SendPiece, ClientSend, Move
  <2>2. PICK n \in 0..Len(Rest(c)) :
          Piece(c) = SubSeq(Rest(c), 1, n) /\ Rest(c) \in Seq(Bytes)
    BY <1>0, PieceIs
  <2>3. Len(Piece(c)) = n
    BY <2>2
  <2>4. /\ pos[c] + n \in 0..Len(Input[c])
        /\ SubSeq(Input[c], 1, pos[c]) \o Piece(c)
             = SubSeq(Input[c], 1, pos[c] + n)
    <3>1. Input[c] \in Seq(Bytes) /\ pos[c] \in 0..Len(Input[c])
      BY <1>1, InputAssumption
    <3> QED BY <2>2, <3>1, SentGrows DEF Rest
  <2>5. ~(c \in DataClients /\ status[c] = 0 /\ ~flagged[c])
    BY <1>1, <2>1
  <2>6. FileOf(c)'
    BY <1>1, <2>1, <2>3, <2>4, <2>5
  <2> HIDE DEF FileOf
  <2> QED BY <1>0, <1>2, <1>6, <2>6 DEF SendPiece, ClientSend, Move
<1>7. CASE SendToClosed(c)
  <2>1. Killed # 0 /\ Finish(c, Killed) /\ UNCHANGED <<wrote, up>>
    BY <1>7, StatusAssumption DEF SendToClosed, ClientClose
  <2> QED BY <1>3, <2>1
<1>8. CASE ReceiveAnswer(c)
  <2>1. /\ cpc[c] = "recv"
        /\ cpc'[c] = IF flagged[c] THEN "leaving" ELSE "ready"
        /\ UNCHANGED <<pos, flagged, status, wrote, up>>
    BY <1>0, <1>8 DEF ReceiveAnswer, ClientReceive, Move
  <2>2. FileOf(c)'
    BY <1>0, <1>1, <2>1
  <2> HIDE DEF FileOf
  <2> QED BY <1>2, <1>8, <2>1, <2>2 DEF ReceiveAnswer, Move
<1>9. CASE ReceiveFails(c)
  <2>1. Finish(c, FailureStatus(c)) /\ UNCHANGED <<wrote, up>>
    BY <1>9 DEF ReceiveFails, ClientClose
  <2> QED BY <1>3, <2>1 DEF FailureStatus
<1>10. CASE Leave(c)
  <2>1. Finish(c, 0) /\ UNCHANGED <<wrote, up>>
    BY <1>10 DEF Leave, ClientClose
  <2>2. c \in DataClients /\ ~flagged[c] =>
          up[c] = <<>> /\ log[c] = LinesSeen(Input[c])
    BY <1>1, <1>10, FileApplied DEF Leave
  <2> QED BY <1>3, <2>1, <2>2
<1>11. CASE SignalClient(c)
  <2>1. flagged'[c] = TRUE /\ UNCHANGED <<cpc, pos, status, wrote, up>>
    BY <1>0, <1>11 DEF SignalClient, socketVars
  <2>2. FileOf(c)'
    BY <1>0, <1>1, <2>1
  <2> HIDE DEF FileOf
  <2> QED BY <1>2, <1>11, <2>1, <2>2 DEF SignalClient
<1>12. CASE ReceiveInterrupted(c)
  <2>1. /\ flagged'[c] = TRUE /\ cpc'[c] = "done"
        /\ UNCHANGED <<pos, wrote, up>>
    BY <1>0, <1>12 DEF ReceiveInterrupted, ClientClose
  <2>2. FileOf(c)'
    BY <1>0, <1>1, <2>1
  <2> HIDE DEF FileOf
  <2> QED BY <1>2, <1>12, <2>1, <2>2 DEF ReceiveInterrupted
<1> HIDE DEF FileOf
<1> QED
  BY <1>4, <1>5, <1>6, <1>7, <1>8, <1>9, <1>10, <1>11, <1>12
     DEF ClientStep, ClientSignal

(* Every step keeps what is known of the files ...                         *)
LEMMA FileInvariant ==
  ASSUME ServerIInv, ClientTypeOK, TurnIInv, FileIInv, [Next]_systemVars
  PROVE  FileIInv'
<1>1. CASE ServerActs \/ StopServer
  BY <1>1, FileServer DEF ServerActs, StopServer
<1>2. ASSUME NEW c \in Clients, ClientActs(c) \/ StopClient(c)
      PROVE  FileIInv'
  BY <1>2, FileClient DEF ClientActs, StopClient
<1>3. CASE UNCHANGED systemVars
  BY <1>3 DEF systemVars, serverVars, socketVars, clientVars, FileIInv
<1> QED BY <1>1, <1>2, <1>3 DEF Next

(* ... from the first state on.                                            *)
LEMMA FileInitially == Init => FileIInv
<1> SUFFICES ASSUME Init, NEW c \in Clients
             PROVE  /\ pos[c] \in 0..Len(Input[c])
                    /\ wrote[c] = SubSeq(Input[c], 1, pos[c])
                    /\ cpc[c] # "leaving" /\ status[c] # 0
  BY DEF FileIInv
<1>1. pos[c] = 0 /\ wrote[c] = <<>> /\ cpc[c] = "start" /\ status[c] = Running
  BY DEF Init, InitSockets, InitClients
<1>2. SubSeq(Input[c], 1, 0) = <<>> /\ Len(Input[c]) \in Nat
  BY InputAssumption
<1> QED BY <1>1, <1>2, StatusAssumption

(* Where the server and a client stand with each other and how far its     *)
(* input got, in every reachable state.                                    *)
THEOREM SystemIInvHolds == Spec => []SystemIInv
<1>1. Init => TurnIInv /\ FileIInv
  BY TurnInitially, FileInitially
<1>2. ServerIInv /\ ServerIInv' /\ ClientTypeOK /\ TurnIInv /\ FileIInv
      /\ [Next]_systemVars => TurnIInv' /\ FileIInv'
  BY TurnInvariant, FileInvariant
<1>3. Spec => []ServerIInv /\ []ClientTypeOK
  BY SystemIsServed, ServerIInvHolds, ClientTypeOKHolds
<1>4. Spec => [](TurnIInv /\ FileIInv)
  BY <1>1, <1>2, <1>3, PTL DEF Spec
<1> QED BY <1>3, <1>4, PTL DEF SystemIInv

(* Requests and answers alternate on each connection (the loops of         *)
(* client/main.c and handle_client_data of server.c).                      *)
THEOREM OneAnswerEachHolds == Spec => []OneAnswerEach
<1>1. SystemIInv => OneAnswerEach
  <2> SUFFICES ASSUME SystemIInv
               PROVE  OneAnswerEach
    OBVIOUS
  <2>1. \A c \in Clients : TurnOf(c)
    BY DEF SystemIInv, TurnIInv
  <2>2. ASSUME NEW c \in Clients, cpc[c] \in {"ready", "leaving"}
        PROVE  down[c] = <<>> /\ up[c] = <<>>
    BY <2>1, <2>2 DEF TurnOf, Quiet, AllTaken
  <2>3. ASSUME spc = "send"
        PROVE  down[Client(i)] = <<>>
    <3>1. Client(i) \in Clients
      BY <2>3, SlotTypes
         DEF SystemIInv, ServerIInv, SlotIInv, ValueTypeOK, ScanInRange
    <3> QED BY <2>1, <2>3, <3>1 DEF TurnOf, Answering
  <2>4. ASSUME spc \in {"poll", "blocked"}, NEW k \in DOMAIN conns
        PROVE  ~HasNewline(Buffered(k))
    <3>1. Serving /\ k \in 1..Len(conns)
      BY <2>4 DEF Serving, ServerRuns, SystemIInv, ServerIInv, SlotIInv,
           TableTypeOK
    <3> QED BY <3>1 DEF SystemIInv, TurnIInv, SlotOf
  <2> QED BY <2>2, <2>3, <2>4 DEF OneAnswerEach
<1> QED BY <1>1, SystemIInvHolds, PTL

(* A client with --data that exits with status 0, and was not told to      *)
(* stop, has had every line of its file applied (run_test_loop of          *)
(* client/main.c).                                                         *)
THEOREM FilesAppliedHolds == Spec => []FilesApplied
<1>1. SystemIInv => FilesApplied
  BY DataClientsAssumption DEF SystemIInv, FileIInv, FilesApplied, InputLines
<1> QED BY <1>1, SystemIInvHolds, PTL

-----------------------------------------------------------------------------
(* The sums of the first numbers of a sequence, one after the other.       *)
Sums(f, last, s) ==
  s = [n \in 0..last |-> IF n = 0 THEN 0 ELSE s[n - 1] + f[n]]

LEMMA SumsExist ==
  ASSUME NEW f, NEW last \in Nat
  PROVE  \E s : Sums(f, last, s)
<1> DEFINE T == {n \in Nat : ~\E s : Sums(f, n, s)}
<1>1. SUFFICES ASSUME T # {} PROVE FALSE
  OBVIOUS
<1>2. PICK k \in T : \A j \in T : k <= j
  <2>1. T \in SUBSET Nat
    OBVIOUS
  <2> HIDE DEF T
  <2> QED BY <1>1, <2>1, LeastElement
<1>3. CASE k = 0
  <2> DEFINE s == [n \in 0..0 |-> 0]
  <2>1. Sums(f, 0, s)
    BY DEF Sums
  <2> QED BY <1>3, <2>1
<1>4. CASE k # 0
  <2>1. k \in Nat /\ k - 1 \in Nat /\ k - 1 \notin T
    BY <1>2, <1>4
  <2>2. PICK before : Sums(f, k - 1, before)
    BY <2>1
  <2> DEFINE s == [n \in 0..k |-> IF n = 0 THEN 0 ELSE before[n - 1] + f[n]]
  <2>3. ASSUME NEW n \in 0..k, n # 0
        PROVE  s[n - 1] = before[n - 1]
    <3>1. n - 1 \in 0..(k - 1) /\ n - 1 \in 0..k
      BY <2>1, <2>3
    <3>2. before[n - 1] = IF n - 1 = 0 THEN 0
                          ELSE before[n - 1 - 1] + f[n - 1]
      BY <2>2, <3>1 DEF Sums
    <3> QED BY <3>1, <3>2
  <2>4. Sums(f, k, s)
    BY <2>3 DEF Sums
  <2> QED BY <1>2, <2>4
<1> QED BY <1>3, <1>4

(* s grows by the numbers one after the other, from zero on.               *)
GrowsBy(f, last, s) ==
  s[0] = 0 /\ \A n \in 1..last : s[n] = s[n - 1] + f[n]

LEMMA GrowsByIsUnique ==
  ASSUME NEW f, NEW last \in Nat, NEW s, GrowsBy(f, last, s),
         NEW h, GrowsBy(f, last, h)
  PROVE  s[last] = h[last]
<1> DEFINE T == {n \in 0..last : s[n] # h[n]}
<1>1. SUFFICES ASSUME T # {} PROVE FALSE
  OBVIOUS
<1>2. PICK k \in T : \A j \in T : k <= j
  <2>1. T \in SUBSET Nat
    OBVIOUS
  <2> HIDE DEF T
  <2> QED BY <1>1, <2>1, LeastElement
<1>3. k # 0 /\ k \in 1..last
  BY <1>2 DEF GrowsBy
<1>4. k - 1 \in 0..last /\ k - 1 \notin T
  BY <1>2, <1>3
<1>5. s[k] = s[k - 1] + f[k] /\ h[k] = h[k - 1] + f[k]
  BY <1>3 DEF GrowsBy
<1> QED BY <1>2, <1>4, <1>5

(* The sum of a sequence of integers.                                      *)
LEMMA SumIs ==
  ASSUME NEW f \in Seq(Int)
  PROVE  /\ \E s \in [0..Len(f) -> Int] :
              GrowsBy(f, Len(f), s) /\ SumOf(f) = s[Len(f)]
         /\ \A h : GrowsBy(f, Len(f), h) => SumOf(f) = h[Len(f)]
<1> DEFINE s == CHOOSE t : t = [n \in 0..Len(f) |->
                   IF n = 0 THEN 0 ELSE t[n - 1] + f[n]]
<1>1. SumOf(f) = s[Len(f)]
  BY DEF SumOf
<1>2. Len(f) \in Nat /\ \A n \in 1..Len(f) : f[n] \in Int
  OBVIOUS
<1>3. s = [n \in 0..Len(f) |-> IF n = 0 THEN 0 ELSE s[n - 1] + f[n]]
  BY <1>2, SumsExist DEF Sums
<1> HIDE DEF s
<1>4. s[0] = 0 /\ \A n \in 1..Len(f) : s[n] = s[n - 1] + f[n]
  <2> DEFINE last == Len(f)
  <2>1. last \in Nat /\ 0 \in 0..last
        /\ \A n \in 1..last : n \in 0..last /\ n # 0
    BY <1>2
  <2> HIDE DEF last
  <2>2. \A n \in 0..last : s[n] = IF n = 0 THEN 0 ELSE s[n - 1] + f[n]
    BY <1>3 DEF last
  <2>3. s[0] = 0 /\ \A n \in 1..last : s[n] = s[n - 1] + f[n]
    BY <2>1, <2>2
  <2> QED BY <2>3 DEF last
<1>5. \A n \in 0..Len(f) : s[n] \in Int
  <2> DEFINE T == {n \in 0..Len(f) : s[n] \notin Int}
  <2>1. SUFFICES ASSUME T # {} PROVE FALSE
    OBVIOUS
  <2>2. PICK k \in T : \A j \in T : k <= j
    <3>1. T \in SUBSET Nat
      BY <1>2
    <3> HIDE DEF T
    <3> QED BY <2>1, <3>1, LeastElement
  <2>3. k # 0 /\ k \in 1..Len(f)
    BY <1>2, <1>4, <2>2
  <2>4. k - 1 \in 0..Len(f) /\ k - 1 \notin T
    BY <1>2, <2>2, <2>3
  <2> QED BY <1>2, <1>4, <2>2, <2>3, <2>4
<1>6. s \in [0..Len(f) -> Int]
  BY <1>3, <1>5
<1>7. GrowsBy(f, Len(f), s)
  BY <1>4 DEF GrowsBy
<1> QED BY <1>1, <1>2, <1>6, <1>7, GrowsByIsUnique

LEMMA SumType == ASSUME NEW f \in Seq(Int) PROVE SumOf(f) \in Int
<1>1. Len(f) \in Nat
  OBVIOUS
<1> QED BY <1>1, SumIs

(* A number at the end is added to the sum ...                             *)
LEMMA SumOfAppend ==
  ASSUME NEW f \in Seq(Int), NEW d \in Int
  PROVE  SumOf(Append(f, d)) = SumOf(f) + d
<1> DEFINE g == Append(f, d)
           n == Len(f)
<1>1. /\ g \in Seq(Int) /\ Len(g) = n + 1 /\ g[n + 1] = d /\ n \in Nat
      /\ \A k \in 1..n : g[k] = f[k]
  OBVIOUS
<1> HIDE DEF g
<1>2. PICK t : GrowsBy(g, n + 1, t) /\ SumOf(g) = t[n + 1]
  BY <1>1, SumIs
<1>3. GrowsBy(f, n, t)
  <2>1. \A k \in 1..n : k \in 1..n + 1
    BY <1>1
  <2> HIDE DEF n
  <2> QED BY <1>1, <1>2, <2>1 DEF GrowsBy
<1>4. SumOf(f) = t[n]
  BY <1>3, SumIs
<1>5. t[n + 1] = t[n] + d
  <2> DEFINE m == n + 1
  <2>1. m \in 1..n + 1 /\ m - 1 = n
    BY <1>1
  <2>2. g[m] = d
    BY <1>1
  <2> HIDE DEF m, n
  <2>3. t[m] = t[m - 1] + g[m]
    BY <1>2, <2>1 DEF GrowsBy
  <2> QED BY <2>1, <2>2, <2>3 DEF m
<1> QED BY <1>1, <1>2, <1>4, <1>5 DEF g

(* ... what one number grows by, the sum grows by, ...                     *)
LEMMA SumOfChange ==
  ASSUME NEW f \in Seq(Int), NEW g \in Seq(Int), Len(g) = Len(f),
         NEW j \in 1..Len(f), NEW d \in Int, g[j] = f[j] + d,
         \A k \in 1..Len(f) : k # j => g[k] = f[k]
  PROVE  SumOf(g) = SumOf(f) + d
<1> DEFINE n == Len(f)
<1>1. n \in Nat /\ j \in 1..n /\ \A k \in 1..n : f[k] \in Int /\ g[k] \in Int
  OBVIOUS
<1>2. PICK s \in [0..n -> Int] : GrowsBy(f, n, s) /\ SumOf(f) = s[n]
  BY SumIs
<1> DEFINE h == [k \in 0..n |-> s[k] + (IF k >= j THEN d ELSE 0)]
<1>3. GrowsBy(g, n, h)
  <2>1. /\ s[0] = 0 /\ \A k \in 1..n : s[k] = s[k - 1] + f[k]
        /\ \A k \in 1..n : k # j => g[k] = f[k]
    BY <1>2 DEF GrowsBy
  <2> HIDE DEF n
  <2>2. h[0] = 0
    BY <1>1, <2>1
  <2>3. ASSUME NEW k \in 1..n
        PROVE  h[k] = h[k - 1] + g[k]
    <3> DEFINE x == s[k]
               y == s[k - 1]
               a == f[k]
    <3>1. /\ k \in 0..n /\ k - 1 \in 0..n /\ k \in Int /\ j \in Int
          /\ a \in Int
      BY <1>1, <2>3
    <3>2. x \in Int /\ y \in Int /\ x = y + a
      BY <1>2, <2>1, <2>3, <3>1
    <3>3. /\ h[k] = x + (IF k >= j THEN d ELSE 0)
          /\ h[k - 1] = y + (IF k - 1 >= j THEN d ELSE 0)
      BY <3>1
    <3>4. g[k] = IF k = j THEN a + d ELSE a
      BY <2>1
    <3> HIDE DEF h, x, y, a
    <3>5. CASE k = j
      <4>1. k >= j /\ ~(k - 1 >= j)
        BY <3>1, <3>5
      <4>2. h[k] = x + d /\ h[k - 1] = y /\ g[k] = a + d
        BY <3>1, <3>2, <3>3, <3>4, <3>5, <4>1
      <4>3. x + d = y + (a + d)
        BY <3>1, <3>2
      <4> QED BY <4>2, <4>3
    <3>6. CASE k # j /\ k >= j
      <4>1. k - 1 >= j
        BY <3>1, <3>6
      <4>2. h[k] = x + d /\ h[k - 1] = y + d /\ g[k] = a
        BY <3>1, <3>2, <3>3, <3>4, <3>6, <4>1
      <4>3. x + d = (y + d) + a
        BY <3>1, <3>2
      <4> QED BY <4>2, <4>3
    <3>7. CASE ~(k >= j)
      <4>1. ~(k - 1 >= j) /\ k # j
        BY <3>1, <3>7
      <4>2. h[k] = x /\ h[k - 1] = y /\ g[k] = a
        BY <3>1, <3>2, <3>3, <3>4, <3>7, <4>1
      <4> QED BY <3>2, <4>2
    <3> QED BY <3>5, <3>6, <3>7
  <2> HIDE DEF h
  <2> QED BY <2>2, <2>3 DEF GrowsBy
<1>4. h[n] = s[n] + d
  <2> HIDE DEF n
  <2> QED BY <1>1, <1>2
<1> HIDE DEF h
<1>5. SumOf(g) = h[n]
  BY <1>3, SumIs
<1> QED BY <1>2, <1>4, <1>5

(* ... and zeros add up to zero.                                           *)
LEMMA SumOfZeros ==
  ASSUME NEW f \in Seq(Int), \A k \in 1..Len(f) : f[k] = 0
  PROVE  SumOf(f) = 0
<1> DEFINE h == [k \in 0..Len(f) |-> 0]
<1>1. Len(f) \in Nat /\ \A k \in 1..Len(f) : k - 1 \in 0..Len(f)
  OBVIOUS
<1>2. h[Len(f)] = 0 /\ GrowsBy(f, Len(f), h)
  BY <1>1 DEF GrowsBy
<1> HIDE DEF h
<1> QED BY <1>2, SumIs

(* Whole multiples of the modulus do not change a remainder.               *)
LEMMA RemainderIs ==
  ASSUME NEW b \in Nat \ {0}, NEW q \in Int, NEW r \in 0..b - 1
  PROVE  (q * b + r) % b = r
<1> DEFINE n == q * b + r
           p == n \div b
           u == n % b
<1>1. n \in Int /\ q * b \in Int
  OBVIOUS
<1>2. p \in Int /\ u \in 0..b - 1 /\ n = p * b + u
  <2> HIDE DEF n
  <2> QED BY <1>1
<1> HIDE DEF p, u
<1>3. ASSUME NEW x \in Int, NEW y \in Int, x < y
      PROVE  x * b + b <= y * b
  <2>1. PICK z \in Nat : y = x + 1 + z
    BY <1>3
  <2>2. z * b >= 0 /\ y * b = x * b + b + z * b /\ x * b \in Int
    BY <2>1
  <2> QED BY <2>2
<1>4. q = p
  <2>1. q * b \in Int /\ p * b \in Int /\ q * b + r = p * b + u
    BY <1>1, <1>2
  <2>2. ~(q < p) /\ ~(p < q)
    BY <1>2, <1>3, <2>1
  <2> QED BY <1>2, <2>2
<1>5. u = r
  BY <1>1, <1>2, <1>4
<1> QED BY <1>5 DEF u

(* The bits that a cast to int cuts off do not come back by an addition.   *)
LEMMA ToIntAdds ==
  ASSUME NEW n \in Int, NEW d \in Int
  PROVE  ToInt(ToInt(n) + d) = ToInt(n + d)
<1> DEFINE b == 2 * (IntMax + 1)
           a == n + IntMax + 1
           q == a \div b
           r == a % b
           x == r + d
           p == x \div b
           u == x % b
<1>1. b \in Nat \ {0} /\ a \in Int /\ IntMax \in Int
  BY IntMaxAssumption
<1> HIDE DEF b, a
<1>2. q \in Int /\ r \in 0..b - 1 /\ a = q * b + r
  BY <1>1
<1> HIDE DEF q, r
<1>3. x \in Int
  BY <1>1, <1>2
<1> HIDE DEF x
<1>4. p \in Int /\ u \in 0..b - 1 /\ x = p * b + u
  BY <1>1, <1>3
<1> HIDE DEF p, u
<1>5. u = x % b
  BY DEF u
<1>6. (a + d) % b = u
  <2>1. q + p \in Int
    BY <1>2, <1>4
  <2>2. ((q + p) * b + u) % b = u
    BY <1>1, <1>4, <2>1, RemainderIs
  <2>3. (q + p) * b = q * b + p * b /\ q * b \in Int /\ p * b \in Int
    BY <1>1, <1>2, <1>4
  <2>4. a + d = (q + p) * b + u
    BY <1>1, <1>2, <1>4, <2>3 DEF x
  <2> QED BY <2>2, <2>4
<1>7. ToInt(n) = r - (IntMax + 1)
  BY DEF ToInt, r, a, b
<1>8. ToInt(ToInt(n) + d) = u - (IntMax + 1)
  <2>1. r - (IntMax + 1) + d + IntMax + 1 = x
    BY <1>1, <1>2 DEF x
  <2> QED BY <1>5, <1>7, <2>1 DEF ToInt, b
<1>9. ToInt(n + d) = u - (IntMax + 1)
  <2>1. n + d + IntMax + 1 = a + d
    BY <1>1 DEF a
  <2> QED BY <1>6, <2>1 DEF ToInt, b
<1> QED BY <1>8, <1>9

-----------------------------------------------------------------------------
(* The clients in a sequence, each of them once.                           *)
LEMMA OrderIs ==
  ASSUME IsFiniteSet(Clients)
  PROVE  /\ Cardinality(Clients) \in Nat
         /\ \A n \in 1..Cardinality(Clients) : Order[n] \in Clients
         /\ \A c \in Clients : \E j \in 1..Cardinality(Clients) :
              /\ Order[j] = c
              /\ \A n \in 1..Cardinality(Clients) : n # j => Order[n] # c
<1> DEFINE size == Cardinality(Clients)
<1>1. size \in Nat /\ ExistsBijection(1..size, Clients)
  BY FS_CardinalityType
<1>2. \E f \in [1..size -> Clients] : IsInjective(f)
  BY <1>1 DEF ExistsBijection, Bijection, Injection
<1>3. Order \in [1..size -> Clients] /\ IsInjective(Order)
  BY <1>2 DEF Order, SetToSeq
<1>4. Order \in Surjection(1..size, Clients)
  <2>1. Order \in Injection(1..size, Clients)
    BY <1>3 DEF Injection
  <2>2. IsFiniteSet(1..size) /\ Cardinality(1..size) = size
    BY <1>1, FS_Interval
  <2> QED BY <2>1, <2>2, FS_Injection
<1>5. \A c \in Clients : \E j \in 1..size : Order[j] = c
  BY <1>4 DEF Surjection
<1>6. \A j, n \in 1..size : Order[j] = Order[n] => j = n
  BY <1>3 DEF IsInjective
<1> HIDE DEF size
<1> QED BY <1>1, <1>3, <1>5, <1>6 DEF size

(* What the lines of one client add, as numbers.                           *)
NumbersIn(lines) == [n \in DOMAIN lines |-> AddedFor(lines[n])]

LEMMA NumbersAre ==
  ASSUME NEW lines \in Seq(Seq(Bytes))
  PROVE  /\ NumbersIn(lines) \in Seq(Int)
         /\ Len(NumbersIn(lines)) = Len(lines)
         /\ AddedByAll(lines) = SumOf(NumbersIn(lines))
         /\ AddedByAll(lines) \in Int
<1>1. \A line : AddedFor(line) \in Int
  BY IntResults, IntMaxAssumption DEF Ints
<1>2. DOMAIN lines = 1..Len(lines) /\ Len(lines) \in Nat
  OBVIOUS
<1>3. NumbersIn(lines) \in Seq(Int) /\ Len(NumbersIn(lines)) = Len(lines)
  BY <1>1, <1>2 DEF NumbersIn
<1>4. AddedByAll(lines) = SumOf(NumbersIn(lines))
  BY DEF AddedByAll, NumbersIn
<1> QED BY <1>3, <1>4, SumType

LEMMA NumbersOfAppend ==
  ASSUME NEW lines \in Seq(Seq(Bytes)), NEW line \in Seq(Bytes)
  PROVE  AddedByAll(Append(lines, line)) = AddedByAll(lines) + AddedFor(line)
<1> DEFINE more == Append(lines, line)
<1>1. /\ more \in Seq(Seq(Bytes)) /\ Len(more) = Len(lines) + 1
      /\ more[Len(lines) + 1] = line /\ Len(lines) \in Nat
      /\ \A n \in 1..Len(lines) : more[n] = lines[n]
  OBVIOUS
<1>2. AddedFor(line) \in Int
  BY IntResults, IntMaxAssumption DEF Ints
<1> HIDE DEF more
<1>3. /\ NumbersIn(lines) \in Seq(Int) /\ Len(NumbersIn(lines)) = Len(lines)
      /\ NumbersIn(more) \in Seq(Int) /\ Len(NumbersIn(more)) = Len(more)
  BY <1>1, NumbersAre
<1>4. NumbersIn(more) = Append(NumbersIn(lines), AddedFor(line))
  <2> DEFINE one == Append(NumbersIn(lines), AddedFor(line))
  <2>1. /\ one \in Seq(Int) /\ Len(one) = Len(lines) + 1
        /\ one[Len(lines) + 1] = AddedFor(line)
        /\ \A n \in 1..Len(lines) : one[n] = NumbersIn(lines)[n]
    BY <1>2, <1>3
  <2> HIDE DEF one
  <2>2. \A n \in 1..Len(more) : NumbersIn(more)[n] = AddedFor(more[n])
    BY <1>1 DEF NumbersIn
  <2>3. \A n \in 1..Len(lines) : NumbersIn(lines)[n] = AddedFor(lines[n])
    BY DEF NumbersIn
  <2>4. ASSUME NEW n \in 1..Len(more)
        PROVE  NumbersIn(more)[n] = one[n]
    <3>1. n \in 1..Len(lines) \/ n = Len(lines) + 1
      BY <1>1
    <3> QED BY <1>1, <2>1, <2>2, <2>3, <3>1
  <2> QED BY <1>1, <1>3, <2>1, <2>4, SeqEqual DEF one
<1>5. /\ AddedByAll(lines) = SumOf(NumbersIn(lines))
      /\ AddedByAll(more) = SumOf(NumbersIn(more))
  BY <1>1, NumbersAre
<1> QED BY <1>2, <1>3, <1>4, <1>5, SumOfAppend DEF more

(* What each client adds, in their order.                                  *)
PerClient(lines) ==
  [n \in 1..Cardinality(Clients) |-> AddedByAll(lines[Order[n]])]

LEMMA PerClientIs ==
  ASSUME IsFiniteSet(Clients), NEW lines \in [Clients -> Seq(Seq(Bytes))]
  PROVE  /\ PerClient(lines) \in Seq(Int)
         /\ Len(PerClient(lines)) = Cardinality(Clients)
         /\ SumOverClients(lines) = ToInt(SumOf(PerClient(lines)))
<1>1. Cardinality(Clients) \in Nat
  BY OrderIs
<1>2. \A n \in 1..Cardinality(Clients) : AddedByAll(lines[Order[n]]) \in Int
  BY OrderIs, NumbersAre
<1> QED BY <1>1, <1>2 DEF PerClient, SumOverClients

(* One more line of one client.                                            *)
LEMMA OneLineMore ==
  ASSUME IsFiniteSet(Clients), NEW lines \in [Clients -> Seq(Seq(Bytes))],
         NEW more \in [Clients -> Seq(Seq(Bytes))], NEW c \in Clients,
         NEW line \in Seq(Bytes), more[c] = Append(lines[c], line),
         \A d \in Clients : d # c => more[d] = lines[d]
  PROVE  SumOverClients(more) = Added(SumOverClients(lines), line)
<1> DEFINE f == PerClient(lines)
           g == PerClient(more)
           size == Cardinality(Clients)
<1>1. /\ f \in Seq(Int) /\ Len(f) = size
      /\ g \in Seq(Int) /\ Len(g) = size
      /\ SumOverClients(lines) = ToInt(SumOf(f))
      /\ SumOverClients(more) = ToInt(SumOf(g))
  BY PerClientIs
<1>2. AddedFor(line) \in Int
  BY IntResults, IntMaxAssumption DEF Ints
<1>3. /\ \A n \in 1..size : Order[n] \in Clients
      /\ \E j \in 1..size :
           Order[j] = c /\ \A n \in 1..size : n # j => Order[n] # c
  BY OrderIs
<1>4. PICK j \in 1..size :
        Order[j] = c /\ \A n \in 1..size : n # j => Order[n] # c
  BY <1>3
<1>5. /\ \A n \in 1..size : f[n] = AddedByAll(lines[Order[n]])
      /\ \A n \in 1..size : g[n] = AddedByAll(more[Order[n]])
  BY DEF PerClient
<1> HIDE DEF f, g, size
<1>6. g[j] = f[j] + AddedFor(line)
  <2>1. lines[c] \in Seq(Seq(Bytes))
    OBVIOUS
  <2>2. AddedByAll(more[c]) = AddedByAll(lines[c]) + AddedFor(line)
    BY <2>1, NumbersOfAppend
  <2> QED BY <1>4, <1>5, <2>2
<1>7. \A n \in 1..size : n # j => g[n] = f[n]
  BY <1>3, <1>4, <1>5
<1>8. SumOf(g) = SumOf(f) + AddedFor(line) /\ SumOf(f) \in Int
  <2>1. /\ Len(g) = Len(f) /\ j \in 1..Len(f)
        /\ \A n \in 1..Len(f) : n # j => g[n] = f[n]
    BY <1>1, <1>4, <1>7
  <2>2. SumOf(g) = SumOf(f) + AddedFor(line)
    BY <1>1, <1>2, <1>6, <2>1, SumOfChange
  <2> QED BY <1>1, <2>2, SumType
<1> QED BY <1>1, <1>2, <1>8, ToIntAdds DEF Added

(* The total of the server is the sum of what is applied, from the first   *)
(* state on.                                                               *)
TotalIsSum == state = SumOverClients(log)

LEMMA SumInitially == IsFiniteSet(Clients) /\ Init => TotalIsSum
<1> SUFFICES ASSUME IsFiniteSet(Clients), Init
             PROVE  TotalIsSum
  OBVIOUS
<1>1. state = 0 /\ log \in [Clients -> Seq(Seq(Bytes))]
      /\ \A c \in Clients : log[c] = <<>>
  BY DEF Init, InitServer
<1> DEFINE f == PerClient(log)
<1>2. /\ f \in Seq(Int) /\ Len(f) = Cardinality(Clients)
      /\ SumOverClients(log) = ToInt(SumOf(f))
  BY <1>1, PerClientIs
<1>3. AddedByAll(<<>>) = 0
  <2>1. <<>> \in Seq(Seq(Bytes)) /\ Len(<<>>) = 0
    OBVIOUS
  <2>2. /\ NumbersIn(<<>>) \in Seq(Int) /\ Len(NumbersIn(<<>>)) = 0
        /\ AddedByAll(<<>>) = SumOf(NumbersIn(<<>>))
    BY <2>1, NumbersAre
  <2>3. \A n \in 1..Len(NumbersIn(<<>>)) : NumbersIn(<<>>)[n] = 0
    BY <2>2
  <2> QED BY <2>2, <2>3, SumOfZeros
<1>4. \A n \in 1..Len(f) : f[n] = 0
  <2>1. \A n \in 1..Cardinality(Clients) : log[Order[n]] = <<>>
    BY <1>1, OrderIs
  <2> QED BY <1>2, <1>3, <2>1 DEF PerClient
<1> HIDE DEF f
<1>5. SumOf(f) = 0
  BY <1>2, <1>4, SumOfZeros
<1>6. ToInt(0) = 0
  <2> DEFINE b == 2 * (IntMax + 1)
  <2>1. b \in Nat \ {0} /\ 0 + IntMax + 1 \in 0..b - 1 /\ 0 \in Int
        /\ IntMax \in Int
    BY IntMaxAssumption
  <2>2. (0 + IntMax + 1) % b = 0 + IntMax + 1
    <3> HIDE DEF b
    <3>1. (0 * b + (0 + IntMax + 1)) % b = 0 + IntMax + 1
      BY <2>1, RemainderIs
    <3> QED BY <2>1, <3>1
  <2> QED BY <2>1, <2>2 DEF ToInt
<1> QED BY <1>1, <1>2, <1>5, <1>6 DEF TotalIsSum

(* handle_client_data adds the line that it logs; nothing else changes the *)
(* total or what is applied.                                               *)
LEMMA SumStep ==
  ASSUME IsFiniteSet(Clients), ServerIInv, ServerIInv', TotalIsSum,
         [ServerNext]_netVars
  PROVE  TotalIsSum'
<1>0. /\ TableTypeOK /\ ValueTypeOK /\ TableTypeOK' /\ ValueTypeOK'
      /\ log \in [Clients -> Seq(Seq(Bytes))]
      /\ log' \in [Clients -> Seq(Seq(Bytes))]
  BY DEF ServerIInv, SlotIInv, ValueTypeOK
<1>1. CASE ReadLine
  <2>1. /\ InTurn /\ Client(i) \in Clients
        /\ log' = [log EXCEPT ![Client(i)] = Append(@, FirstLine)]
        /\ state' = Added(state, FirstLine)
    BY <1>0, <1>1, TurnOfSlot DEF ReadLine, NewTotal
  <2>2. PICK c \in Clients : c = Client(i)
    BY <2>1
  <2>3. /\ log'[c] = Append(log[c], FirstLine)
        /\ \A d \in Clients : d # c => log'[d] = log[d]
    BY <1>0, <2>1, <2>2
  <2>4. FirstLine \in Seq(Bytes)
    <3>1. log[c] \in Seq(Seq(Bytes)) /\ log'[c] \in Seq(Seq(Bytes))
      BY <1>0
    <3>2. /\ Len(log'[c]) = Len(log[c]) + 1
          /\ log'[c][Len(log[c]) + 1] = FirstLine /\ Len(log[c]) \in Nat
      BY <2>3, <3>1, AppendProperties
    <3> QED BY <3>1, <3>2
  <2>5. SumOverClients(log') = Added(SumOverClients(log), FirstLine)
    <3> DEFINE line == FirstLine
    <3> HIDE DEF line
    <3> QED BY <1>0, <2>3, <2>4, OneLineMore
  <2> QED BY <2>1, <2>5 DEF TotalIsSum
<1>2. CASE ~ReadLine
  <2>1. UNCHANGED <<log, state>>
    BY <1>2 DEF ServerNext, ServerStep, HandleClient, SetupSigactions,
         SetupSocket, StartUpFails, TestFlag, PollBlocks, PollReturns,
         SkipSlot, EndScan, AcceptConnection, RejectConnection, AcceptFails,
         ReadEnd, ReadPart, ReadOverflow, SendAnswer, SendRaisesSigpipe,
         CloseConnections, CloseListener, Terminate, ClientMoves, netVars,
         serverVars
  <2> QED BY <2>1 DEF TotalIsSum
<1> QED BY <1>1, <1>2

(* The answer of the server is the sum of what was applied (lines 172 to   *)
(* 193 of server.c), whoever the clients are.                              *)
THEOREM TotalIsSumHolds ==
  ASSUME IsFiniteSet(Clients)
  PROVE  Spec => []TotalIsSum
<1>1. Init => TotalIsSum
  BY SumInitially
<1>2. ServerIInv /\ ServerIInv' /\ TotalIsSum /\ [ServerNext]_netVars
        => TotalIsSum'
  BY SumStep
<1>3. ClientTypeOK /\ [Next]_systemVars => [ServerNext]_netVars
  BY StepOfServer
<1>4. Spec => []ServerIInv /\ []ClientTypeOK
  BY SystemIsServed, ServerIInvHolds, ClientTypeOKHolds
<1> QED BY <1>1, <1>2, <1>3, <1>4, PTL DEF Spec

(* A client with --data that exits with status 0, and was not told to      *)
(* stop, has had every line of its file applied (run_test_loop of          *)
(* client/main.c); when all did, the total is the sum of all files, in     *)
(* whatever order the server read them (runme.sh lines 54 and 143).        *)
THEOREM StatusZeroMeansAppliedHolds ==
  ASSUME IsFiniteSet(Clients)
  PROVE  Spec => []StatusZeroMeansApplied
<1>1. FilesApplied /\ SystemTypeOK /\ TotalIsSum => StatusZeroMeansApplied
  <2> SUFFICES ASSUME FilesApplied, SystemTypeOK, TotalIsSum,
                      \A c \in Clients : c \in DataClients /\ status[c] = 0
                                           /\ ~flagged[c]
               PROVE  state = SumOfInputs
    BY DEF StatusZeroMeansApplied
  <2>1. \A c \in Clients : log[c] = InputLines[c]
    BY DEF FilesApplied
  <2>2. log = InputLines
    BY <2>1 DEF SystemTypeOK, ServerTypeOK, InputLines
  <2> QED BY <2>2 DEF TotalIsSum, SumOfInputs
<1> QED BY <1>1, FilesAppliedHolds, SystemTypeOKHolds, TotalIsSumHolds, PTL
=============================================================================
