---------------------------- MODULE ClientServer ----------------------------
(***************************************************************************)
(* The t4 system as t4/runme.sh runs it: one server and its own clients.   *)
(***************************************************************************)
EXTENDS Server, Client

CONSTANT Prompt    \* the clients whose input is always at hand

ASSUME PromptAssumption == Prompt \subseteq Clients

systemVars == <<serverVars, socketVars, clientVars>>

Init == InitServer /\ InitSockets /\ InitClients

ServerActs == ServerStep /\ UNCHANGED clientVars
ClientActs(c) == ClientStep(c) /\ UNCHANGED serverVars
StopServer == Terminate /\ UNCHANGED clientVars
StopClient(c) == ClientSignal(c) /\ UNCHANGED serverVars

Next ==
  \/ ServerActs
  \/ \E c \in Clients : ClientActs(c) \/ StopClient(c)
  \/ StopServer

Spec == Init /\ [][Next]_systemVars

(* The scheduler runs the server and the clients.  A client that waits for *)
(* somebody to type, or for an answer, owes no step.  accept() may fail,   *)
(* but not for ever: descriptors become free again.                        *)
Accepts == AcceptConnection \/ RejectConnection
WaitsForInput(c) == c \notin Prompt /\ cpc[c] = "ready"
Fairness ==
  /\ WF_systemVars(ServerActs)
  /\ SF_systemVars(Accepts /\ UNCHANGED clientVars)
  /\ \A c \in Clients : WF_systemVars(ClientActs(c) /\ ~WaitsForInput(c))
FairSpec == Spec /\ Fairness

-----------------------------------------------------------------------------
SystemTypeOK == ServerTypeOK /\ ClientTypeOK

(* What lines of all clients add up to, as an int and in any order; and    *)
(* the lines of the inputs.                                                *)
Order == SetToSeq(Clients)
SumOverClients(lines) ==
  ToInt(SumOf([n \in 1..Cardinality(Clients) |-> AddedByAll(lines[Order[n]])]))
InputLines == [c \in Clients |-> LinesSeen(Input[c])]
SumOfInputs == SumOverClients(InputLines)

(* A client with --data that exits with status 0 and was not told to stop  *)
(* has had every complete line of its file applied ...                     *)
FilesApplied ==
  \A c \in DataClients :
    status[c] = 0 /\ ~flagged[c] => log[c] = InputLines[c]

(* ... and when all clients did, the server answers the sum of all files,  *)
(* the zero that runme.sh lines 54 and 143 compare with.                   *)
StatusZeroMeansApplied ==
  /\ FilesApplied
  /\ (\A c \in Clients : c \in DataClients /\ status[c] = 0 /\ ~flagged[c]) =>
       state = SumOfInputs

(* Requests and answers alternate on each connection: a client that is not *)
(* waiting for an answer has nothing under way in either direction, no     *)
(* request is answered twice, the server never blocks in send(), since the *)
(* client has taken every answer before, and it never goes to sleep over a *)
(* complete line that it has read and not answered.                        *)
OneAnswerEach ==
  /\ \A c \in Clients :
       cpc[c] \in {"ready", "leaving"} => down[c] = <<>> /\ up[c] = <<>>
  /\ spc = "send" => down[Client(i)] = <<>>
  /\ spc \in {"poll", "blocked"} =>
       \A k \in DOMAIN conns : ~HasNewline(Buffered(k))

Sent(c) == Take(Input[c], pos[c])
WaitsWithPartialLine(c) ==
  cpc[c] = "recv" /\ Sent(c)[pos[c]] # NL

(* Every client that waits for an answer gets it or learns that the server *)
(* is gone, except one that sent a piece without a newline: the server     *)
(* waits for the rest of the line and the client for the answer.           *)
EveryRequestAnswered ==
  \A c \in Clients :
    cpc[c] = "recv" ~> cpc[c] # "recv" \/ WaitsWithPartialLine(c)

(* With clients that type, there is one more way to wait for ever: the     *)
(* server sleeps in the read() of another client (NeverBlocksInRead below  *)
(* says how it gets there).                                                *)
AnsweredUnlessServerSleeps ==
  \A c \in Clients :
    cpc[c] = "recv" ~>
      \/ cpc[c] # "recv" \/ WaitsWithPartialLine(c)
      \/ InTurn /\ ~Readable(Client(i))

(* Once told to stop, the server stops, or sleeps in poll() or read()      *)
(* until some client moves: nothing else can hold it up.                   *)
AsleepInSystemCall ==
  (spc = "blocked" /\ ~AnyReady) \/ (InTurn /\ ~Readable(Client(i)))
StopsOrSleeps == shutdown ~> ~ServerRuns \/ AsleepInSystemCall

(* README.md line 69: the server works asynchronously.  It never blocks in *)
(* the read() of one client while others may need it.                      *)
NeverBlocksInRead == InTurn => Readable(Client(i))

(* server.c lines 188 and 189: an answer that cannot be sent is logged and *)
(* the server goes on; no client can end it.                               *)
ServerSurvivesClients == spc # "killed"
=============================================================================
