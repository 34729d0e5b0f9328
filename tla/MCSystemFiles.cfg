SPECIFICATION FairSpec
CONSTANTS
  c1 = c1
  c2 = c2
  c3 = c3
  Clients = {c1, c2, c3}
  Input <- Files
  DataClients = {c1, c2, c3}
  Signalled = {}
  Prompt = {c1, c2, c3}
  AnswerRoom = 1
  MaxClients = 2
  BufferSize = 5
  SendSize = 5
  IntMax = 15
  LongMax = 9999
  Running = Running
  Killed = Killed
CHECK_DEADLOCK FALSE
INVARIANTS
  SystemTypeOK
  SlotsAreOpenConnections
  StatusZeroMeansApplied
  OneAnswerEach
PROPERTIES
  EveryRequestAnswered
