SPECIFICATION FairSpec
CONSTANTS
  c1 = c1
  c2 = c2
  c3 = c3
  Clients = {c1, c2}
  Input <- Typed
  DataClients = {}
  Signalled = {c2}
  Prompt = {}
  AnswerRoom = 1
  MaxClients = 1
  BufferSize = 5
  SendSize = 5
  IntMax = 15
  LongMax = 9999
  Running = Running
  Killed = Killed
CHECK_DEADLOCK FALSE
PROPERTIES
  AnsweredUnlessServerSleeps
  StopsOrSleeps
