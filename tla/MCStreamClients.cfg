SPECIFICATION Spec
CONSTANTS
  c1 = c1
  c2 = c2
  Clients = {c1, c2}
  Stream <- TwoStreams
  AnswerRoom = 1
  MaxClients = 1
  BufferSize = 5
  IntMax = 15
  LongMax = 9999
CHECK_DEADLOCK FALSE
INVARIANTS
  LogsTheStream
PROPERTIES
  HangsUpOnlyAtEnd
  ImplementsAccumulator
