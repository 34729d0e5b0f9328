SPECIFICATION FairSpec
CONSTANTS
  Procs = {p1, p2, p3}
  None = None
  Running = Running
  Killed = Killed
  Faults <- AllFaults
  Cleaner = "orphans"
CHECK_DEADLOCK FALSE
INVARIANTS
  CleanExit
PROPERTIES
  ShutdownCompletes
  FreeLockIsTaken
