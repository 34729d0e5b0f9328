SPECIFICATION Spec
CONSTANTS
  Procs = {p1, p2, p3}
  None = None
  Running = Running
  Killed = Killed
  Faults <- MainFaults
  FileFaults <- AllFileFaults
  Cleaner = "orphans"
  MaxClock = 2
SYMMETRY Symmetry
CHECK_DEADLOCK FALSE
INVARIANTS
  MainTypeOK
  JournalInTimeOrder
  StatusZeroIsReceipt
