SPECIFICATION SpecLock
CONSTANTS
  Procs = {p1, p2, p3, p4}
  None = None
  Faults <- AllFaults
  Cleaner = "orphans"
SYMMETRY Symmetry
CHECK_DEADLOCK FALSE
INVARIANTS
  IInv
  MutualExclusion
  NoLostWakeup
PROPERTIES
  UnlinksOwnFile
  ImplementsMutex
