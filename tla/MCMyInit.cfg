CONSTANTS
  p1 = p1
  p2 = p2
  Pids = {p1, p2}
  NoPid = NoPid
  Files <- MCFiles
  Disk <- MCDisk
  MaxArgs = 1
  MaxExec = 2
  Absolute <- MCAbsolute
  MaxFailures = 2
SPECIFICATION FairSpec
INVARIANT TypeOK
INVARIANT EveryChildIsTracked
INVARIANT TableIsRight
INVARIANT LeavesNoChild
INVARIANT FreedOnlyAfterReload
CHECK_DEADLOCK FALSE
PROPERTY EditsTakeEffect
PROPERTY ShutdownEnds
PROPERTY DeadAreReaped
