CONSTANTS
  MaxLen = 8
  FileLength = 7
  Buffers = {0, 1, 2, 3, 4, 9}
  FsBlock = 2
SPECIFICATION TestSpec
INVARIANT CopyInvariant
INVARIANT AlwaysAPrefix
INVARIANT StatusZeroIsCopy
INVARIANT BlocksAsDocumented
INVARIANT SpansAsCommented
PROPERTY CopyEnds
CHECK_DEADLOCK FALSE
