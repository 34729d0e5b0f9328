CONSTANTS
  ConfigFiles <- MCConfigFiles
  Disks <- MCDisks
  MaxFd = 3
  MaxArgs = 1
  MaxExec = 1
  Absolute <- MCAbsolute
SPECIFICATION Spec
INVARIANT EntriesAreLines
INVARIANT StdioAsConfigured
INVARIANT MessagesStayOutOfData
PROPERTY ValidatedFilesOpen
PROPERTY RecoversWithDisk
