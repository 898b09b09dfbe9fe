CONSTANTS
  MaxWriteOps = 2
  NULL = NULL
  Free = Free
  NL = NL
  Zero = Zero
  x = x
  Procs = {a, b}
  Ptrs = {q1, q2, q3}
  Bytes <- MCBytes
  Chunks <- MCChunks
  Counts = {}
  IoctlCmds = {"AESDCHAR_IOCSEEKTO"}
  SeekCmds = {0}
  SeekOffsets = {0}
  LseekOffsets = {0}
  MaxEntryLen = 1
  AllocMayFail = FALSE
  CopyMayFault = FALSE
SPECIFICATION FairSpec
PROPERTIES EveryCallReturns CountMissesOnlyAtFilling
