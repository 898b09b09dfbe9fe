CONSTANTS
  MaxWriteOps = 2
  NULL = NULL
  Free = Free
  NL = NL
  Zero = Zero
  x = x
  Procs = {a}
  Ptrs = {q1, q2, q3, q4}
  Bytes <- MCBytes
  Chunks <- MCChunks
  Counts = {0, 1, 2}
  IoctlCmds = {"AESDCHAR_IOCSEEKTO", "other"}
  SeekCmds = {0, 1, 2}
  SeekOffsets = {0, 1, 2}
  LseekOffsets <- MCLseekOffsets
  MaxEntryLen = 2
  AllocMayFail = TRUE
  CopyMayFault = TRUE
SPECIFICATION Spec
SYMMETRY Symmetry
INVARIANTS LockDiscipline MemorySafe
PROPERTIES ImplementsCharDevice QuietSeekIsExact
