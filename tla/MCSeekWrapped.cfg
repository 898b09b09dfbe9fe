CONSTANTS
  MaxWriteOps = 3
  NULL = NULL
  Free = Free
  NL = NL
  Zero = Zero
  x = x
  Procs = {a}
  Ptrs = {q1, q2, q3, q4}
  Bytes <- MCBytes
  Chunks <- MCChunks
  Counts = {}
  IoctlCmds = {"AESDCHAR_IOCSEEKTO"}
  SeekCmds = {0, 1, 2}
  SeekOffsets = {0, 1, 2}
  LseekOffsets = {}
  MaxEntryLen = 2
  AllocMayFail = FALSE
  CopyMayFault = FALSE
SPECIFICATION Spec
SYMMETRY Symmetry
PROPERTY SeekRejectsOnlyMissing
