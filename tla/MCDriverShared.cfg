CONSTANTS
  MaxWriteOps = 2
  NULL = NULL
  Free = Free
  NL = NL
  Zero = Zero
  x = x
  Procs = {a, b}
  Ptrs = {q1, q2, q3, q4}
  Bytes <- MCBytes
  Chunks <- MCChunks
  Counts = {1, 2}
  IoctlCmds = {"AESDCHAR_IOCSEEKTO"}
  SeekCmds = {}
  SeekOffsets = {}
  LseekOffsets = {}
  MaxEntryLen = 2
  AllocMayFail = FALSE
  CopyMayFault = FALSE
SPECIFICATION Spec
SYMMETRY Symmetry
INVARIANTS MemorySafe NoLeak
PROPERTY ImplementsCharDevice
