------------------------------ MODULE AesdChar ------------------------------
(***************************************************************************)
(* The character driver, aesd-char-driver/main.c: one device shared by     *)
(* processes that each hold an open file.  aesd_read and aesd_write work   *)
(* under aesd_device.lock; llseek and unlocked_ioctl read the ring without *)
(* it.  A section under the lock is split where code outside it can look:  *)
(* the stores to the ring are separate steps, everything else under the    *)
(* lock is not seen by anybody and is part of the step it precedes.  An    *)
(* unlocked function makes a step of each read of the ring.                *)
(*                                                                         *)
(* Memory is a function from blocks to their contents, so that a block     *)
(* freed twice, used after it is freed, or forgotten can be told.          *)
(***************************************************************************)
EXTENDS AesdCircularBuffer, Sequences

CONSTANTS
  Procs,         \* processes, each with at most one open file
  Ptrs,          \* blocks the kernel allocator can hand out
  Free,          \* the content of a block that is not allocated
  Bytes,         \* the bytes of the model
  NL, Zero,      \* the newline, and the byte copy_from_user pads with
  Chunks,        \* what a process may pass to write(2)
  Counts,        \* how many bytes a process may ask read(2) for
  IoctlCmds,     \* the command codes a process may pass to ioctl(2)
  SeekCmds,      \* the write_cmd values of AESDCHAR_IOCSEEKTO
  SeekOffsets,   \* its write_cmd_offset values
  LseekOffsets,  \* the offsets of lseek(2)
  MaxEntryLen,   \* bound on the length of a command
  AllocMayFail,  \* kmalloc and krealloc may return NULL
  CopyMayFault   \* copy_from_user and copy_to_user may fail

ASSUME AesdCharAssumption ==
  /\ NULL \notin Procs \cup Ptrs
  /\ {NL, Zero} \subseteq Bytes
  /\ Free \notin Seq(Bytes)
  /\ Chunks \subseteq Seq(Bytes) \ {<<>>}
  /\ Counts \subseteq Nat /\ SeekCmds \subseteq Nat /\ SeekOffsets \subseteq Nat
  /\ LseekOffsets \subseteq Int
  /\ MaxEntryLen \in Nat
  /\ AllocMayFail \in BOOLEAN /\ CopyMayFault \in BOOLEAN

VARIABLES
  loaded,         \* the module is loaded
  buffer,         \* aesd_device.buffer
  current_entry,  \* aesd_device.current_entry
  lock,           \* the process that holds aesd_device.lock, or NULL
  heap,           \* the content of each block
  open,           \* the processes that have the device open
  f_pos,          \* the position of each process' file
  pc,             \* where each process is in the driver
  loc,            \* the arguments and local variables of its call
  ret,            \* the status its last call returned
  got             \* the bytes its last read returned

vars == <<loaded, buffer, current_entry, lock, heap, open, f_pos, pc, loc, ret, got>>
device == <<loaded, buffer, current_entry, lock, heap>>

Whence == {"SEEK_SET", "SEEK_CUR", "SEEK_END"}
Locals == [chunk: Chunks \cup {<<>>}, count: Nat, cmd: Nat, off: Int,
           whence: Whence, entry: Nat, index: Nat, start: Nat, pos: Nat]
NoLocals == [chunk |-> <<>>, count |-> 0, cmd |-> 0, off |-> 0,
             whence |-> "SEEK_SET", entry |-> 0, index |-> 0, start |-> 0, pos |-> 0]

Goto(p, label, locals) ==
  pc' = [pc EXCEPT ![p] = label] /\ loc' = [loc EXCEPT ![p] = locals]

\* p calls the driver.
Enter(p, label, locals) ==
  Goto(p, label, locals) /\ ret' = [ret EXCEPT ![p] = "ok"]

\* The call of p returns status; all its locals are gone.
Return(p, status) ==
  Goto(p, "user", NoLocals) /\ ret' = [ret EXCEPT ![p] = status]

\* p may enter the driver.
InUser(p) == loaded /\ p \in open /\ pc[p] = "user"
-----------------------------------------------------------------------------
(* Loading, opening, closing, unloading.                                   *)

Init ==
  /\ loaded = FALSE
  /\ buffer = aesd_circular_buffer_init
  /\ current_entry = EmptyEntry
  /\ lock = NULL
  /\ heap = [q \in Ptrs |-> Free]
  /\ open = {}
  /\ f_pos = [p \in Procs |-> 0]
  /\ pc = [p \in Procs |-> "user"]
  /\ loc = [p \in Procs |-> NoLocals]
  /\ ret = [p \in Procs |-> "ok"]
  /\ got = [p \in Procs |-> <<>>]

\* A failing registration returns without loading: nothing changes.
aesd_init_module ==
  /\ ~loaded
  /\ loaded' = TRUE
  /\ buffer' = aesd_circular_buffer_init
  /\ current_entry' = EmptyEntry
  /\ lock' = NULL
  /\ UNCHANGED <<heap, open, f_pos, pc, loc, ret, got>>

aesd_open(p) ==
  /\ loaded /\ p \notin open
  /\ open' = open \cup {p}
  /\ UNCHANGED <<device, f_pos, pc, loc, ret, got>>

\* The kernel drops the struct file.
aesd_release(p) ==
  /\ InUser(p)
  /\ open' = open \ {p}
  /\ f_pos' = [f_pos EXCEPT ![p] = 0]
  /\ ret' = [ret EXCEPT ![p] = "ok"]
  /\ got' = [got EXCEPT ![p] = <<>>]
  /\ UNCHANGED <<device, pc, loc>>

\* The slots whose buffers aesd_cleanup_module frees.
\* Mutant: the loop ignores where the ring starts and stops one short.
MutCleanedSlotsShort == 0 .. aesd_circular_buffer_get_count(buffer) - 2

CleanedSlots ==
  LET ring_count == aesd_circular_buffer_get_count(buffer)
  IN  {(buffer.out_offs + i) % ring_count : i \in 0 .. ring_count - 1}

\* The kernel unloads a module only when no file of it is open (.owner).
aesd_cleanup_module ==
  /\ loaded /\ open = {}
  /\ loaded' = FALSE
  /\ LET freed == {current_entry.buffptr} \cup
                  {buffer.entry[i].buffptr : i \in CleanedSlots}
     IN  heap' = [q \in Ptrs |-> IF q \in freed THEN Free ELSE heap[q]]
  /\ buffer' = [buffer EXCEPT !.entry =
                  [i \in Index |-> IF i \in CleanedSlots THEN EmptyEntry ELSE @[i]]]
  /\ UNCHANGED <<current_entry, lock, open, f_pos, pc, loc, ret, got>>
-----------------------------------------------------------------------------
(* aesd_read, all of it under the lock.                                    *)

\* Mutant: the lock is not taken.
MutReadUnlocked(p, count) ==
  LET at == aesd_circular_buffer_find_entry_offset_for_fpos(buffer, f_pos[p])
  IN  /\ InUser(p)
      /\ IF at = NotFound \/ count = 0
         THEN got' = [got EXCEPT ![p] = <<>>] /\ UNCHANGED f_pos
         ELSE LET left == buffer.entry[at.entry].size - at.offset
                  n    == IF left < count THEN left ELSE count
              IN  /\ got' = [got EXCEPT ![p] =
                       SubSeq(heap[buffer.entry[at.entry].buffptr],
                              at.offset + 1, at.offset + n)]
                  /\ f_pos' = [f_pos EXCEPT ![p] = @ + n]
      /\ ret' = [ret EXCEPT ![p] = "ok"]
      /\ UNCHANGED <<device, open, pc, loc>>

aesd_read(p, count) ==
  LET at == aesd_circular_buffer_find_entry_offset_for_fpos(buffer, f_pos[p])
  IN  /\ InUser(p) /\ lock = NULL
      /\ IF at = NotFound \/ count = 0
         THEN got' = [got EXCEPT ![p] = <<>>] /\ UNCHANGED f_pos
         ELSE LET left == buffer.entry[at.entry].size - at.offset
                  n    == IF left < count THEN left ELSE count
              IN  /\ got' = [got EXCEPT ![p] =
                       SubSeq(heap[buffer.entry[at.entry].buffptr],
                              at.offset + 1, at.offset + n)]
                  /\ f_pos' = [f_pos EXCEPT ![p] = @ + n]
      /\ ret' = [ret EXCEPT ![p] = "ok"]
      /\ UNCHANGED <<device, open, pc, loc>>

\* copy_to_user failed: the position stays.
ReadFault(p) ==
  /\ CopyMayFault
  /\ InUser(p) /\ lock = NULL
  /\ aesd_circular_buffer_find_entry_offset_for_fpos(buffer, f_pos[p]) # NotFound
  /\ ret' = [ret EXCEPT ![p] = "EFAULT"]
  /\ UNCHANGED <<device, open, f_pos, pc, loc, got>>
-----------------------------------------------------------------------------
(* aesd_write.  A write of no bytes returns at once and is left out.       *)

\* The bytes of the command that is not complete yet.
PendingBytes ==
  IF current_entry.buffptr = NULL THEN <<>> ELSE heap[current_entry.buffptr]

\* Where the next bytes go in it (insert_pos).
InsertPos == IF current_entry.buffptr = NULL THEN 0 ELSE current_entry.size

aesd_write(p, chunk) ==
  /\ InUser(p) /\ lock = NULL
  /\ InsertPos + Len(chunk) <= MaxEntryLen
  /\ lock' = p
  /\ Enter(p, "w_copy", [NoLocals EXCEPT !.chunk = chunk])
  /\ UNCHANGED <<loaded, buffer, current_entry, heap, open, f_pos, got>>

\* kmalloc or krealloc gave block q (krealloc may move the block, which
\* frees the old one), and it now ends with data.
Extend(q, data) ==
  /\ heap[q] = Free \/ q = current_entry.buffptr
  /\ heap' = [r \in Ptrs |-> IF r = q THEN PendingBytes \o data
                             ELSE IF r = current_entry.buffptr THEN Free
                             ELSE heap[r]]
  /\ current_entry' = [buffptr |-> q, size |-> InsertPos + Len(data)]

\* Mutant: the lock is kept when the copied bytes do not end a command.
MutWriteCopyKeepsLock(p) ==
  /\ pc[p] = "w_copy"
  /\ LET chunk == loc[p].chunk
     IN  /\ \E q \in Ptrs : Extend(q, chunk)
         /\ IF chunk[Len(chunk)] = NL
            THEN Goto(p, "w_evict", loc[p]) /\ UNCHANGED <<lock, ret>>
            ELSE Return(p, "ok") /\ UNCHANGED lock
  /\ UNCHANGED <<loaded, buffer, open, f_pos, got>>

WriteCopy(p) ==
  /\ pc[p] = "w_copy"
  /\ LET chunk == loc[p].chunk
     IN  /\ \E q \in Ptrs : Extend(q, chunk)
         /\ IF chunk[Len(chunk)] = NL
            THEN Goto(p, "w_evict", loc[p]) /\ UNCHANGED <<lock, ret>>
            ELSE Return(p, "ok") /\ lock' = NULL
  /\ UNCHANGED <<loaded, buffer, open, f_pos, got>>

\* The allocator returned NULL.  The result of krealloc overwrites the only
\* pointer to the old block, which stays allocated; size has grown already.
WriteNoMem(p) ==
  /\ AllocMayFail
  /\ pc[p] = "w_copy"
  /\ current_entry' = [buffptr |-> NULL,
                       size |-> InsertPos + Len(loc[p].chunk)]
  /\ Return(p, "ENOMEM") /\ lock' = NULL
  /\ UNCHANGED <<loaded, buffer, heap, open, f_pos, got>>

\* Mutant: a command whose copy failed is completed all the same.
MutWriteFaultPublishes(p) ==
  /\ CopyMayFault
  /\ pc[p] = "w_copy"
  /\ LET chunk == loc[p].chunk
     IN  /\ \E q \in Ptrs : Extend(q, [i \in DOMAIN chunk |-> Zero])
         /\ IF chunk[Len(chunk)] = NL
            THEN Goto(p, "w_evict", loc[p]) /\ UNCHANGED <<lock, ret>>
            ELSE Return(p, "EFAULT") /\ lock' = NULL
  /\ UNCHANGED <<loaded, buffer, open, f_pos, got>>

\* copy_from_user stopped after n bytes and zeroed the rest; the entry keeps
\* the size it was given.
WriteFault(p) ==
  /\ CopyMayFault
  /\ pc[p] = "w_copy"
  /\ LET chunk == loc[p].chunk
     IN  \E q \in Ptrs, n \in 0 .. Len(chunk) - 1 :
           Extend(q, [i \in DOMAIN chunk |-> IF i <= n THEN chunk[i] ELSE Zero])
  /\ Return(p, "EFAULT") /\ lock' = NULL
  /\ UNCHANGED <<loaded, buffer, open, f_pos, got>>

\* A full ring: free the oldest buffer and clear its entry.
WriteEvict(p) ==
  /\ pc[p] = "w_evict"
  /\ IF aesd_circular_buffer_get_count(buffer) = MaxWriteOps
     THEN /\ heap' = [heap EXCEPT ![buffer.entry[buffer.in_offs].buffptr] = Free]
          /\ buffer' = [buffer EXCEPT !.entry[buffer.in_offs] = EmptyEntry]
     ELSE UNCHANGED <<buffer, heap>>
  /\ Goto(p, "w_store", loc[p])
  /\ UNCHANGED <<loaded, current_entry, lock, open, f_pos, ret, got>>

\* The three stores of aesd_circular_buffer_add_entry.
WriteStore(p) ==
  /\ pc[p] = "w_store"
  /\ buffer' = StoreEntry(buffer, current_entry)
  /\ Goto(p, "w_advance",
          [loc[p] EXCEPT !.count = aesd_circular_buffer_get_count(buffer)])
  /\ UNCHANGED <<loaded, current_entry, lock, heap, open, f_pos, ret, got>>

WriteAdvance(p) ==
  /\ pc[p] = "w_advance"
  /\ buffer' = AdvanceIn(buffer)
  /\ Goto(p, "w_corner", loc[p])
  /\ UNCHANGED <<loaded, current_entry, lock, heap, open, f_pos, ret, got>>

\* Mutant: current_entry is not reset once it is in the ring.
MutWriteCornerKeepsEntry(p) ==
  /\ pc[p] = "w_corner"
  /\ buffer' = CornerCases(buffer, loc[p].count)
  /\ lock' = NULL
  /\ Return(p, "ok")
  /\ UNCHANGED <<loaded, current_entry, heap, open, f_pos, got>>

\* ... then current_entry is reset and the lock released.
WriteCorner(p) ==
  /\ pc[p] = "w_corner"
  /\ buffer' = CornerCases(buffer, loc[p].count)
  /\ current_entry' = EmptyEntry
  /\ lock' = NULL
  /\ Return(p, "ok")
  /\ UNCHANGED <<loaded, heap, open, f_pos, got>>
-----------------------------------------------------------------------------
(* llseek: the size is summed without the lock, one entry at a time.  The  *)
(* loop stores nothing, so the -O2 build reads out_offs once.              *)

llseek(p, offset, whence) ==
  /\ InUser(p)
  /\ Enter(p, "l_loop", [NoLocals EXCEPT !.off = offset, !.whence = whence,
                           !.index = buffer.out_offs, !.start = buffer.out_offs])
  /\ UNCHANGED <<device, open, f_pos, got>>

LlseekLoop(p) ==
  LET next == (loc[p].index + 1) % MaxWriteOps
  IN  /\ pc[p] = "l_loop"
      /\ Goto(p, IF next = loc[p].start THEN "l_set" ELSE "l_loop",
              [loc[p] EXCEPT !.pos = @ + buffer.entry[loc[p].index].size,
                             !.index = next])
      /\ UNCHANGED <<device, open, f_pos, ret, got>>

\* The kernel's fixed_size_llseek: the position lseek(2) asks for, given the
\* size of the device.
LseekTarget(p, size) ==
  CASE loc[p].whence = "SEEK_SET" -> loc[p].off
    [] loc[p].whence = "SEEK_CUR" -> f_pos[p] + loc[p].off
    [] loc[p].whence = "SEEK_END" -> size + loc[p].off

\* SEEK_CUR by 0 only reports the position, even one past the end.
fixed_size_llseek(p) ==
  LET size   == loc[p].pos
      target == LseekTarget(p, size)
  IN  /\ pc[p] = "l_set"
      /\ IF loc[p].whence = "SEEK_CUR" /\ loc[p].off = 0
         THEN Return(p, "ok") /\ UNCHANGED f_pos
         ELSE IF target < 0 \/ target > size
              THEN Return(p, "EINVAL") /\ UNCHANGED f_pos
              ELSE Return(p, "ok") /\ f_pos' = [f_pos EXCEPT ![p] = target]
      /\ UNCHANGED <<device, open, got>>
-----------------------------------------------------------------------------
(* unlocked_ioctl and aesd_adjust_file_offset, without the lock.           *)

unlocked_ioctl(p, write_cmd, write_cmd_offset) ==
  /\ InUser(p)
  /\ Enter(p, "i_full", [NoLocals EXCEPT !.cmd = write_cmd, !.off = write_cmd_offset])
  /\ UNCHANGED <<device, open, f_pos, got>>

\* Another type or number is not handled; a bad pointer is refused.
IoctlRefused(p) ==
  /\ InUser(p)
  /\ \/ /\ IoctlCmds # {"AESDCHAR_IOCSEEKTO"}
        /\ ret' = [ret EXCEPT ![p] = "ENOTTY"]
     \/ /\ CopyMayFault
        /\ ret' = [ret EXCEPT ![p] = "EFAULT"]
  /\ UNCHANGED <<device, open, f_pos, pc, loc, got>>

\* Mutant: write_cmd is counted from 1.
MutCheckCmdFromOne(p, count) ==
  IF loc[p].cmd + 1 >= count
  THEN Return(p, "EINVAL")
  ELSE Goto(p, "i_entry", loc[p]) /\ UNCHANGED ret

\* write_cmd is compared with the count.
CheckCmd(p, count) ==
  IF loc[p].cmd >= count
  THEN Return(p, "EINVAL")
  ELSE Goto(p, "i_entry", loc[p]) /\ UNCHANGED ret

\* The reads of aesd_circular_buffer_get_count: full, and if it is not set
\* out_offs and in_offs.
IoctlFull(p) ==
  /\ pc[p] = "i_full"
  /\ IF buffer.full THEN CheckCmd(p, MaxWriteOps)
                    ELSE Goto(p, "i_out", loc[p]) /\ UNCHANGED ret
  /\ UNCHANGED <<device, open, f_pos, got>>

IoctlOut(p) ==
  /\ pc[p] = "i_out"
  /\ Goto(p, "i_in", [loc[p] EXCEPT !.start = buffer.out_offs])
  /\ UNCHANGED <<device, open, f_pos, ret, got>>

IoctlIn(p) ==
  /\ pc[p] = "i_in"
  /\ CheckCmd(p, aesd_circular_buffer_get_count(
                   [buffer EXCEPT !.full = FALSE, !.out_offs = loc[p].start]))
  /\ UNCHANGED <<device, open, f_pos, got>>

\* entry[out_offs + write_cmd] is not reduced modulo the array's length.
IoctlEntry(p) ==
  /\ pc[p] = "i_entry"
  /\ Goto(p, "i_size", [loc[p] EXCEPT !.entry = buffer.out_offs + loc[p].cmd])
  /\ UNCHANGED <<device, open, f_pos, ret, got>>

\* An index past the array reads another field of the struct as the size;
\* with either outcome of that comparison the call fails, because
\* fpos_for_entry finds no entry at that address.
IoctlSize(p) ==
  /\ pc[p] = "i_size"
  /\ IF \/ loc[p].entry \notin Index
        \/ loc[p].off >= buffer.entry[loc[p].entry].size
     THEN Return(p, "EINVAL")
     ELSE Goto(p, "i_start", loc[p]) /\ UNCHANGED ret
  /\ UNCHANGED <<device, open, f_pos, got>>

\* The loop of aesd_circular_buffer_fpos_for_entry.
IoctlStart(p) ==
  /\ pc[p] = "i_start"
  /\ Goto(p, "i_loop", [loc[p] EXCEPT !.index = buffer.out_offs,
                                      !.start = buffer.out_offs])
  /\ UNCHANGED <<device, open, f_pos, ret, got>>

\* Mutant: the bytes of the entries before the one sought are not counted.
MutIoctlLoopDropsPos(p) ==
  /\ pc[p] = "i_loop"
  /\ LET next == (loc[p].index + 1) % MaxWriteOps
     IN  IF loc[p].index = loc[p].entry
         THEN Return(p, "ok") /\ f_pos' = [f_pos EXCEPT ![p] = loc[p].off]
         ELSE Goto(p, "i_loop", [loc[p] EXCEPT !.index = next]) /\ UNCHANGED <<ret, f_pos>>
  /\ UNCHANGED <<device, open, got>>

IoctlLoop(p) ==
  /\ pc[p] = "i_loop"
  /\ LET at   == buffer.entry[loc[p].index].size
         next == (loc[p].index + 1) % MaxWriteOps
     IN  IF loc[p].index = loc[p].entry
         THEN IF loc[p].off >= at
              THEN Return(p, "EINVAL") /\ UNCHANGED f_pos
              ELSE /\ f_pos' = [f_pos EXCEPT ![p] = loc[p].pos + loc[p].off]
                   /\ Return(p, "ok")
         ELSE /\ IF next = loc[p].start
                 THEN Return(p, "EINVAL")
                 ELSE /\ Goto(p, "i_loop", [loc[p] EXCEPT !.pos = @ + at, !.index = next])
                      /\ UNCHANGED ret
              /\ UNCHANGED f_pos
  /\ UNCHANGED <<device, open, got>>
-----------------------------------------------------------------------------
Call(p) ==
  \/ aesd_open(p) \/ aesd_release(p) \/ ReadFault(p) \/ IoctlRefused(p)
  \/ \E n \in Counts : aesd_read(p, n)
  \/ \E c \in Chunks : aesd_write(p, c)
  \/ \E o \in LseekOffsets, w \in Whence : llseek(p, o, w)
  \/ \E c \in SeekCmds, o \in SeekOffsets : unlocked_ioctl(p, c, o)

\* The steps of p inside the driver.
Step(p) ==
  \/ WriteCopy(p) \/ WriteNoMem(p) \/ WriteFault(p)
  \/ WriteEvict(p) \/ WriteStore(p) \/ WriteAdvance(p) \/ WriteCorner(p)
  \/ LlseekLoop(p) \/ fixed_size_llseek(p)
  \/ IoctlFull(p) \/ IoctlOut(p) \/ IoctlIn(p) \/ IoctlEntry(p) \/ IoctlSize(p)
  \/ IoctlStart(p) \/ IoctlLoop(p)

Next ==
  \/ aesd_init_module \/ aesd_cleanup_module
  \/ \E p \in Procs : Call(p) \/ Step(p)

Spec == Init /\ [][Next]_vars

\* A process inside the driver is in kernel code: it keeps running.
FairSpec == Spec /\ \A p \in Procs : WF_vars(Step(p))
=============================================================================
