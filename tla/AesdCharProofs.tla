--------------------------- MODULE AesdCharProofs ---------------------------
(***************************************************************************)
(* The locking of the character driver and its memory, for any number of   *)
(* processes and blocks, every capacity of the ring, and whatever fails;   *)
(* and its refinement of CharDevice.                                       *)
(***************************************************************************)
EXTENDS AesdCharProperties, RingTheorems

Labels == {"user"} \cup WriteLabels \cup SeekLabels

(* A process is inside the driver only with the device open, and the       *)
(* device is open only while the module is loaded.  Without it the         *)
(* mutex_init of aesd_init_module could take the lock from a writer.       *)
Residents ==
  /\ \A p \in Procs : pc[p] # "user" => p \in open
  /\ open # {} => loaded

LockInv ==
  /\ pc \in [Procs -> Labels]
  /\ LockDiscipline
  /\ Residents

(* The invariant holds before the module is loaded.                        *)
LEMMA InitLock == Init => LockInv
  BY AesdCharAssumption
  DEF Init, LockInv, LockDiscipline, Residents, Labels, WriteLabels, PublishLabels

(* Loading and unloading find no process in the driver.                    *)
LEMMA ModuleLock ==
  ASSUME LockInv, aesd_init_module \/ aesd_cleanup_module
  PROVE  LockInv'
<1>1. \A p \in Procs : pc[p] = "user"
  BY DEF aesd_init_module, aesd_cleanup_module, LockInv, Residents
<1>2. CASE aesd_init_module
  BY <1>1, <1>2, AesdCharAssumption
  DEF aesd_init_module, LockInv, LockDiscipline, Residents, WriteLabels, PublishLabels
<1>3. CASE aesd_cleanup_module
  BY <1>1, <1>3
  DEF aesd_cleanup_module, LockInv, LockDiscipline, Residents, WriteLabels, PublishLabels
<1>4. QED
  BY <1>2, <1>3

(* A call that does its work in one step, or that starts without the lock, *)
(* leaves the lock alone.                                                  *)
LEMMA CallLock ==
  ASSUME LockInv, NEW p \in Procs, Call(p)
  PROVE  LockInv'
<1> USE DEF LockInv, Residents, InUser, device, Labels
<1>1. CASE aesd_open(p)
  BY <1>1 DEF aesd_open, LockDiscipline
<1>2. CASE aesd_release(p)
  BY <1>2 DEF aesd_release, LockDiscipline, WriteLabels, PublishLabels
<1>3. CASE ReadFault(p)
  BY <1>3 DEF ReadFault, LockDiscipline
<1>4. CASE IoctlRefused(p)
  BY <1>4 DEF IoctlRefused, LockDiscipline
<1>5. ASSUME NEW n \in Counts, aesd_read(p, n) PROVE LockInv'
  BY <1>5 DEF aesd_read, LockDiscipline
<1>6. ASSUME NEW c \in Chunks, aesd_write(p, c) PROVE LockInv'
  BY <1>6, AesdCharAssumption
  DEF aesd_write, Enter, Goto, LockDiscipline, WriteLabels, PublishLabels
<1>7. ASSUME NEW o \in LseekOffsets, NEW w \in Whence, llseek(p, o, w) PROVE LockInv'
  BY <1>7
  DEF llseek, Enter, Goto, LockDiscipline, WriteLabels, PublishLabels, SeekLabels
<1>8. ASSUME NEW c \in SeekCmds, NEW o \in SeekOffsets, unlocked_ioctl(p, c, o)
      PROVE  LockInv'
  BY <1>8
  DEF unlocked_ioctl, Enter, Goto, LockDiscipline, WriteLabels, PublishLabels, SeekLabels
<1>9. QED
  BY <1>1, <1>2, <1>3, <1>4, <1>5, <1>6, <1>7, <1>8 DEF Call

(* A step of p that moves p to another label and keeps the lock.           *)
LEMMA MoveLock ==
  ASSUME LockInv, NEW p \in Procs, pc[p] # "user",
         UNCHANGED <<loaded, lock, open>>,
         NEW label \in Labels, pc' = [pc EXCEPT ![p] = label],
         pc[p] \in WriteLabels <=> label \in WriteLabels
  PROVE  LockInv'
  BY DEF LockInv, LockDiscipline, Residents

(* A step of a writer that returns gives the lock back.                    *)
LEMMA ReleaseLock ==
  ASSUME LockInv, NEW p \in Procs, pc[p] \in WriteLabels,
         UNCHANGED <<loaded, open>>, lock' = NULL,
         pc' = [pc EXCEPT ![p] = "user"]
  PROVE  LockInv'
<1>1. lock = p /\ NULL \notin Procs
  BY AesdCharAssumption DEF LockInv, LockDiscipline
<1>2. pc' \in [Procs -> Labels]
  BY DEF LockInv, Labels
<1>3. LockDiscipline'
  BY <1>1 DEF LockInv, LockDiscipline, WriteLabels, PublishLabels
<1>4. Residents'
  BY DEF LockInv, Residents
<1>5. QED
  BY <1>2, <1>3, <1>4 DEF LockInv

(* Every step inside the driver keeps the discipline: the error paths of   *)
(* aesd_write unlock, the unlocked functions never touch the lock.         *)
LEMMA StepLock ==
  ASSUME LockInv, NEW p \in Procs, Step(p)
  PROVE  LockInv'
<1> USE DEF Goto, Return, Labels, WriteLabels, PublishLabels, SeekLabels, device
<1>1. CASE WriteCopy(p)
  <2>1. CASE loc[p].chunk[Len(loc[p].chunk)] = NL
    BY <1>1, <2>1, MoveLock DEF WriteCopy
  <2>2. CASE loc[p].chunk[Len(loc[p].chunk)] # NL
    BY <1>1, <2>2, ReleaseLock DEF WriteCopy
  <2>3. QED
    BY <2>1, <2>2
<1>2. CASE WriteNoMem(p)
  BY <1>2, ReleaseLock DEF WriteNoMem
<1>3. CASE WriteFault(p)
  BY <1>3, ReleaseLock DEF WriteFault
<1>4. CASE WriteEvict(p)
  BY <1>4, MoveLock DEF WriteEvict
<1>5. CASE WriteStore(p)
  BY <1>5, MoveLock DEF WriteStore
<1>6. CASE WriteAdvance(p)
  BY <1>6, MoveLock DEF WriteAdvance
<1>7. CASE WriteCorner(p)
  BY <1>7, ReleaseLock DEF WriteCorner
<1>8. CASE LlseekLoop(p)
  BY <1>8, MoveLock DEF LlseekLoop
<1>9. CASE fixed_size_llseek(p)
  BY <1>9, MoveLock DEF fixed_size_llseek
<1>10. CASE IoctlFull(p)
  BY <1>10, MoveLock DEF IoctlFull, CheckCmd
<1>11. CASE IoctlOut(p)
  BY <1>11, MoveLock DEF IoctlOut
<1>12. CASE IoctlIn(p)
  BY <1>12, MoveLock DEF IoctlIn, CheckCmd
<1>13. CASE IoctlEntry(p)
  BY <1>13, MoveLock DEF IoctlEntry
<1>14. CASE IoctlSize(p)
  BY <1>14, MoveLock DEF IoctlSize
<1>15. CASE IoctlStart(p)
  BY <1>15, MoveLock DEF IoctlStart
<1>16. CASE IoctlLoop(p)
  BY <1>16, MoveLock DEF IoctlLoop
<1>17. QED
  BY <1>1, <1>2, <1>3, <1>4, <1>5, <1>6, <1>7, <1>8, <1>9, <1>10, <1>11, <1>12,
     <1>13, <1>14, <1>15, <1>16 DEF Step

(* The lock is held exactly by the process that is between mutex_lock and  *)
(* mutex_unlock of aesd_write, on every path of every call: it is never    *)
(* leaked by an error path, and no two writers are in the ring at once.    *)
THEOREM LockCorrect == Spec => []LockDiscipline
<1>1. LockInv /\ UNCHANGED vars => LockInv'
  BY DEF LockInv, LockDiscipline, Residents, vars
<1>2. LockInv /\ [Next]_vars => LockInv'
  BY <1>1, ModuleLock, CallLock, StepLock DEF Next
<1>3. LockInv => LockDiscipline
  BY DEF LockInv
<1>4. QED
  BY InitLock, <1>2, <1>3, PTL DEF Spec
-----------------------------------------------------------------------------
(* The invariant of the driver's memory.                                   *)

IoctlLabels == {"i_full", "i_out", "i_in", "i_entry", "i_size", "i_start", "i_loop"}

(* What a process has in its local variables.                              *)
LocalsFit ==
  \A p \in Procs :
    /\ pc[p] = "w_copy" => loc[p].chunk \in Chunks
    /\ pc[p] \in {"l_loop", "i_loop"} => loc[p].index \in Index
    /\ pc[p] \in IoctlLabels => loc[p].off \in Nat

\* The writer, if there is one, is at label.
WriterAt(label) == lock # NULL /\ pc[lock] = label

Used(e) == e.buffptr # NULL

\* The first n slots are used and the others empty.
UsedUpTo(n) ==
  \A i \in Index : IF i < n THEN Used(buffer.entry[i]) ELSE buffer.entry[i] = EmptyEntry

AllUsed == \A i \in Index : Used(buffer.entry[i])

\* Between two writes, and until a writer has copied its bytes.
Settled ==
  IF buffer.full THEN buffer.in_offs = buffer.out_offs /\ AllUsed
  ELSE buffer.out_offs = 0 /\ UsedUpTo(buffer.in_offs)

\* The oldest entry of a full ring is gone.
Evicted ==
  IF buffer.full
  THEN /\ buffer.in_offs = buffer.out_offs
       /\ \A i \in Index : IF i = buffer.in_offs THEN buffer.entry[i] = EmptyEntry
                            ELSE Used(buffer.entry[i])
  ELSE buffer.out_offs = 0 /\ UsedUpTo(buffer.in_offs)

\* The new entry is stored at in_offs, which has not moved.
Stored ==
  /\ buffer.entry[buffer.in_offs] = current_entry
  /\ IF buffer.full
     THEN buffer.in_offs = buffer.out_offs /\ AllUsed /\ loc[lock].count = MaxWriteOps
     ELSE /\ buffer.out_offs = 0 /\ UsedUpTo(buffer.in_offs + 1)
          /\ loc[lock].count = buffer.in_offs

\* in_offs has moved; full and out_offs have not.
Advanced ==
  IF buffer.full
  THEN /\ buffer.entry[buffer.out_offs] = current_entry
       /\ buffer.in_offs = (buffer.out_offs + 1) % MaxWriteOps
       /\ AllUsed /\ loc[lock].count = MaxWriteOps
  ELSE /\ loc[lock].count \in Index
       /\ buffer.entry[loc[lock].count] = current_entry
       /\ buffer.in_offs = (loc[lock].count + 1) % MaxWriteOps
       /\ buffer.out_offs = 0 /\ UsedUpTo(loc[lock].count + 1)

(* The ring in each phase of a write, as long as the module is loaded.  A  *)
(* writer that publishes has a block.                                      *)
Phases ==
  /\ loaded /\ (~Publishing \/ WriterAt("w_evict")) => Settled
  /\ WriterAt("w_store") => Evicted
  /\ WriterAt("w_advance") => Stored
  /\ WriterAt("w_corner") => Advanced
  /\ Publishing => Used(current_entry)

DriverInv == LockInv /\ TypeOK /\ LocalsFit /\ Phases /\ MemorySafe

Statuses == {"ok", "EINVAL", "EFAULT", "ENOMEM", "ENOTTY"}

\* The part of TypeOK about the device, and the part about the processes.
DeviceTypes ==
  /\ loaded \in BOOLEAN
  /\ buffer \in [entry: [Index -> EntryType], in_offs: Index, out_offs: Index,
                 full: BOOLEAN]
  /\ current_entry \in EntryType
  /\ lock \in Procs \cup {NULL}
  /\ heap \in [Ptrs -> Seq(Bytes) \cup {Free}]

ProcTypes ==
  /\ open \in SUBSET Procs
  /\ f_pos \in [Procs -> Nat]
  /\ pc \in [Procs -> Labels]
  /\ loc \in [Procs -> Locals]
  /\ ret \in [Procs -> Statuses]
  /\ got \in [Procs -> Seq(Bytes)]
  /\ LocalsFit

(* DriverInv in these parts.                                               *)
LEMMA InvParts == DriverInv <=> LockInv /\ DeviceTypes /\ ProcTypes /\ Phases /\ MemorySafe
  BY DEF DriverInv, TypeOK, DeviceTypes, ProcTypes, Labels, Statuses

(* No locals are fine with a process outside the driver.                   *)
LEMMA NoLocalsType == NoLocals \in Locals
  BY DEF NoLocals, Locals, Whence

(* A process moves to label with new locals.                               *)
LEMMA GotoTypes ==
  ASSUME ProcTypes, NEW p \in Procs, NEW label \in Labels, NEW locals \in Locals,
         Goto(p, label, locals),
         label = "w_copy" => locals.chunk \in Chunks,
         label \in {"l_loop", "i_loop"} => locals.index \in Index,
         label \in IoctlLabels => locals.off \in Nat,
         UNCHANGED <<open, got>>, f_pos' \in [Procs -> Nat], ret' \in [Procs -> Statuses]
  PROVE  ProcTypes'
<1>1. pc' \in [Procs -> Labels] /\ loc' \in [Procs -> Locals]
  BY DEF ProcTypes, Goto
<1>2. LocalsFit'
  <2> SUFFICES ASSUME NEW q \in Procs
               PROVE  /\ pc'[q] = "w_copy" => loc'[q].chunk \in Chunks
                      /\ pc'[q] \in {"l_loop", "i_loop"} => loc'[q].index \in Index
                      /\ pc'[q] \in IoctlLabels => loc'[q].off \in Nat
    BY DEF LocalsFit
  <2>1. CASE q = p
    <3>1. pc'[q] = label /\ loc'[q] = locals
      BY <2>1 DEF ProcTypes, Goto
    <3>2. QED
      BY <3>1
  <2>2. CASE q # p
    <3>1. pc'[q] = pc[q] /\ loc'[q] = loc[q]
      BY <2>2 DEF ProcTypes, Goto
    <3>2. QED
      BY <3>1 DEF ProcTypes, LocalsFit
  <2>3. QED
    BY <2>1, <2>2
<1>3. QED
  BY <1>1, <1>2 DEF ProcTypes

(* A call returns.                                                         *)
LEMMA ReturnTypes ==
  ASSUME ProcTypes, NEW p \in Procs, NEW status \in Statuses, Return(p, status),
         UNCHANGED <<open, got>>, f_pos' \in [Procs -> Nat]
  PROVE  ProcTypes'
<1>1. Goto(p, "user", NoLocals) /\ ret' \in [Procs -> Statuses]
  BY DEF Return, ProcTypes
<1>2. "user" \in Labels /\ "user" \notin IoctlLabels
  BY DEF Labels, IoctlLabels
<1>3. QED
  BY <1>1, <1>2, NoLocalsType, GotoTypes

(* A process goes on in its call.                                          *)
LEMMA MoveTypes ==
  ASSUME ProcTypes, NEW p \in Procs, NEW label \in Labels \ {"w_copy"},
         NEW locals \in Locals, Goto(p, label, locals),
         label \in {"l_loop", "i_loop"} => locals.index \in Index,
         label \in IoctlLabels => locals.off \in Nat,
         UNCHANGED <<open, got, f_pos, ret>>
  PROVE  ProcTypes'
  BY GotoTypes DEF ProcTypes

(* The ring can be searched.                                               *)
LEMMA RingIsSearchable == DeviceTypes => Searchable(buffer)
  BY DEF DeviceTypes, Searchable, EntryType

(* What aesd_read finds is allocated, and long enough.                     *)
LEMMA ReadFinds ==
  ASSUME DeviceTypes, MemorySafe, loaded, NEW x \in Nat,
         aesd_circular_buffer_find_entry_offset_for_fpos(buffer, x) # NotFound
  PROVE  LET at == aesd_circular_buffer_find_entry_offset_for_fpos(buffer, x)
         IN  /\ at.entry \in Index /\ at.offset \in Nat
             /\ at.offset < buffer.entry[at.entry].size
             /\ buffer.entry[at.entry].size \in Nat
             /\ buffer.entry[at.entry].buffptr \in Ptrs
             /\ heap[buffer.entry[at.entry].buffptr] \in Seq(Bytes)
             /\ Len(heap[buffer.entry[at.entry].buffptr]) = buffer.entry[at.entry].size
<1> DEFINE at == aesd_circular_buffer_find_entry_offset_for_fpos(buffer, x)
<1>1. PICK k \in Index :
        /\ BytesBefore(buffer)[k] <= x
        /\ x < BytesBefore(buffer)[k] + buffer.entry[Slot(buffer, k)].size
        /\ at = [entry |-> Slot(buffer, k), offset |-> x - BytesBefore(buffer)[k]]
  BY RingIsSearchable, FindIsInEntry
<1>2. at.entry = Slot(buffer, k) /\ at.offset = x - BytesBefore(buffer)[k]
  BY <1>1
<1>3. BytesBefore(buffer)[k] \in Nat /\ buffer.entry[Slot(buffer, k)].size \in Nat
  BY RingIsSearchable, BytesBeforeGrows, MaxWriteOpsAssumption DEF Index
<1>4. Slot(buffer, k) \in Index
  BY SlotWraps DEF DeviceTypes
<1> DEFINE B == BytesBefore(buffer)[k]
           e == buffer.entry[Slot(buffer, k)]
<1>5. x - B \in Nat /\ x - B < e.size /\ e.size > 0
  <2> HIDE DEF B, e
  <2> QED BY <1>1, <1>3 DEF B, e
<1>6. e \in EntryType
  BY <1>4 DEF DeviceTypes
<1>7. e.buffptr \in Ptrs /\ heap[e.buffptr] # Free /\ Len(heap[e.buffptr]) = e.size
  <2>1. IF e.buffptr = NULL THEN e.size = 0
        ELSE heap[e.buffptr] # Free /\ Len(heap[e.buffptr]) = e.size
    BY <1>4 DEF MemorySafe
  <2> HIDE DEF e
  <2>2. QED
    BY <1>3, <1>5, <1>6, <2>1 DEF EntryType
<1>8. heap[e.buffptr] \in Seq(Bytes)
  BY <1>7 DEF DeviceTypes
<1> HIDE DEF at
<1>9. QED
  BY <1>2, <1>3, <1>4, <1>5, <1>7, <1>8 DEF at

(* The calls keep the types of the processes.                              *)
LEMMA CallTypes ==
  ASSUME DriverInv, NEW p \in Procs, Call(p)
  PROVE  ProcTypes'
<1>1. ProcTypes /\ DeviceTypes /\ MemorySafe
  BY InvParts
<1>2. CASE aesd_open(p)
  BY <1>1, <1>2 DEF aesd_open, ProcTypes, LocalsFit
<1>3. CASE aesd_release(p)
  <2>1. f_pos' \in [Procs -> Nat] /\ ret' \in [Procs -> Statuses]
    BY <1>1, <1>3 DEF aesd_release, ProcTypes, Statuses
  <2>2. <<>> \in Seq(Bytes)
    OBVIOUS
  <2>3. got' \in [Procs -> Seq(Bytes)]
    BY <1>1, <1>3, <2>2 DEF aesd_release, ProcTypes
  <2>4. QED
    BY <1>1, <1>3, <2>1, <2>3 DEF aesd_release, ProcTypes, LocalsFit
<1>4. CASE ReadFault(p)
  BY <1>1, <1>4 DEF ReadFault, ProcTypes, LocalsFit, Statuses
<1>5. CASE IoctlRefused(p)
  BY <1>1, <1>5 DEF IoctlRefused, ProcTypes, LocalsFit, Statuses
<1>6. ASSUME NEW count \in Counts, aesd_read(p, count) PROVE ProcTypes'
  <2> DEFINE at == aesd_circular_buffer_find_entry_offset_for_fpos(buffer, f_pos[p])
             e == buffer.entry[at.entry]
             n == IF e.size - at.offset < count THEN e.size - at.offset ELSE count
             data == SubSeq(heap[e.buffptr], at.offset + 1, at.offset + n)
  <2>1. /\ ret' = [ret EXCEPT ![p] = "ok"]
        /\ UNCHANGED <<open, pc, loc>> /\ loaded
    BY <1>6 DEF aesd_read, InUser
  <2>2. f_pos[p] \in Nat /\ count \in Nat
    BY <1>1, AesdCharAssumption DEF ProcTypes
  <2>3. got' \in [Procs -> Seq(Bytes)] /\ f_pos' \in [Procs -> Nat]
    <3>1. CASE at = NotFound \/ count = 0
      <4>1. <<>> \in Seq(Bytes)
        OBVIOUS
      <4>2. QED
        BY <1>1, <1>6, <3>1, <4>1 DEF aesd_read, ProcTypes
    <3>2. CASE ~(at = NotFound \/ count = 0)
      <4>1. /\ at.entry \in Index /\ at.offset \in Nat /\ at.offset < e.size
            /\ e.size \in Nat /\ heap[e.buffptr] \in Seq(Bytes) /\ Len(heap[e.buffptr]) = e.size
        BY <1>1, <2>1, <2>2, <3>2, ReadFinds
      <4>2. got' = [got EXCEPT ![p] = data] /\ f_pos' = [f_pos EXCEPT ![p] = @ + n]
        BY <1>6, <3>2 DEF aesd_read
      <4> DEFINE o == at.offset
                 h == heap[e.buffptr]
                 z == e.size
      <4>3. o \in Nat /\ h \in Seq(Bytes) /\ z \in Nat /\ o < z /\ Len(h) = z
        BY <4>1
      <4>4. n \in Nat /\ data \in Seq(Bytes)
        <5>1. n = (IF z - o < count THEN z - o ELSE count)
          OBVIOUS
        <5> HIDE DEF o, h, z, n
        <5>2. n \in Nat /\ n <= z - o
          BY <2>2, <4>3, <5>1
        <5>3. \A i \in o + 1 .. o + n : i \in 1 .. Len(h)
          BY <4>3, <5>2
        <5>4. SubSeq(h, o + 1, o + n) \in Seq(Bytes)
          BY <4>3, <5>2, <5>3, SubSeqProperties
        <5>5. QED
          BY <5>2, <5>4 DEF o, h, z, n
      <4> HIDE DEF data, n
      <4>5. QED
        BY <1>1, <2>2, <4>2, <4>4 DEF ProcTypes
    <3>3. QED
      BY <3>1, <3>2
  <2>4. QED
    BY <1>1, <2>1, <2>3 DEF ProcTypes, LocalsFit, Statuses
<1>7. ASSUME NEW chunk \in Chunks, aesd_write(p, chunk) PROVE ProcTypes'
  <2> DEFINE locals == [NoLocals EXCEPT !.chunk = chunk]
  <2>1. locals \in Locals /\ locals.chunk = chunk
    BY DEF NoLocals, Locals, Whence
  <2>2. /\ Goto(p, "w_copy", locals) /\ ret' = [ret EXCEPT ![p] = "ok"]
        /\ UNCHANGED <<open, got, f_pos>>
    BY <1>7 DEF aesd_write, Enter
  <2>3. "w_copy" \in Labels /\ "w_copy" \notin IoctlLabels /\ "ok" \in Statuses
    BY DEF Labels, WriteLabels, IoctlLabels, Statuses
  <2> HIDE DEF locals
  <2>4. ret' \in [Procs -> Statuses] /\ f_pos' \in [Procs -> Nat]
    BY <1>1, <2>2, <2>3 DEF ProcTypes
  <2>5. QED
    BY <1>1, <2>1, <2>2, <2>3, <2>4, GotoTypes
<1>8. ASSUME NEW o \in LseekOffsets, NEW w \in Whence, llseek(p, o, w) PROVE ProcTypes'
  <2> DEFINE locals == [NoLocals EXCEPT !.off = o, !.whence = w,
                           !.index = buffer.out_offs, !.start = buffer.out_offs]
  <2>1. locals \in Locals /\ locals.index \in Index
    <3>1. o \in Int /\ buffer.out_offs \in Nat /\ buffer.out_offs \in Index
      BY <1>1, AesdCharAssumption, MaxWriteOpsAssumption DEF DeviceTypes, Index
    <3>2. QED
      BY <3>1 DEF NoLocals, Locals, Whence
  <2>2. /\ Goto(p, "l_loop", locals) /\ ret' = [ret EXCEPT ![p] = "ok"]
        /\ UNCHANGED <<open, got, f_pos>>
    BY <1>8 DEF llseek, Enter
  <2>3. "l_loop" \in Labels /\ "l_loop" \notin IoctlLabels /\ "ok" \in Statuses
    BY DEF Labels, SeekLabels, IoctlLabels, Statuses
  <2> HIDE DEF locals
  <2>4. ret' \in [Procs -> Statuses] /\ f_pos' \in [Procs -> Nat]
    BY <1>1, <2>2, <2>3 DEF ProcTypes
  <2>5. QED
    BY <1>1, <2>1, <2>2, <2>3, <2>4, GotoTypes
<1>9. ASSUME NEW c \in SeekCmds, NEW o \in SeekOffsets, unlocked_ioctl(p, c, o)
      PROVE  ProcTypes'
  <2> DEFINE locals == [NoLocals EXCEPT !.cmd = c, !.off = o]
  <2>1. locals \in Locals /\ locals.off \in Nat
    <3>1. c \in Nat /\ o \in Nat /\ o \in Int
      BY AesdCharAssumption
    <3>2. locals \in Locals
      BY <3>1 DEF NoLocals, Locals, Whence
    <3>3. locals.off = o
      BY DEF NoLocals
    <3>4. QED
      BY <3>1, <3>2, <3>3
  <2>2. /\ Goto(p, "i_full", locals) /\ ret' = [ret EXCEPT ![p] = "ok"]
        /\ UNCHANGED <<open, got, f_pos>>
    BY <1>9 DEF unlocked_ioctl, Enter
  <2>3. "i_full" \in Labels /\ "ok" \in Statuses
    BY DEF Labels, SeekLabels, Statuses
  <2> HIDE DEF locals
  <2>4. ret' \in [Procs -> Statuses] /\ f_pos' \in [Procs -> Nat]
    BY <1>1, <2>2, <2>3 DEF ProcTypes
  <2>5. QED
    BY <1>1, <2>1, <2>2, <2>3, <2>4, GotoTypes
<1>10. QED
  BY <1>2, <1>3, <1>4, <1>5, <1>6, <1>7, <1>8, <1>9 DEF Call

(* The steps inside the driver keep the types of the processes.            *)
LEMMA StepTypes ==
  ASSUME DriverInv, NEW p \in Procs, Step(p)
  PROVE  ProcTypes'
<1>1. ProcTypes /\ DeviceTypes
  BY InvParts
<1>2. /\ loc[p] \in Locals /\ f_pos \in [Procs -> Nat]
      /\ pc[p] \in IoctlLabels => loc[p].off \in Nat
      /\ pc[p] \in {"l_loop", "i_loop"} => loc[p].index \in Index
  BY <1>1 DEF ProcTypes, LocalsFit
<1>3. /\ loc[p].chunk \in Chunks \cup {<<>>} /\ loc[p].count \in Nat /\ loc[p].cmd \in Nat
      /\ loc[p].off \in Int /\ loc[p].whence \in Whence /\ loc[p].entry \in Nat
      /\ loc[p].index \in Nat /\ loc[p].start \in Nat /\ loc[p].pos \in Nat
  BY <1>2 DEF Locals
<1>4. /\ buffer.out_offs \in Index /\ buffer.in_offs \in Index /\ Index \subseteq Nat
      /\ \A i \in Index : buffer.entry[i].size \in Nat
  BY <1>1, MaxWriteOpsAssumption DEF DeviceTypes, EntryType, Index
<1>5. \A status : status \in Statuses /\ Return(p, status) /\ UNCHANGED <<open, got, f_pos>>
                   => ProcTypes'
  BY <1>1, <1>2, ReturnTypes
<1>6. \A label \in Labels \ {"w_copy", "l_loop", "i_loop"} :
         /\ Goto(p, label, loc[p])
         /\ label \in IoctlLabels => pc[p] \in IoctlLabels
         /\ UNCHANGED <<open, got, f_pos, ret>>
         => ProcTypes'
  BY <1>1, <1>2, MoveTypes
<1> USE DEF Labels, WriteLabels, PublishLabels, SeekLabels, IoctlLabels, Statuses
<1>7. CASE WriteCopy(p)
  <2>1. CASE loc[p].chunk[Len(loc[p].chunk)] = NL
    BY <1>6, <1>7, <2>1 DEF WriteCopy
  <2>2. CASE loc[p].chunk[Len(loc[p].chunk)] # NL
    BY <1>5, <1>7, <2>2 DEF WriteCopy
  <2>3. QED
    BY <2>1, <2>2
<1>8. CASE WriteNoMem(p)
  BY <1>5, <1>8 DEF WriteNoMem
<1>9. CASE WriteFault(p)
  BY <1>5, <1>9 DEF WriteFault
<1>10. CASE WriteEvict(p)
  BY <1>6, <1>10 DEF WriteEvict
<1>11. CASE WriteStore(p)
  <2> DEFINE c == aesd_circular_buffer_get_count(buffer)
             locals == [loc[p] EXCEPT !.count = c]
  <2>1. c \in Nat
    BY <1>4, MaxWriteOpsAssumption DEF aesd_circular_buffer_get_count, Index
  <2>2. Goto(p, "w_advance", locals) /\ UNCHANGED <<open, got, f_pos, ret>>
    BY <1>11 DEF WriteStore
  <2> HIDE DEF c
  <2>3. locals \in Locals
    BY <1>2, <2>1 DEF Locals
  <2> HIDE DEF locals
  <2>4. QED
    BY <1>1, <2>2, <2>3, MoveTypes
<1>12. CASE WriteAdvance(p)
  BY <1>6, <1>12 DEF WriteAdvance
<1>13. CASE WriteCorner(p)
  BY <1>5, <1>13 DEF WriteCorner
<1>14. CASE LlseekLoop(p)
  <2> DEFINE next == (loc[p].index + 1) % MaxWriteOps
             pos == loc[p].pos + buffer.entry[loc[p].index].size
             locals == [loc[p] EXCEPT !.pos = pos, !.index = next]
             label == IF next = loc[p].start THEN "l_set" ELSE "l_loop"
  <2>1. pc[p] = "l_loop" /\ Goto(p, label, locals) /\ UNCHANGED <<open, got, f_pos, ret>>
    BY <1>14 DEF LlseekLoop, device
  <2>2. next \in Index /\ next \in Nat /\ pos \in Nat
    <3>1. loc[p].index \in Index
      BY <1>2, <2>1
    <3>2. next \in Index /\ next \in Nat
      BY <1>4, <3>1, NextIndex
    <3>3. pos \in Nat
      <4>1. loc[p].pos \in Nat /\ buffer.entry[loc[p].index].size \in Nat
        BY <1>3, <1>4, <3>1
      <4>2. \A a, b \in Nat : a + b \in Nat
        OBVIOUS
      <4>3. QED
        BY <4>1, <4>2
    <3>4. QED
      BY <3>2, <3>3
  <2>3. label \in {"l_set", "l_loop"}
    OBVIOUS
  <2> HIDE DEF next, pos, label
  <2>4. locals \in Locals /\ locals.index = next
    BY <1>2, <2>2 DEF Locals
  <2> HIDE DEF locals
  <2>5. QED
    BY <1>1, <2>1, <2>2, <2>3, <2>4, MoveTypes
<1>15. CASE fixed_size_llseek(p)
  <2> DEFINE target == LseekTarget(p, loc[p].pos)
  <2>1. f_pos[p] \in Nat /\ loc[p].off \in Int /\ loc[p].pos \in Nat
    BY <1>2, <1>3
  <2>2. target \in Int
    <3>1. CASE loc[p].whence = "SEEK_SET"
      BY <2>1, <3>1 DEF LseekTarget
    <3>2. CASE loc[p].whence = "SEEK_CUR"
      BY <2>1, <3>2 DEF LseekTarget
    <3>3. CASE loc[p].whence = "SEEK_END"
      BY <2>1, <3>3 DEF LseekTarget
    <3>4. QED
      BY <1>3, <3>1, <3>2, <3>3 DEF Whence
  <2> HIDE DEF target
  <2>3. /\ Return(p, "ok") \/ Return(p, "EINVAL")
        /\ \/ UNCHANGED f_pos
           \/ ~(target < 0) /\ f_pos' = [f_pos EXCEPT ![p] = target]
        /\ UNCHANGED <<open, got>>
    BY <1>15 DEF fixed_size_llseek, target
  <2>4. f_pos' \in [Procs -> Nat]
    BY <1>2, <2>2, <2>3
  <2>5. QED
    BY <1>1, <2>3, <2>4, ReturnTypes
<1>16. CASE IoctlFull(p)
  <2>1. CASE Return(p, "EINVAL")
    BY <1>5, <1>16, <2>1 DEF IoctlFull
  <2>2. CASE (Goto(p, "i_entry", loc[p]) \/ Goto(p, "i_out", loc[p])) /\ UNCHANGED ret
    BY <1>6, <1>16, <2>2 DEF IoctlFull
  <2>3. QED
    BY <1>16, <2>1, <2>2 DEF IoctlFull, CheckCmd
<1>17. CASE IoctlOut(p)
  <2> DEFINE locals == [loc[p] EXCEPT !.start = buffer.out_offs]
  <2>1. /\ pc[p] = "i_out" /\ Goto(p, "i_in", locals)
        /\ UNCHANGED <<open, got, f_pos, ret>>
    BY <1>17 DEF IoctlOut
  <2>2. buffer.out_offs \in Nat
    BY <1>4
  <2>3. locals \in Locals /\ locals.off = loc[p].off
    BY <1>2, <2>2 DEF Locals
  <2> HIDE DEF locals
  <2>4. QED
    BY <1>1, <1>2, <2>1, <2>3, MoveTypes
<1>18. CASE IoctlIn(p)
  <2>1. CASE Return(p, "EINVAL")
    BY <1>5, <1>18, <2>1 DEF IoctlIn
  <2>2. CASE Goto(p, "i_entry", loc[p]) /\ UNCHANGED ret
    BY <1>6, <1>18, <2>2 DEF IoctlIn
  <2>3. QED
    BY <1>18, <2>1, <2>2 DEF IoctlIn, CheckCmd
<1>19. CASE IoctlEntry(p)
  <2> DEFINE entry == buffer.out_offs + loc[p].cmd
             locals == [loc[p] EXCEPT !.entry = entry]
  <2>1. /\ pc[p] = "i_entry" /\ Goto(p, "i_size", locals)
        /\ UNCHANGED <<open, got, f_pos, ret>>
    BY <1>19 DEF IoctlEntry
  <2>2. entry \in Nat
    <3>1. buffer.out_offs \in Nat
      BY <1>4
    <3>2. QED
      BY <1>3, <3>1
  <2> HIDE DEF entry
  <2>3. locals \in Locals /\ locals.off = loc[p].off
    BY <1>2, <2>2 DEF Locals
  <2> HIDE DEF locals
  <2>4. QED
    BY <1>1, <1>2, <2>1, <2>3, MoveTypes
<1>20. CASE IoctlSize(p)
  <2>1. CASE Return(p, "EINVAL")
    BY <1>5, <1>20, <2>1 DEF IoctlSize
  <2>2. CASE Goto(p, "i_start", loc[p]) /\ UNCHANGED ret
    BY <1>6, <1>20, <2>2 DEF IoctlSize
  <2>3. QED
    BY <1>20, <2>1, <2>2 DEF IoctlSize
<1>21. CASE IoctlStart(p)
  <2> DEFINE locals == [loc[p] EXCEPT !.index = buffer.out_offs, !.start = buffer.out_offs]
  <2>1. /\ pc[p] = "i_start" /\ Goto(p, "i_loop", locals)
        /\ UNCHANGED <<open, got, f_pos, ret>>
    BY <1>21 DEF IoctlStart
  <2>2. buffer.out_offs \in Nat
    BY <1>4
  <2>3. locals \in Locals /\ locals.off = loc[p].off /\ locals.index = buffer.out_offs
    BY <1>2, <2>2 DEF Locals
  <2> HIDE DEF locals
  <2>4. QED
    BY <1>1, <1>2, <1>4, <2>1, <2>3, MoveTypes
<1>22. CASE IoctlLoop(p)
  <2> DEFINE next == (loc[p].index + 1) % MaxWriteOps
             pos == loc[p].pos + buffer.entry[loc[p].index].size
             locals == [loc[p] EXCEPT !.pos = pos, !.index = next]
             found == loc[p].pos + loc[p].off
  <2>1. pc[p] = "i_loop" /\ UNCHANGED <<open, got>>
    BY <1>22 DEF IoctlLoop
  <2>2. next \in Index /\ next \in Nat /\ pos \in Nat /\ found \in Nat
    <3>1. loc[p].index \in Index
      BY <1>2, <2>1
    <3>2. next \in Index /\ next \in Nat
      BY <1>4, <3>1, NextIndex
    <3>3. buffer.entry[loc[p].index].size \in Nat /\ loc[p].off \in Nat
      BY <1>2, <1>4, <2>1, <3>1
    <3>4. loc[p].pos \in Nat
      BY <1>3
    <3>5. QED
      BY <3>2, <3>3, <3>4
  <2>3. \/ Return(p, "EINVAL") /\ UNCHANGED f_pos
        \/ Return(p, "ok") /\ f_pos' = [f_pos EXCEPT ![p] = found]
        \/ Goto(p, "i_loop", locals) /\ UNCHANGED <<ret, f_pos>>
    BY <1>22 DEF IoctlLoop
  <2> HIDE DEF next, pos, found
  <2>4. locals \in Locals /\ locals.index = next /\ locals.off = loc[p].off
    BY <1>2, <2>2 DEF Locals
  <2> HIDE DEF locals
  <2>5. CASE Return(p, "EINVAL") /\ UNCHANGED f_pos
    BY <1>5, <2>1, <2>5
  <2>6. CASE Return(p, "ok") /\ f_pos' = [f_pos EXCEPT ![p] = found]
    <3>1. f_pos' \in [Procs -> Nat]
      BY <1>2, <2>2, <2>6
    <3>2. QED
      BY <1>1, <2>1, <2>6, <3>1, ReturnTypes
  <2>7. CASE Goto(p, "i_loop", locals) /\ UNCHANGED <<ret, f_pos>>
    BY <1>1, <1>2, <2>1, <2>2, <2>4, <2>7, MoveTypes
  <2>8. QED
    BY <2>3, <2>5, <2>6, <2>7
<1>23. QED
  BY <1>7, <1>8, <1>9, <1>10, <1>11, <1>12, <1>13, <1>14, <1>15, <1>16, <1>17, <1>18, <1>19,
     <1>20, <1>21, <1>22 DEF Step
-----------------------------------------------------------------------------
(* The device.                                                             *)

DeviceInv == DeviceTypes /\ Phases /\ MemorySafe

\* The parts of MemorySafe.
RingBlocks ==
  \A i \in Index :
    IF buffer.entry[i].buffptr = NULL THEN buffer.entry[i].size = 0
    ELSE /\ heap[buffer.entry[i].buffptr] # Free
         /\ Len(heap[buffer.entry[i].buffptr]) = buffer.entry[i].size

PendingBlock ==
  current_entry.buffptr # NULL =>
    /\ heap[current_entry.buffptr] # Free
    /\ Len(heap[current_entry.buffptr]) = current_entry.size

SlotsDiffer ==
  \A i, j \in Index :
    /\ buffer.entry[i].buffptr # NULL /\ buffer.entry[j].buffptr # NULL
    /\ buffer.entry[i].buffptr = buffer.entry[j].buffptr
    => i = j

PendingDiffers ==
  \A i \in Index :
    buffer.entry[i].buffptr # NULL => buffer.entry[i].buffptr # current_entry.buffptr

SharingWriter == WriterAt("w_advance") \/ WriterAt("w_corner")

(* MemorySafe in these parts.                                              *)
LEMMA MemoryParts ==
  MemorySafe <=> (loaded => /\ RingBlocks /\ PendingBlock /\ SlotsDiffer
                            /\ SharingWriter \/ PendingDiffers)
  BY DEF MemorySafe, RingSlots, RingBlocks, PendingBlock, SlotsDiffer, PendingDiffers,
         SharingWriter, WriterAt

(* The same of the next state.                                             *)
LEMMA NextMemoryParts ==
  ASSUME loaded' => /\ RingBlocks' /\ PendingBlock' /\ SlotsDiffer'
                    /\ SharingWriter' \/ PendingDiffers'
  PROVE  MemorySafe'
  BY DEF MemorySafe, RingSlots, RingBlocks, PendingBlock, SlotsDiffer, PendingDiffers,
         SharingWriter, WriterAt

(* A step that leaves the device alone, and the writer where it is.        *)
LEMMA DeviceKept ==
  ASSUME DeviceInv, UNCHANGED device,
         lock # NULL => pc'[lock] = pc[lock] /\ loc'[lock] = loc[lock]
  PROVE  DeviceInv'
<1>1. UNCHANGED <<loaded, buffer, current_entry, lock, heap>>
  BY DEF device
<1>2. DeviceTypes'
  BY <1>1 DEF DeviceInv, DeviceTypes
<1>3. /\ Publishing' <=> Publishing
      /\ \A label : WriterAt(label)' <=> WriterAt(label)
  BY <1>1 DEF Publishing, WriterAt
<1>4. MemorySafe'
  BY <1>1 DEF DeviceInv, MemorySafe, RingSlots
<1>5. Settled' = Settled /\ Evicted' = Evicted
  BY <1>1 DEF Settled, Evicted, UsedUpTo, AllUsed
<1>6. lock # NULL => Stored' = Stored /\ Advanced' = Advanced
  BY <1>1 DEF Stored, Advanced, UsedUpTo, AllUsed
<1>7. Phases'
  BY <1>1, <1>3, <1>5, <1>6 DEF DeviceInv, Phases, WriterAt, Publishing
<1>8. QED
  BY <1>2, <1>4, <1>7 DEF DeviceInv

(* A process that is not in aesd_write does not hold the lock.             *)
LEMMA NotTheWriter ==
  ASSUME LockInv, DeviceTypes, NEW p \in Procs, pc[p] \notin WriteLabels,
         NEW label, NEW locals, Goto(p, label, locals), loc \in [Procs -> Locals]
  PROVE  lock # NULL => pc'[lock] = pc[lock] /\ loc'[lock] = loc[lock]
  BY DEF LockInv, LockDiscipline, DeviceTypes, Goto

(* The calls leave the device alone, except that aesd_write takes the      *)
(* lock.                                                                   *)
LEMMA CallDevice ==
  ASSUME DriverInv, NEW p \in Procs, Call(p)
  PROVE  DeviceInv'
<1>1. LockInv /\ DeviceTypes /\ ProcTypes /\ DeviceInv
  BY InvParts DEF DeviceInv
<1>2. loc \in [Procs -> Locals]
  BY <1>1 DEF ProcTypes
<1>3. CASE UNCHANGED <<device, pc, loc>>
  BY <1>1, <1>3, DeviceKept
<1>4. aesd_open(p) \/ aesd_release(p) \/ ReadFault(p) \/ IoctlRefused(p)
        => UNCHANGED <<device, pc, loc>>
  BY DEF aesd_open, aesd_release, ReadFault, IoctlRefused
<1>5. \A n \in Counts : aesd_read(p, n) => UNCHANGED <<device, pc, loc>>
  BY DEF aesd_read
<1>6. ASSUME NEW o \in LseekOffsets, NEW w \in Whence, llseek(p, o, w) PROVE DeviceInv'
  BY <1>1, <1>2, <1>6, DeviceKept, NotTheWriter
  DEF llseek, Enter, InUser, WriteLabels, PublishLabels
<1>7. ASSUME NEW c \in SeekCmds, NEW o \in SeekOffsets, unlocked_ioctl(p, c, o)
      PROVE  DeviceInv'
  BY <1>1, <1>2, <1>7, DeviceKept, NotTheWriter
  DEF unlocked_ioctl, Enter, InUser, WriteLabels, PublishLabels
<1>8. ASSUME NEW chunk \in Chunks, aesd_write(p, chunk) PROVE DeviceInv'
  <2>1. /\ lock = NULL /\ lock' = p /\ p # NULL
        /\ UNCHANGED <<loaded, buffer, current_entry, heap>>
        /\ pc'[p] = "w_copy"
    BY <1>1, <1>8, AesdCharAssumption DEF aesd_write, Enter, Goto, ProcTypes
  <2>2. ~Publishing /\ ~Publishing' /\ \A label : WriterAt(label)' <=> label = "w_copy"
    BY <2>1 DEF Publishing, PublishLabels, WriterAt
  <2>3. DeviceTypes'
    BY <1>1, <2>1 DEF DeviceTypes
  <2>4. Settled' = Settled
    BY <2>1 DEF Settled, UsedUpTo, AllUsed
  <2>5. Phases'
    BY <1>1, <2>1, <2>2, <2>4 DEF DeviceInv, Phases
  <2>6. ~SharingWriter
    BY <2>1 DEF SharingWriter, WriterAt
  <2>7. MemorySafe'
    BY <1>1, <2>1, <2>6, MemoryParts DEF DeviceInv, RingBlocks, PendingBlock, SlotsDiffer,
       PendingDiffers, MemorySafe, RingSlots
  <2>8. QED
    BY <2>3, <2>5, <2>7 DEF DeviceInv
<1>9. QED
  BY <1>3, <1>4, <1>5, <1>6, <1>7, <1>8 DEF Call

(* The unlocked functions leave the device alone.                          *)
LEMMA SeekDevice ==
  ASSUME DriverInv, NEW p \in Procs,
         \/ LlseekLoop(p) \/ fixed_size_llseek(p)
         \/ IoctlFull(p) \/ IoctlOut(p) \/ IoctlIn(p) \/ IoctlEntry(p) \/ IoctlSize(p)
         \/ IoctlStart(p) \/ IoctlLoop(p)
  PROVE  DeviceInv'
<1>1. LockInv /\ DeviceTypes /\ ProcTypes /\ DeviceInv
  BY InvParts DEF DeviceInv
<1>2. loc \in [Procs -> Locals]
  BY <1>1 DEF ProcTypes
<1>3. /\ pc[p] \in SeekLabels /\ UNCHANGED device
      /\ \E label, locals : Goto(p, label, locals)
  <2> USE DEF SeekLabels, Return
  <2>1. CASE LlseekLoop(p)
    BY <2>1 DEF LlseekLoop
  <2>2. CASE fixed_size_llseek(p)
    BY <2>2 DEF fixed_size_llseek
  <2>3. CASE IoctlFull(p)
    BY <2>3 DEF IoctlFull, CheckCmd
  <2>4. CASE IoctlOut(p)
    BY <2>4 DEF IoctlOut
  <2>5. CASE IoctlIn(p)
    BY <2>5 DEF IoctlIn, CheckCmd
  <2>6. CASE IoctlEntry(p)
    BY <2>6 DEF IoctlEntry
  <2>7. CASE IoctlSize(p)
    BY <2>7 DEF IoctlSize
  <2>8. CASE IoctlStart(p)
    BY <2>8 DEF IoctlStart
  <2>9. CASE IoctlLoop(p)
    BY <2>9 DEF IoctlLoop
  <2>10. QED
    BY <2>1, <2>2, <2>3, <2>4, <2>5, <2>6, <2>7, <2>8, <2>9
<1>4. pc[p] \notin WriteLabels
  BY <1>3 DEF SeekLabels, WriteLabels, PublishLabels
<1>5. QED
  BY <1>1, <1>2, <1>3, <1>4, DeviceKept, NotTheWriter

(* Where a writer is.                                                      *)
LEMMA WriterHoldsLock ==
  ASSUME DriverInv, NEW p \in Procs, pc[p] \in WriteLabels
  PROVE  /\ lock = p /\ p # NULL /\ loaded
         /\ \A label : WriterAt(label) <=> pc[p] = label
         /\ Publishing <=> pc[p] \in PublishLabels
<1>1. lock = p /\ p # NULL
  BY AesdCharAssumption DEF DriverInv, LockInv, LockDiscipline
<1>2. loaded
  BY DEF DriverInv, LockInv, Residents, WriteLabels, PublishLabels
<1>3. QED
  BY <1>1, <1>2 DEF WriterAt, Publishing

(* The bytes of the pending command are where current_entry says.          *)
LEMMA PendingType ==
  ASSUME DeviceTypes, PendingBlock
  PROVE  PendingBytes \in Seq(Bytes) /\ InsertPos \in Nat /\ Len(PendingBytes) = InsertPos
<1>1. CASE current_entry.buffptr = NULL
  BY <1>1 DEF PendingBytes, InsertPos
<1>2. CASE current_entry.buffptr # NULL
  <2>1. current_entry.buffptr \in Ptrs /\ current_entry.size \in Nat
    BY <1>2 DEF DeviceTypes, EntryType
  <2>2. heap[current_entry.buffptr] \in Seq(Bytes)
    BY <1>2, <2>1 DEF DeviceTypes, PendingBlock
  <2>3. QED
    BY <1>2, <2>1, <2>2 DEF PendingBytes, InsertPos, PendingBlock
<1>3. QED
  BY <1>1, <1>2

(* kmalloc or krealloc, and the copy: the new block is nobody else's, and  *)
(* the old one is given back.                                              *)
LEMMA ExtendStep ==
  ASSUME DriverInv, NEW p \in Procs, pc[p] = "w_copy",
         NEW q \in Ptrs, NEW data \in Seq(Bytes), Extend(q, data),
         UNCHANGED <<loaded, buffer>>,
         lock' = NULL \/ (lock' = p /\ pc'[p] = "w_evict")
  PROVE  /\ DeviceInv'
         /\ heap'[q] = PendingBytes \o data
         /\ current_entry' = [buffptr |-> q, size |-> InsertPos + Len(data)]
         /\ \A i \in Index : Used(buffer.entry[i]) =>
              heap'[buffer.entry[i].buffptr] = heap[buffer.entry[i].buffptr]
<1>1. DeviceTypes /\ Phases /\ MemorySafe
  BY InvParts
<1>2. lock = p /\ p # NULL /\ loaded /\ ~Publishing /\ ~SharingWriter
  BY WriterHoldsLock DEF WriteLabels, PublishLabels, SharingWriter
<1>3. RingBlocks /\ PendingBlock /\ SlotsDiffer /\ PendingDiffers
  BY <1>1, <1>2, MemoryParts
<1>4. PendingBytes \in Seq(Bytes) /\ InsertPos \in Nat /\ Len(PendingBytes) = InsertPos
  BY <1>1, <1>3, PendingType
<1> DEFINE new == PendingBytes \o data
<1>5. new \in Seq(Bytes) /\ Len(new) = InsertPos + Len(data) /\ Len(data) \in Nat
  <2> DEFINE s == PendingBytes
  <2>1. s \in Seq(Bytes) /\ Len(s) = InsertPos
    BY <1>4
  <2> HIDE DEF s
  <2>2. /\ s \o data \in Seq(Bytes) /\ Len(s \o data) = Len(s) + Len(data)
        /\ Len(data) \in Nat
    BY <2>1, ConcatProperties, LenProperties
  <2>3. QED
    BY <2>1, <2>2 DEF s
<1> HIDE DEF new
<1>6. /\ heap[q] = Free \/ q = current_entry.buffptr
      /\ heap' = [r \in Ptrs |-> IF r = q THEN new
                                 ELSE IF r = current_entry.buffptr THEN Free
                                 ELSE heap[r]]
      /\ current_entry' = [buffptr |-> q, size |-> InsertPos + Len(data)]
  BY DEF Extend, new
<1>7. q # NULL
  BY AesdCharAssumption
<1>8. ASSUME NEW i \in Index, Used(buffer.entry[i])
      PROVE  /\ buffer.entry[i].buffptr # q
             /\ heap'[buffer.entry[i].buffptr] = heap[buffer.entry[i].buffptr]
  <2>1. buffer.entry[i].buffptr \in Ptrs /\ heap[buffer.entry[i].buffptr] # Free
    BY <1>1, <1>3, <1>8 DEF DeviceTypes, EntryType, Used, RingBlocks
  <2>2. buffer.entry[i].buffptr # current_entry.buffptr
    BY <1>3, <1>8 DEF PendingDiffers, Used
  <2>3. QED
    BY <1>6, <2>1, <2>2
<1>9. current_entry' \in EntryType
  <2>1. InsertPos + Len(data) \in Nat
    BY <1>4, <1>5
  <2>2. QED
    BY <1>6, <2>1 DEF EntryType
<1>10. heap' \in [Ptrs -> Seq(Bytes) \cup {Free}]
  BY <1>1, <1>5, <1>6 DEF DeviceTypes
<1>11. DeviceTypes'
  BY <1>1, <1>2, <1>9, <1>10 DEF DeviceTypes
<1>12. current_entry'.buffptr = q /\ current_entry'.size = InsertPos + Len(data) /\ heap'[q] = new
  BY <1>6
<1>13. Phases'
  <2>1. Settled' = Settled
    BY DEF Settled, UsedUpTo, AllUsed
  <2>2. Settled
    BY <1>1, <1>2 DEF Phases
  <2>3. /\ ~WriterAt("w_store")' /\ ~WriterAt("w_advance")' /\ ~WriterAt("w_corner")'
    BY <1>2 DEF WriterAt
  <2>4. Used(current_entry)'
    BY <1>7, <1>12 DEF Used
  <2>5. QED
    BY <2>1, <2>2, <2>3, <2>4 DEF Phases
<1>14. RingBlocks'
  BY <1>3, <1>8 DEF RingBlocks, Used
<1>15. PendingBlock'
  <2>1. new # Free
    BY <1>5, AesdCharAssumption
  <2>2. QED
    BY <1>5, <1>12, <2>1 DEF PendingBlock
<1>16. SlotsDiffer'
  BY <1>3 DEF SlotsDiffer
<1>17. PendingDiffers'
  BY <1>8, <1>12 DEF PendingDiffers, Used
<1>18. MemorySafe'
  BY <1>14, <1>15, <1>16, <1>17, NextMemoryParts
<1>19. QED
  BY <1>6, <1>8, <1>11, <1>12, <1>13, <1>18 DEF DeviceInv, new

(* The first step of a write.                                              *)
LEMMA CopyDevice ==
  ASSUME DriverInv, NEW p \in Procs, WriteCopy(p) \/ WriteNoMem(p) \/ WriteFault(p)
  PROVE  DeviceInv'
<1>1. pc[p] = "w_copy"
  BY DEF WriteCopy, WriteNoMem, WriteFault
<1>2. LockInv /\ DeviceTypes /\ ProcTypes /\ Phases /\ MemorySafe
  BY InvParts
<1>3. loc[p].chunk \in Chunks /\ loc[p].chunk \in Seq(Bytes) /\ Len(loc[p].chunk) \in Nat
  <2>1. loc[p].chunk \in Chunks
    BY <1>1, <1>2 DEF ProcTypes, LocalsFit
  <2>2. QED
    BY <2>1, AesdCharAssumption
<1>4. CASE WriteCopy(p)
  <2>1. PICK q \in Ptrs : Extend(q, loc[p].chunk)
    BY <1>4 DEF WriteCopy
  <2>2. lock = p /\ UNCHANGED <<loaded, buffer>>
    BY <1>1, <1>4, WriterHoldsLock DEF WriteCopy, WriteLabels
  <2>3. lock' = NULL \/ (lock' = p /\ pc'[p] = "w_evict")
    BY <1>2, <1>4, <2>2 DEF WriteCopy, Goto, ProcTypes
  <2>4. QED
    BY <1>1, <1>3, <2>1, <2>2, <2>3, ExtendStep
<1>5. CASE WriteFault(p)
  <2>1. PICK q \in Ptrs, n \in 0 .. Len(loc[p].chunk) - 1 :
          Extend(q, [i \in DOMAIN loc[p].chunk |-> IF i <= n THEN loc[p].chunk[i] ELSE Zero])
    BY <1>5 DEF WriteFault
  <2> DEFINE c == loc[p].chunk
             data == [i \in DOMAIN c |-> IF i <= n THEN c[i] ELSE Zero]
  <2>2. data \in Seq(Bytes)
    <3>1. c \in Seq(Bytes) /\ Zero \in Bytes
      BY <1>3, AesdCharAssumption
    <3> HIDE DEF c
    <3>2. DOMAIN c = 1 .. Len(c) /\ Len(c) \in Nat /\ \A i \in 1 .. Len(c) : c[i] \in Bytes
      BY <3>1
    <3>3. QED
      BY <3>1, <3>2
  <2>3. UNCHANGED <<loaded, buffer>> /\ lock' = NULL
    BY <1>5 DEF WriteFault
  <2> HIDE DEF data
  <2>4. Extend(q, data)
    BY <2>1 DEF data
  <2>5. QED
    BY <1>1, <2>2, <2>3, <2>4, ExtendStep
<1>6. CASE WriteNoMem(p)
  <2>1. lock = p /\ loaded /\ ~Publishing /\ ~SharingWriter
    BY <1>1, WriterHoldsLock DEF WriteLabels, PublishLabels, SharingWriter
  <2>2. /\ UNCHANGED <<loaded, buffer, heap>> /\ lock' = NULL
        /\ current_entry' = [buffptr |-> NULL, size |-> InsertPos + Len(loc[p].chunk)]
    BY <1>6 DEF WriteNoMem
  <2>3. RingBlocks /\ PendingBlock /\ SlotsDiffer /\ PendingDiffers
    BY <1>2, <2>1, MemoryParts
  <2>4. InsertPos \in Nat
    BY <1>2, <2>3, PendingType
  <2>5. current_entry' \in EntryType
    <3>1. InsertPos + Len(loc[p].chunk) \in Nat
      BY <1>3, <2>4
    <3>2. QED
      BY <2>2, <3>1 DEF EntryType
  <2>6. DeviceTypes'
    BY <1>2, <2>2, <2>5 DEF DeviceTypes
  <2>7. ~Publishing' /\ \A label : ~WriterAt(label)'
    BY <2>2 DEF Publishing, WriterAt
  <2>8. Settled /\ Settled' = Settled
    BY <1>2, <2>1, <2>2 DEF Phases, Settled, UsedUpTo, AllUsed
  <2>9. Phases'
    BY <2>7, <2>8 DEF Phases
  <2>10. current_entry'.buffptr = NULL
    BY <2>2
  <2>11. RingBlocks' /\ SlotsDiffer' /\ PendingBlock' /\ PendingDiffers'
    BY <2>2, <2>3, <2>10 DEF RingBlocks, SlotsDiffer, PendingBlock, PendingDiffers
  <2>12. MemorySafe'
    BY <2>11, NextMemoryParts
  <2>13. QED
    BY <2>6, <2>9, <2>12 DEF DeviceInv
<1>7. QED
  BY <1>4, <1>5, <1>6

(* get_count on a ring whose in_offs and out_offs are in place.            *)
LEMMA CountInPlace ==
  ASSUME DeviceTypes, ~buffer.full => buffer.out_offs = 0
  PROVE  /\ buffer.full => aesd_circular_buffer_get_count(buffer) = MaxWriteOps
         /\ ~buffer.full => /\ aesd_circular_buffer_get_count(buffer) = buffer.in_offs
                            /\ buffer.in_offs # MaxWriteOps
<1>1. buffer.in_offs \in Index /\ MaxWriteOps \in Nat
  BY MaxWriteOpsAssumption DEF DeviceTypes
<1>2. QED
  BY <1>1 DEF aesd_circular_buffer_get_count, Index

(* The oldest buffer is freed, and no other entry has it.                  *)
LEMMA EvictDevice ==
  ASSUME DriverInv, NEW p \in Procs, WriteEvict(p)
  PROVE  DeviceInv'
<1>1. pc[p] = "w_evict" /\ UNCHANGED <<loaded, current_entry, lock>>
  BY DEF WriteEvict
<1>2. LockInv /\ DeviceTypes /\ ProcTypes /\ Phases /\ MemorySafe
  BY InvParts
<1>3. lock = p /\ p # NULL /\ loaded /\ WriterAt("w_evict") /\ Publishing /\ ~SharingWriter
  BY <1>1, WriterHoldsLock DEF WriteLabels, PublishLabels, SharingWriter
<1>4. Settled /\ Used(current_entry)
  BY <1>2, <1>3 DEF Phases
<1>5. RingBlocks /\ PendingBlock /\ SlotsDiffer /\ PendingDiffers
  BY <1>2, <1>3, MemoryParts
<1>6. pc'[p] = "w_store"
  BY <1>2 DEF WriteEvict, Goto, ProcTypes
<1>7. Phases' <=> Evicted' /\ Used(current_entry)'
  BY <1>1, <1>3, <1>6 DEF Phases, WriterAt, Publishing, PublishLabels
<1>8. CASE ~buffer.full
  <2>1. UNCHANGED <<buffer, heap>>
    BY <1>2, <1>4, <1>8, CountInPlace DEF WriteEvict, Settled
  <2>2. DeviceTypes' /\ RingBlocks' /\ PendingBlock' /\ SlotsDiffer' /\ PendingDiffers'
    BY <1>1, <1>2, <1>5, <2>1
    DEF DeviceTypes, RingBlocks, PendingBlock, SlotsDiffer, PendingDiffers
  <2>3. Evicted' /\ Used(current_entry)'
    BY <1>1, <1>4, <1>8, <2>1 DEF Settled, Evicted, UsedUpTo, Used
  <2>4. QED
    BY <1>7, <2>2, <2>3, NextMemoryParts DEF DeviceInv
<1>9. CASE buffer.full
  <2> DEFINE o == buffer.in_offs
             r == buffer.entry[o].buffptr
  <2>1. /\ heap' = [heap EXCEPT ![r] = Free]
        /\ buffer' = [buffer EXCEPT !.entry[o] = EmptyEntry]
    BY <1>2, <1>9, CountInPlace DEF WriteEvict
  <2>2. o \in Index /\ r \in Ptrs
    BY <1>2, <1>4, <1>9 DEF DeviceTypes, EntryType, Settled, AllUsed, Used
  <2>3. /\ buffer'.entry = [buffer.entry EXCEPT ![o] = EmptyEntry]
        /\ buffer'.in_offs = o /\ buffer'.out_offs = buffer.out_offs /\ buffer'.full
    BY <1>2, <1>9, <2>1 DEF DeviceTypes
  <2>4. EmptyEntry \in EntryType /\ EmptyEntry.buffptr = NULL /\ EmptyEntry.size = 0
    BY DEF EmptyEntry, EntryType
  <2>5. buffer' \in [entry: [Index -> EntryType], in_offs: Index, out_offs: Index,
                     full: BOOLEAN]
    BY <1>2, <2>1, <2>2, <2>4 DEF DeviceTypes
  <2>6. DeviceTypes'
    BY <1>1, <1>2, <2>1, <2>2, <2>5 DEF DeviceTypes
  <2>7. /\ buffer'.entry[o] = EmptyEntry
        /\ \A i \in Index \ {o} : /\ buffer'.entry[i] = buffer.entry[i]
                                  /\ buffer.entry[i].buffptr # NULL
                                  /\ buffer.entry[i].buffptr \in Ptrs \ {r}
    BY <1>2, <1>4, <1>5, <1>9, <2>2, <2>3
    DEF DeviceTypes, EntryType, Settled, AllUsed, Used, SlotsDiffer
  <2>8. Evicted' /\ Used(current_entry)'
    BY <1>1, <1>4, <1>9, <2>3, <2>7 DEF Settled, Evicted, Used
  <2>9. /\ current_entry.buffptr \in Ptrs \ {r}
    BY <1>2, <1>4, <1>5, <2>2 DEF DeviceTypes, EntryType, Used, PendingDiffers
  <2>10. \A x \in Ptrs \ {r} : heap'[x] = heap[x]
    BY <1>2, <2>1 DEF DeviceTypes
  <2> HIDE DEF r, o
  <2>11. PendingBlock'
    BY <1>1, <1>5, <2>9, <2>10 DEF PendingBlock
  <2>12. RingBlocks'
    BY <1>5, <2>4, <2>7, <2>10 DEF RingBlocks
  <2>13. SlotsDiffer' /\ PendingDiffers'
    BY <1>1, <1>5, <2>2, <2>4, <2>7 DEF SlotsDiffer, PendingDiffers
  <2>14. QED
    BY <1>7, <2>6, <2>8, <2>11, <2>12, <2>13, NextMemoryParts DEF DeviceInv
<1>10. QED
  BY <1>8, <1>9

(* The first store of add_entry: the pending block is now in the ring too. *)
LEMMA StoreDevice ==
  ASSUME DriverInv, NEW p \in Procs, WriteStore(p)
  PROVE  DeviceInv'
<1>1. pc[p] = "w_store" /\ UNCHANGED <<loaded, current_entry, lock, heap>>
  BY DEF WriteStore
<1>2. LockInv /\ DeviceTypes /\ ProcTypes /\ Phases /\ MemorySafe
  BY InvParts
<1>3. lock = p /\ p # NULL /\ loaded /\ WriterAt("w_store") /\ Publishing /\ ~SharingWriter
  BY <1>1, WriterHoldsLock DEF WriteLabels, PublishLabels, SharingWriter
<1>4. Evicted /\ Used(current_entry)
  BY <1>2, <1>3 DEF Phases
<1>5. RingBlocks /\ PendingBlock /\ SlotsDiffer /\ PendingDiffers
  BY <1>2, <1>3, MemoryParts
<1> DEFINE o == buffer.in_offs
           c == aesd_circular_buffer_get_count(buffer)
<1>6. pc'[p] = "w_advance" /\ loc'[p].count = c
  <2>1. /\ pc' = [pc EXCEPT ![p] = "w_advance"]
        /\ loc' = [loc EXCEPT ![p] = [loc[p] EXCEPT !.count = c]]
    BY DEF WriteStore, Goto
  <2> HIDE DEF c
  <2>2. pc \in [Procs -> Labels] /\ loc \in [Procs -> Locals]
    BY <1>2 DEF ProcTypes
  <2>3. loc[p] \in Locals
    BY <2>2
  <2>4. QED
    BY <2>1, <2>2, <2>3 DEF Locals
<1>7. Phases' <=> Stored' /\ Used(current_entry)'
  BY <1>1, <1>3, <1>6 DEF Phases, WriterAt, Publishing, PublishLabels
<1>8. IF buffer.full THEN c = MaxWriteOps ELSE c = o
  BY <1>2, <1>4, CountInPlace DEF Evicted
<1>9. o \in Index /\ o \in Nat
  BY <1>2, MaxWriteOpsAssumption DEF DeviceTypes, Index
<1>10. /\ buffer'.entry = [buffer.entry EXCEPT ![o] = current_entry]
       /\ buffer'.in_offs = o /\ buffer'.out_offs = buffer.out_offs
       /\ buffer'.full = buffer.full
  BY <1>2 DEF WriteStore, StoreEntry, DeviceTypes
<1>11. buffer' \in [entry: [Index -> EntryType], in_offs: Index, out_offs: Index,
                    full: BOOLEAN]
  BY <1>2, <1>9 DEF WriteStore, StoreEntry, DeviceTypes
<1>12. DeviceTypes'
  BY <1>1, <1>2, <1>11 DEF DeviceTypes
<1>13. /\ buffer'.entry[o] = current_entry
       /\ \A i \in Index \ {o} : buffer'.entry[i] = buffer.entry[i]
  BY <1>2, <1>9, <1>10 DEF DeviceTypes
<1> HIDE DEF c
<1>14. Stored'
  <2>1. CASE buffer.full
    BY <1>1, <1>3, <1>4, <1>6, <1>8, <1>10, <1>13, <2>1 DEF Stored, Evicted, AllUsed
  <2>2. CASE ~buffer.full
    <3>1. UsedUpTo(o + 1)'
      <4> SUFFICES ASSUME NEW i \in Index
                   PROVE  IF i < o + 1 THEN Used(buffer'.entry[i])
                          ELSE buffer'.entry[i] = EmptyEntry
        BY <1>10 DEF UsedUpTo
      <4>1. i \in Nat
        BY MaxWriteOpsAssumption DEF Index
      <4>2. CASE i = o
        BY <1>4, <1>9, <1>13, <4>2
      <4>3. CASE i # o
        <5>1. i < o + 1 <=> i < o
          BY <1>9, <4>1, <4>3
        <5>2. QED
          BY <1>4, <1>13, <2>2, <4>3, <5>1 DEF Evicted, UsedUpTo
      <4>4. QED
        BY <4>2, <4>3
    <3>2. QED
      BY <1>1, <1>3, <1>4, <1>6, <1>8, <1>10, <1>13, <2>2, <3>1 DEF Stored, Evicted
  <2>3. QED
    BY <2>1, <2>2
<1>15. Used(current_entry)' /\ PendingBlock'
  BY <1>1, <1>4, <1>5 DEF Used, PendingBlock
<1>16. RingBlocks'
  <2> SUFFICES ASSUME NEW i \in Index
               PROVE  IF buffer'.entry[i].buffptr = NULL THEN buffer'.entry[i].size = 0
                      ELSE /\ heap[buffer'.entry[i].buffptr] # Free
                           /\ Len(heap[buffer'.entry[i].buffptr]) = buffer'.entry[i].size
    BY <1>1 DEF RingBlocks
  <2> HIDE DEF o
  <2>1. CASE i = o
    BY <1>4, <1>5, <1>13, <2>1 DEF PendingBlock, Used
  <2>2. CASE i # o
    BY <1>5, <1>13, <2>2 DEF RingBlocks
  <2>3. QED
    BY <2>1, <2>2
<1>17. SlotsDiffer'
  <2> SUFFICES ASSUME NEW i \in Index, NEW j \in Index,
                      buffer'.entry[i].buffptr # NULL, buffer'.entry[j].buffptr # NULL,
                      buffer'.entry[i].buffptr = buffer'.entry[j].buffptr
               PROVE  i = j
    BY DEF SlotsDiffer
  <2> HIDE DEF o
  <2>1. CASE i # o /\ j # o
    BY <1>5, <1>13, <2>1 DEF SlotsDiffer
  <2>2. CASE i = o /\ j # o
    BY <1>5, <1>13, <2>2 DEF PendingDiffers
  <2>3. CASE i # o /\ j = o
    BY <1>5, <1>13, <2>3 DEF PendingDiffers
  <2>4. QED
    BY <2>1, <2>2, <2>3
<1>18. SharingWriter'
  BY <1>1, <1>3, <1>6 DEF SharingWriter, WriterAt
<1>19. QED
  BY <1>7, <1>12, <1>14, <1>15, <1>16, <1>17, <1>18, NextMemoryParts DEF DeviceInv

(* The second store of add_entry.                                          *)
LEMMA AdvanceDevice ==
  ASSUME DriverInv, NEW p \in Procs, WriteAdvance(p)
  PROVE  DeviceInv'
<1>1. pc[p] = "w_advance" /\ UNCHANGED <<loaded, current_entry, lock, heap>>
  BY DEF WriteAdvance
<1>2. LockInv /\ DeviceTypes /\ ProcTypes /\ Phases /\ MemorySafe
  BY InvParts
<1>3. lock = p /\ p # NULL /\ loaded /\ WriterAt("w_advance") /\ Publishing
  BY <1>1, WriterHoldsLock DEF WriteLabels, PublishLabels
<1>4. Stored /\ Used(current_entry)
  BY <1>2, <1>3 DEF Phases
<1>5. RingBlocks /\ PendingBlock /\ SlotsDiffer
  BY <1>2, <1>3, MemoryParts
<1>6. pc'[p] = "w_corner" /\ loc'[p] = loc[p]
  BY <1>2 DEF WriteAdvance, Goto, ProcTypes
<1>7. Phases' <=> Advanced' /\ Used(current_entry)'
  BY <1>1, <1>3, <1>6 DEF Phases, WriterAt, Publishing, PublishLabels
<1> DEFINE next == (buffer.in_offs + 1) % MaxWriteOps
<1>8. buffer.in_offs \in Index /\ next \in Index
  BY <1>2, NextIndex DEF DeviceTypes
<1>9. buffer' = [buffer EXCEPT !.in_offs = next]
  BY DEF WriteAdvance, AdvanceIn
<1> HIDE DEF next
<1>10. /\ buffer'.entry = buffer.entry
       /\ buffer'.in_offs = next /\ buffer'.out_offs = buffer.out_offs
       /\ buffer'.full = buffer.full
  BY <1>2, <1>9 DEF DeviceTypes
<1>11. buffer' \in [entry: [Index -> EntryType], in_offs: Index, out_offs: Index,
                    full: BOOLEAN]
  BY <1>2, <1>8, <1>9 DEF DeviceTypes
<1>12. DeviceTypes'
  BY <1>1, <1>2, <1>11 DEF DeviceTypes
<1>13. Advanced'
  BY <1>1, <1>3, <1>4, <1>6, <1>8, <1>10 DEF Advanced, Stored, UsedUpTo, AllUsed, next
<1>14. Used(current_entry)' /\ PendingBlock' /\ RingBlocks' /\ SlotsDiffer'
  BY <1>1, <1>4, <1>5, <1>10 DEF Used, PendingBlock, RingBlocks, SlotsDiffer
<1>15. SharingWriter'
  BY <1>1, <1>3, <1>6 DEF SharingWriter, WriterAt
<1>16. QED
  BY <1>7, <1>12, <1>13, <1>14, <1>15, NextMemoryParts DEF DeviceInv

(* The last store of add_entry; current_entry gives up its block.          *)
LEMMA CornerDevice ==
  ASSUME DriverInv, NEW p \in Procs, WriteCorner(p)
  PROVE  DeviceInv'
<1>1. /\ pc[p] = "w_corner" /\ UNCHANGED <<loaded, heap>>
      /\ lock' = NULL /\ current_entry' = EmptyEntry
  BY DEF WriteCorner
<1>2. LockInv /\ DeviceTypes /\ ProcTypes /\ Phases /\ MemorySafe
  BY InvParts
<1>3. lock = p /\ p # NULL /\ loaded /\ WriterAt("w_corner")
  BY <1>1, WriterHoldsLock DEF WriteLabels, PublishLabels
<1>4. Advanced
  BY <1>2, <1>3 DEF Phases
<1>5. RingBlocks /\ SlotsDiffer
  BY <1>2, <1>3, MemoryParts
<1>6. Phases' <=> Settled'
  BY <1>1, <1>3 DEF Phases, WriterAt, Publishing
<1> DEFINE c == loc[lock].count
<1>7. buffer' = CornerCases(buffer, c)
  BY <1>3 DEF WriteCorner
<1>8. MaxWriteOps \in Nat /\ MaxWriteOps > 0 /\ 0 \in Index
  BY MaxWriteOpsAssumption DEF Index
<1>9. EmptyEntry \in EntryType /\ EmptyEntry.buffptr = NULL
  BY DEF EmptyEntry, EntryType
<1>10. CASE buffer.full
  <2>1. buffer' = [buffer EXCEPT !.out_offs = buffer.in_offs]
    BY <1>4, <1>7, <1>8, <1>10 DEF CornerCases, Advanced
  <2>2. /\ buffer'.entry = buffer.entry /\ buffer'.in_offs = buffer.in_offs
        /\ buffer'.out_offs = buffer.in_offs /\ buffer'.full
    BY <1>2, <1>10, <2>1 DEF DeviceTypes
  <2>3. DeviceTypes'
    BY <1>1, <1>2, <1>9, <2>1 DEF DeviceTypes
  <2>4. Settled'
    BY <1>4, <1>10, <2>2 DEF Advanced, Settled, AllUsed
  <2>5. RingBlocks' /\ SlotsDiffer' /\ PendingBlock' /\ PendingDiffers'
    BY <1>1, <1>5, <1>9, <2>2 DEF RingBlocks, SlotsDiffer, PendingBlock, PendingDiffers
  <2>6. QED
    BY <1>6, <2>3, <2>4, <2>5, NextMemoryParts DEF DeviceInv
<1>11. CASE ~buffer.full
  <2>1. c \in Index /\ c \in Nat /\ c < MaxWriteOps
    BY <1>4, <1>8, <1>11 DEF Advanced, Index
  <2>2. buffer' = [buffer EXCEPT !.full = buffer.full \/ c + 1 = MaxWriteOps]
    BY <1>7, <2>1 DEF CornerCases
  <2>3. /\ buffer'.entry = buffer.entry /\ buffer'.in_offs = buffer.in_offs
        /\ buffer'.out_offs = 0 /\ (buffer'.full <=> c + 1 = MaxWriteOps)
    BY <1>2, <1>4, <1>11, <2>2 DEF DeviceTypes, Advanced
  <2>4. DeviceTypes'
    BY <1>1, <1>2, <1>9, <2>2 DEF DeviceTypes
  <2>5. buffer.in_offs = IF c + 1 = MaxWriteOps THEN 0 ELSE c + 1
    <3>1. buffer.in_offs = (c + 1) % MaxWriteOps
      BY <1>4, <1>11 DEF Advanced
    <3> HIDE DEF c
    <3>2. QED
      BY <1>8, <2>1, <3>1, WrapOnce
  <2>6. UsedUpTo(c + 1)
    BY <1>4, <1>11 DEF Advanced
  <2>7. Settled'
    <3>1. CASE c + 1 = MaxWriteOps
      <4>1. \A i \in Index : i < c + 1
        BY <1>8, <3>1 DEF Index
      <4>2. AllUsed'
        BY <2>3, <2>6, <4>1 DEF AllUsed, UsedUpTo
      <4>3. QED
        BY <2>3, <2>5, <3>1, <4>2 DEF Settled
    <3>2. CASE c + 1 # MaxWriteOps
      <4>1. ~buffer'.full /\ buffer'.in_offs = c + 1
        BY <2>3, <2>5, <3>2
      <4>2. \A i \in Index : IF i < c + 1 THEN Used(buffer'.entry[i])
                             ELSE buffer'.entry[i] = EmptyEntry
        BY <2>3, <2>6 DEF UsedUpTo
      <4> HIDE DEF c
      <4>3. QED
        BY <2>3, <4>1, <4>2 DEF Settled, UsedUpTo
    <3>3. QED
      BY <3>1, <3>2
  <2>8. RingBlocks' /\ SlotsDiffer' /\ PendingBlock' /\ PendingDiffers'
    BY <1>1, <1>5, <1>9, <2>3 DEF RingBlocks, SlotsDiffer, PendingBlock, PendingDiffers
  <2>9. QED
    BY <1>6, <2>4, <2>7, <2>8, NextMemoryParts DEF DeviceInv
<1>12. QED
  BY <1>10, <1>11

(* With the module not loaded, or nobody using it, the lock is free.       *)
LEMMA NobodyInside ==
  ASSUME LockInv, DeviceTypes, open = {}
  PROVE  /\ lock = NULL
         /\ ~Publishing /\ \A label : ~WriterAt(label)
<1>1. lock = NULL
  BY DEF LockInv, LockDiscipline, Residents, DeviceTypes, WriteLabels, PublishLabels
<1>2. QED
  BY <1>1 DEF Publishing, WriterAt

\* The state aesd_init_module starts with.
Fresh ==
  /\ buffer = aesd_circular_buffer_init /\ current_entry = EmptyEntry /\ lock = NULL
  /\ loaded \in BOOLEAN /\ heap \in [Ptrs -> Seq(Bytes) \cup {Free}]

(* The device is fine with an empty ring and no pending command.           *)
LEMMA FreshDevice == Fresh => DeviceInv
<1> SUFFICES ASSUME Fresh PROVE DeviceInv
  OBVIOUS
<1> USE DEF Fresh
<1>1. 0 \in Index /\ \A i \in Index : ~(i < 0)
  BY MaxWriteOpsAssumption DEF Index
<1>2. EmptyEntry \in EntryType /\ EmptyEntry.buffptr = NULL /\ EmptyEntry.size = 0
  BY DEF EmptyEntry, EntryType
<1>3. /\ buffer.entry = [i \in Index |-> EmptyEntry] /\ ~buffer.full
      /\ buffer.in_offs = 0 /\ buffer.out_offs = 0
      /\ buffer \in [entry: [Index -> EntryType], in_offs: Index, out_offs: Index,
                     full: BOOLEAN]
  BY <1>1, <1>2 DEF aesd_circular_buffer_init
<1>4. \A i \in Index : buffer.entry[i] = EmptyEntry
  BY <1>3
<1>5. DeviceTypes
  BY <1>2, <1>3 DEF DeviceTypes
<1>6. Settled
  BY <1>1, <1>3, <1>4 DEF Settled, UsedUpTo
<1>7. Phases
  BY <1>6 DEF Phases, WriterAt, Publishing
<1>8. RingBlocks /\ PendingBlock /\ SlotsDiffer /\ PendingDiffers
  BY <1>2, <1>4 DEF RingBlocks, PendingBlock, SlotsDiffer, PendingDiffers
<1>9. MemorySafe
  BY <1>8, MemoryParts
<1>10. QED
  BY <1>5, <1>7, <1>9 DEF DeviceInv

(* Loading and unloading.                                                  *)
LEMMA ModuleDevice ==
  ASSUME DriverInv, aesd_init_module \/ aesd_cleanup_module
  PROVE  DeviceInv' /\ ProcTypes'
<1>1. LockInv /\ DeviceTypes /\ ProcTypes
  BY InvParts
<1>2. UNCHANGED <<open, f_pos, pc, loc, ret, got>>
  BY DEF aesd_init_module, aesd_cleanup_module
<1>3. ProcTypes'
  BY <1>1, <1>2 DEF ProcTypes, LocalsFit
<1>4. CASE aesd_init_module
  <2>1. Fresh'
    BY <1>1, <1>4 DEF aesd_init_module, DeviceTypes, Fresh
  <2>2. (Fresh => DeviceInv)'
    BY FreshDevice, PTL
  <2>3. QED
    BY <1>3, <2>1, <2>2
<1>5. CASE aesd_cleanup_module
  <2> DEFINE freed == {current_entry.buffptr} \cup
                      {buffer.entry[i].buffptr : i \in CleanedSlots}
  <2>1. /\ open = {} /\ ~loaded' /\ loaded' \in BOOLEAN /\ UNCHANGED <<current_entry, lock, pc>>
        /\ heap' = [q \in Ptrs |-> IF q \in freed THEN Free ELSE heap[q]]
        /\ buffer' = [buffer EXCEPT !.entry =
                        [i \in Index |-> IF i \in CleanedSlots THEN EmptyEntry
                                         ELSE buffer.entry[i]]]
    BY <1>5 DEF aesd_cleanup_module
  <2> HIDE DEF freed
  <2>2. heap' \in [Ptrs -> Seq(Bytes) \cup {Free}]
    BY <1>1, <2>1 DEF DeviceTypes
  <2>3. EmptyEntry \in EntryType
    BY DEF EmptyEntry, EntryType
  <2>4. buffer' \in [entry: [Index -> EntryType], in_offs: Index, out_offs: Index,
                     full: BOOLEAN]
    BY <1>1, <2>1, <2>3 DEF DeviceTypes
  <2>5. DeviceTypes'
    BY <1>1, <2>1, <2>2, <2>4 DEF DeviceTypes
  <2>6. lock' = NULL
    BY <1>1, <2>1, NobodyInside
  <2>7. Phases' /\ MemorySafe'
    BY <2>1, <2>6 DEF Phases, WriterAt, Publishing, MemorySafe
  <2>8. QED
    BY <1>3, <2>5, <2>7 DEF DeviceInv
<1>6. QED
  BY <1>3, <1>4, <1>5

(* DriverInv holds before the module is loaded.                            *)
LEMMA InitDriver == Init => DriverInv
<1> SUFFICES ASSUME Init PROVE DriverInv
  OBVIOUS
<1>1. DeviceInv
  BY FreshDevice DEF Init, Fresh
<1>2. ProcTypes
  <2>1. <<>> \in Seq(Bytes) /\ NoLocals \in Locals
    BY NoLocalsType
  <2>2. QED
    BY <2>1 DEF Init, ProcTypes, LocalsFit, Labels, IoctlLabels, Statuses
<1>3. QED
  BY <1>1, <1>2, InitLock, InvParts DEF DeviceInv

(* Every step keeps it.                                                    *)
LEMMA DriverStep == DriverInv /\ [Next]_vars => DriverInv'
<1> SUFFICES ASSUME DriverInv, [Next]_vars PROVE DriverInv'
  OBVIOUS
<1>1. LockInv /\ DeviceInv /\ ProcTypes
  BY InvParts DEF DeviceInv
<1>2. LockInv' /\ DeviceInv' /\ ProcTypes'
  <2>1. CASE UNCHANGED vars
    <3>1. /\ UNCHANGED <<device, pc, loc>>
          /\ UNCHANGED <<loaded, buffer, current_entry, lock, heap, open, f_pos, ret, got>>
      BY <2>1 DEF vars, device
    <3>2. LockInv'
      BY <1>1, <3>1 DEF LockInv, LockDiscipline, Residents
    <3>3. ProcTypes'
      BY <1>1, <3>1 DEF ProcTypes, LocalsFit
    <3>4. DeviceInv'
      BY <1>1, <3>1, DeviceKept
    <3>5. QED
      BY <3>2, <3>3, <3>4
  <2>2. CASE aesd_init_module \/ aesd_cleanup_module
    BY <1>1, <2>2, ModuleLock, ModuleDevice
  <2>3. ASSUME NEW p \in Procs, Call(p)
        PROVE  LockInv' /\ DeviceInv' /\ ProcTypes'
    BY <1>1, <2>3, CallLock, CallTypes, CallDevice
  <2>4. ASSUME NEW p \in Procs, Step(p)
        PROVE  LockInv' /\ DeviceInv' /\ ProcTypes'
    <3>1. DeviceInv'
      BY <2>4, CopyDevice, EvictDevice, StoreDevice, AdvanceDevice, CornerDevice, SeekDevice
      DEF Step
    <3>2. QED
      BY <1>1, <2>4, <3>1, StepLock, StepTypes
  <2>5. QED
    BY <2>1, <2>2, <2>3, <2>4 DEF Next
<1>3. QED
  BY <1>2 DEF DriverInv, DeviceInv, TypeOK, DeviceTypes, ProcTypes, Labels, Statuses

(* Whatever processes do to the device at once, and whichever allocation   *)
(* or copy fails, every entry of the ring and the pending one own a block  *)
(* of exactly their size and no block has two owners: aesd_read never      *)
(* reads freed memory and no kfree frees a block twice.                    *)
THEOREM MemoryIsSafe == Spec => []MemorySafe
<1>1. DriverInv => MemorySafe
  BY DEF DriverInv
<1>2. QED
  BY InitDriver, DriverStep, <1>1, PTL DEF Spec
-----------------------------------------------------------------------------
(* Nothing is leaked.                                                      *)

\* The block q has an owner.
Owned(q) ==
  loaded /\ (current_entry.buffptr = q \/ \E i \in Index : buffer.entry[i].buffptr = q)

AllOwned == AllocMayFail \/ \A q \in Ptrs : heap[q] # Free => Owned(q)

(* NoLeak in these terms.                                                  *)
LEMMA NoLeakParts == NoLeak <=> AllOwned
  BY AesdCharAssumption DEF NoLeak, AllOwned, Owned, RingSlots

(* aesd_cleanup_module visits every slot that has a block.                 *)
LEMMA CleanedAreUsed ==
  ASSUME DeviceTypes, Settled, NEW i \in Index, Used(buffer.entry[i])
  PROVE  i \in CleanedSlots
<1>1. MaxWriteOps \in Nat /\ MaxWriteOps > 0 /\ i \in Nat /\ i < MaxWriteOps
  BY MaxWriteOpsAssumption DEF Index
<1>2. CASE buffer.full
  <2>1. PICK k \in Index : Slot(buffer, k) = i
    BY SlotIsBijective DEF DeviceTypes
  <2>2. aesd_circular_buffer_get_count(buffer) = MaxWriteOps
    BY <1>2 DEF aesd_circular_buffer_get_count
  <2>3. QED
    BY <2>1, <2>2 DEF CleanedSlots, Slot, Index
<1>3. CASE ~buffer.full
  <2> DEFINE n == buffer.in_offs
  <2>1. buffer.out_offs = 0 /\ n \in Nat
    BY <1>3, MaxWriteOpsAssumption DEF Settled, DeviceTypes, Index
  <2>2. aesd_circular_buffer_get_count(buffer) = n
    BY <1>3, <2>1, CountInPlace
  <2>3. i < n
    <3>1. EmptyEntry.buffptr = NULL
      BY DEF EmptyEntry
    <3>2. QED
      BY <1>3, <3>1 DEF Settled, UsedUpTo, Used
  <2> HIDE DEF n
  <2>4. (0 + i) % n = i /\ i \in 0 .. n - 1
    BY <1>1, <2>1, <2>3
  <2>5. QED
    BY <2>1, <2>2, <2>4 DEF CleanedSlots
<1>4. QED
  BY <1>2, <1>3

(* Loading starts with nothing allocated, unloading gives everything back. *)
LEMMA ModuleOwned ==
  ASSUME DriverInv, AllOwned, aesd_init_module \/ aesd_cleanup_module
  PROVE  AllOwned'
<1>1. LockInv /\ DeviceTypes /\ Phases
  BY InvParts
<1>2. CASE aesd_init_module
  BY <1>2 DEF aesd_init_module, AllOwned, Owned
<1>3. CASE aesd_cleanup_module
  <2>1. loaded /\ open = {}
    BY <1>3 DEF aesd_cleanup_module
  <2>2. Settled
    BY <1>1, <2>1, NobodyInside DEF Phases
  <2> DEFINE freed == {current_entry.buffptr} \cup
                      {buffer.entry[i].buffptr : i \in CleanedSlots}
  <2>3. heap' = [q \in Ptrs |-> IF q \in freed THEN Free ELSE heap[q]]
    BY <1>3 DEF aesd_cleanup_module
  <2> SUFFICES ASSUME ~AllocMayFail, NEW q \in Ptrs PROVE heap'[q] = Free
    BY DEF AllOwned
  <2>4. CASE q \in freed
    BY <2>3, <2>4
  <2>5. CASE q \notin freed
    <3>1. current_entry.buffptr # q
      BY <2>5
    <3>2. ASSUME NEW i \in Index, buffer.entry[i].buffptr = q PROVE FALSE
      <4>1. Used(buffer.entry[i])
        BY <3>2, AesdCharAssumption DEF Used
      <4>2. i \in CleanedSlots
        BY <1>1, <2>2, <4>1, CleanedAreUsed
      <4>3. QED
        BY <2>5, <3>2, <4>2
    <3>3. heap[q] = Free
      BY <3>1, <3>2 DEF AllOwned, Owned
    <3> HIDE DEF freed
    <3>4. QED
      BY <2>3, <2>5, <3>3
  <2>6. QED
    BY <2>4, <2>5
<1>4. QED
  BY <1>2, <1>3

(* A step that leaves memory and its owners alone.                         *)
LEMMA OwnedKept ==
  ASSUME AllOwned, UNCHANGED <<loaded, buffer, current_entry, heap>>
  PROVE  AllOwned'
  BY DEF AllOwned, Owned

(* krealloc takes one block from current_entry and gives it another.       *)
LEMMA ExtendOwned ==
  ASSUME DriverInv, AllOwned, NEW p \in Procs, pc[p] = "w_copy",
         NEW q \in Ptrs, NEW data, Extend(q, data), UNCHANGED <<loaded, buffer>>
  PROVE  AllOwned'
<1>1. loaded
  BY WriterHoldsLock DEF WriteLabels
<1> DEFINE new == PendingBytes \o data
<1>2. /\ heap' = [r \in Ptrs |-> IF r = q THEN new
                                 ELSE IF r = current_entry.buffptr THEN Free ELSE heap[r]]
      /\ current_entry'.buffptr = q
  BY DEF Extend
<1> HIDE DEF new
<1>3. QED
  BY <1>1, <1>2 DEF AllOwned, Owned

(* The steps of a write.                                                   *)
LEMMA WriteOwned ==
  ASSUME DriverInv, AllOwned, NEW p \in Procs,
         \/ WriteCopy(p) \/ WriteNoMem(p) \/ WriteFault(p)
         \/ WriteEvict(p) \/ WriteStore(p) \/ WriteAdvance(p) \/ WriteCorner(p)
  PROVE  AllOwned'
<1>1. DeviceTypes /\ Phases
  BY InvParts
<1>2. pc[p] \in WriteLabels
  BY DEF WriteLabels, PublishLabels, WriteCopy, WriteNoMem, WriteFault, WriteEvict, WriteStore,
         WriteAdvance, WriteCorner
<1>3. lock = p /\ loaded /\ \A label : WriterAt(label) <=> pc[p] = label
  BY <1>2, WriterHoldsLock
<1>4. CASE WriteCopy(p)
  BY <1>4, ExtendOwned DEF WriteCopy
<1>5. CASE WriteNoMem(p)
  BY <1>5 DEF WriteNoMem, AllOwned
<1>6. CASE WriteFault(p)
  BY <1>6, ExtendOwned DEF WriteFault
<1>7. CASE WriteEvict(p)
  <2>1. CASE UNCHANGED <<buffer, heap>>
    BY <1>7, <2>1, OwnedKept DEF WriteEvict
  <2>2. CASE /\ heap' = [heap EXCEPT ![buffer.entry[buffer.in_offs].buffptr] = Free]
             /\ buffer' = [buffer EXCEPT !.entry[buffer.in_offs] = EmptyEntry]
    <3> DEFINE o == buffer.in_offs
               r == buffer.entry[o].buffptr
    <3>1. /\ buffer'.entry = [buffer.entry EXCEPT ![o] = EmptyEntry]
          /\ heap' = [heap EXCEPT ![r] = Free]
          /\ UNCHANGED <<loaded, current_entry>>
      BY <1>1, <1>7, <2>2 DEF DeviceTypes, WriteEvict
    <3>2. \A i \in Index \ {o} : buffer'.entry[i] = buffer.entry[i]
      BY <1>1, <3>1 DEF DeviceTypes
    <3>3. \A q \in Ptrs : heap'[q] # Free => heap[q] # Free /\ q # r
      BY <1>1, <3>1 DEF DeviceTypes
    <3>4. QED
      BY <3>1, <3>2, <3>3 DEF AllOwned, Owned
  <2>3. QED
    BY <1>7, <2>1, <2>2 DEF WriteEvict
<1>8. CASE WriteStore(p)
  <2> DEFINE o == buffer.in_offs
  <2>1. Evicted
    BY <1>1, <1>3, <1>8 DEF Phases, WriteStore
  <2>2. /\ buffer'.entry = [buffer.entry EXCEPT ![o] = current_entry]
        /\ UNCHANGED <<loaded, current_entry, heap>>
    BY <1>1, <1>8 DEF WriteStore, StoreEntry, DeviceTypes
  <2>3. o \in Index /\ ~(o < o)
    BY <1>1, MaxWriteOpsAssumption DEF DeviceTypes, Index
  <2>4. buffer.entry[o].buffptr = NULL
    <3>1. buffer.entry[o] = EmptyEntry
      BY <2>1, <2>3 DEF Evicted, UsedUpTo
    <3>2. QED
      BY <3>1 DEF EmptyEntry
  <2>5. \A i \in Index \ {o} : buffer'.entry[i] = buffer.entry[i]
    BY <1>1, <2>2 DEF DeviceTypes
  <2>6. QED
    BY <2>2, <2>4, <2>5, AesdCharAssumption DEF AllOwned, Owned
<1>9. CASE WriteAdvance(p)
  <2>1. buffer'.entry = buffer.entry /\ UNCHANGED <<loaded, current_entry, heap>>
    BY <1>1, <1>9 DEF WriteAdvance, AdvanceIn, DeviceTypes
  <2>2. QED
    BY <2>1 DEF AllOwned, Owned
<1>10. CASE WriteCorner(p)
  <2>1. Advanced
    BY <1>1, <1>3, <1>10 DEF Phases, WriteCorner
  <2>2. \E i \in Index : buffer.entry[i] = current_entry
    BY <1>1, <2>1 DEF Advanced, DeviceTypes
  <2>3. buffer'.entry = buffer.entry /\ UNCHANGED <<loaded, heap>>
    BY <1>1, <1>10 DEF WriteCorner, CornerCases, DeviceTypes
  <2>4. QED
    BY <2>2, <2>3 DEF AllOwned, Owned
<1>11. QED
  BY <1>4, <1>5, <1>6, <1>7, <1>8, <1>9, <1>10

(* As long as no allocation fails, every allocated block has an owner, and *)
(* after aesd_cleanup_module none is allocated: no sequence of writes,     *)
(* evictions, failed copies and reloads of the module leaks memory.        *)
THEOREM NothingLeaks == Spec => []NoLeak
<1>1. Init => AllOwned
  BY DEF Init, AllOwned
<1>2. ASSUME DriverInv, AllOwned, [Next]_vars PROVE AllOwned'
  <2>1. CASE UNCHANGED vars
    BY <1>2, <2>1, OwnedKept DEF vars
  <2>2. CASE aesd_init_module \/ aesd_cleanup_module
    BY <1>2, <2>2, ModuleOwned
  <2>3. ASSUME NEW p \in Procs, Call(p) PROVE AllOwned'
    <3>1. UNCHANGED <<loaded, buffer, current_entry, heap>>
      BY <2>3 DEF Call, aesd_open, aesd_release, ReadFault, IoctlRefused, aesd_read,
         aesd_write, llseek, unlocked_ioctl, device
    <3>2. QED
      BY <1>2, <3>1, OwnedKept
  <2>4. ASSUME NEW p \in Procs, Step(p) PROVE AllOwned'
    <3>1. CASE \/ WriteCopy(p) \/ WriteNoMem(p) \/ WriteFault(p)
               \/ WriteEvict(p) \/ WriteStore(p) \/ WriteAdvance(p) \/ WriteCorner(p)
      BY <1>2, <3>1, WriteOwned
    <3>2. CASE \/ LlseekLoop(p) \/ fixed_size_llseek(p)
               \/ IoctlFull(p) \/ IoctlOut(p) \/ IoctlIn(p) \/ IoctlEntry(p) \/ IoctlSize(p)
               \/ IoctlStart(p) \/ IoctlLoop(p)
      <4>1. UNCHANGED device
        BY <3>2 DEF LlseekLoop, fixed_size_llseek, IoctlFull, IoctlOut, IoctlIn, IoctlEntry,
           IoctlSize, IoctlStart, IoctlLoop
      <4>2. QED
        BY <1>2, <4>1, OwnedKept DEF device
    <3>3. QED
      BY <2>4, <3>1, <3>2 DEF Step
  <2>5. QED
    BY <1>2, <2>1, <2>2, <2>3, <2>4 DEF Next
<1>3. AllOwned => NoLeak
  BY NoLeakParts
<1>4. QED
  BY InitDriver, DriverStep, <1>1, <1>2, <1>3, PTL DEF Spec
-----------------------------------------------------------------------------
(* The count that an ioctl takes without the lock.                         *)

(* A ring that is not full starts at slot 0, so the out_offs that an ioctl *)
(* has read is still right as long as the ring is not full.                *)
StartIsFresh == \A p \in Procs : pc[p] = "i_in" /\ ~buffer.full => loc[p].start = 0

(* Whatever a writer is doing, a ring that is not full starts at slot 0.   *)
LEMMA NotFullStartsAtZero == DriverInv /\ loaded /\ ~buffer.full => buffer.out_offs = 0
<1> SUFFICES ASSUME DriverInv, loaded, ~buffer.full PROVE buffer.out_offs = 0
  OBVIOUS
<1>1. Phases
  BY DEF DriverInv
<1>2. CASE ~Publishing \/ WriterAt("w_evict")
  BY <1>1, <1>2 DEF Phases, Settled
<1>3. CASE WriterAt("w_store")
  BY <1>1, <1>3 DEF Phases, Evicted
<1>4. CASE WriterAt("w_advance")
  BY <1>1, <1>4 DEF Phases, Stored
<1>5. CASE WriterAt("w_corner")
  BY <1>1, <1>5 DEF Phases, Advanced
<1>6. QED
  BY <1>2, <1>3, <1>4, <1>5 DEF Publishing, PublishLabels, WriterAt

(* While a process is in the driver, a full ring stays full.               *)
LEMMA FullStays ==
  ASSUME DriverInv, NEW p \in Procs, pc[p] # "user", [Next]_vars, buffer.full
  PROVE  buffer'.full
<1>1. DeviceTypes /\ LockInv
  BY InvParts
<1>2. loaded /\ open # {}
  BY <1>1 DEF LockInv, Residents
<1>3. ~aesd_init_module /\ ~aesd_cleanup_module
  BY <1>2 DEF aesd_init_module, aesd_cleanup_module
<1>4. CASE UNCHANGED vars
  BY <1>4 DEF vars
<1>5. ASSUME NEW q \in Procs, Call(q) PROVE buffer'.full
  BY <1>5 DEF Call, aesd_open, aesd_release, ReadFault, IoctlRefused, aesd_read,
     aesd_write, llseek, unlocked_ioctl, device
<1>6. ASSUME NEW q \in Procs, Step(q) PROVE buffer'.full
  <2>1. CASE UNCHANGED buffer
    BY <2>1
  <2>2. CASE WriteEvict(q)
    BY <1>1, <2>2 DEF WriteEvict, DeviceTypes
  <2>3. CASE WriteStore(q)
    BY <1>1, <2>3 DEF WriteStore, StoreEntry, DeviceTypes
  <2>4. CASE WriteAdvance(q)
    BY <1>1, <2>4 DEF WriteAdvance, AdvanceIn, DeviceTypes
  <2>5. CASE WriteCorner(q)
    BY <1>1, <2>5 DEF WriteCorner, CornerCases, DeviceTypes
  <2>6. QED
    BY <1>6, <2>1, <2>2, <2>3, <2>4, <2>5 DEF Step, WriteCopy, WriteNoMem, WriteFault,
       LlseekLoop, fixed_size_llseek, IoctlFull, IoctlOut, IoctlIn, IoctlEntry, IoctlSize,
       IoctlStart, IoctlLoop, device
<1>7. QED
  BY <1>3, <1>4, <1>5, <1>6 DEF Next

(* A process comes to i_in only by reading out_offs.                       *)
LEMMA ReachesIn ==
  ASSUME DriverInv, NEW p \in Procs, [Next]_vars, pc'[p] = "i_in"
  PROVE  \/ pc[p] = "i_in" /\ loc'[p] = loc[p]
         \/ /\ pc[p] = "i_out" /\ UNCHANGED buffer
            /\ loc'[p] = [loc[p] EXCEPT !.start = buffer.out_offs]
<1>1. pc \in [Procs -> Labels] /\ loc \in [Procs -> Locals]
  BY InvParts DEF ProcTypes
<1>2. CASE UNCHANGED <<pc, loc>>
  BY <1>2
<1>3. ASSUME NEW q \in Procs, NEW label \in Labels \ {"i_in"}, NEW locals,
             Goto(q, label, locals)
      PROVE  pc[p] = "i_in" /\ loc'[p] = loc[p]
  BY <1>1, <1>3 DEF Goto
<1>4. CASE aesd_init_module \/ aesd_cleanup_module \/ UNCHANGED vars
  BY <1>2, <1>4 DEF aesd_init_module, aesd_cleanup_module, vars
<1> USE DEF Labels, WriteLabels, PublishLabels, SeekLabels, Return, Enter
<1>5. ASSUME NEW q \in Procs, Call(q) PROVE pc[p] = "i_in" /\ loc'[p] = loc[p]
  <2>1. CASE UNCHANGED <<pc, loc>>
    BY <2>1
  <2>2. CASE \E c \in Chunks : aesd_write(q, c)
    BY <1>3, <2>2 DEF aesd_write
  <2>3. CASE \E o \in LseekOffsets, w \in Whence : llseek(q, o, w)
    BY <1>3, <2>3 DEF llseek
  <2>4. CASE \E c \in SeekCmds, o \in SeekOffsets : unlocked_ioctl(q, c, o)
    BY <1>3, <2>4 DEF unlocked_ioctl
  <2>5. QED
    BY <1>5, <2>1, <2>2, <2>3, <2>4
    DEF Call, aesd_open, aesd_release, ReadFault, IoctlRefused, aesd_read
<1>6. ASSUME NEW q \in Procs, Step(q)
      PROVE  \/ pc[p] = "i_in" /\ loc'[p] = loc[p]
             \/ /\ pc[p] = "i_out" /\ UNCHANGED buffer
                /\ loc'[p] = [loc[p] EXCEPT !.start = buffer.out_offs]
  <2>1. CASE WriteCopy(q)
    BY <1>3, <2>1 DEF WriteCopy
  <2>2. CASE WriteNoMem(q)
    BY <1>3, <2>2 DEF WriteNoMem
  <2>3. CASE WriteFault(q)
    BY <1>3, <2>3 DEF WriteFault
  <2>4. CASE WriteEvict(q)
    BY <1>3, <2>4 DEF WriteEvict
  <2>5. CASE WriteStore(q)
    BY <1>3, <2>5 DEF WriteStore
  <2>6. CASE WriteAdvance(q)
    BY <1>3, <2>6 DEF WriteAdvance
  <2>7. CASE WriteCorner(q)
    BY <1>3, <2>7 DEF WriteCorner
  <2>8. CASE LlseekLoop(q)
    BY <1>3, <2>8 DEF LlseekLoop
  <2>9. CASE fixed_size_llseek(q)
    BY <1>3, <2>9 DEF fixed_size_llseek
  <2>10. CASE IoctlFull(q)
    BY <1>3, <2>10 DEF IoctlFull, CheckCmd
  <2>11. CASE IoctlOut(q)
    <3>1. /\ pc[q] = "i_out" /\ UNCHANGED buffer
          /\ pc' = [pc EXCEPT ![q] = "i_in"]
          /\ loc' = [loc EXCEPT ![q] = [loc[q] EXCEPT !.start = buffer.out_offs]]
      BY <2>11 DEF IoctlOut, Goto, device
    <3>2. CASE p = q
      BY <1>1, <3>1, <3>2
    <3>3. CASE p # q
      BY <1>1, <3>1, <3>3
    <3>4. QED
      BY <3>2, <3>3
  <2>12. CASE IoctlIn(q)
    BY <1>3, <2>12 DEF IoctlIn, CheckCmd
  <2>13. CASE IoctlEntry(q)
    BY <1>3, <2>13 DEF IoctlEntry
  <2>14. CASE IoctlSize(q)
    BY <1>3, <2>14 DEF IoctlSize
  <2>15. CASE IoctlStart(q)
    BY <1>3, <2>15 DEF IoctlStart
  <2>16. CASE IoctlLoop(q)
    BY <1>3, <2>16 DEF IoctlLoop
  <2>17. QED
    BY <1>6, <2>1, <2>2, <2>3, <2>4, <2>5, <2>6, <2>7, <2>8, <2>9, <2>10, <2>11, <2>12,
       <2>13, <2>14, <2>15, <2>16 DEF Step
<1>7. QED
  BY <1>4, <1>5, <1>6 DEF Next

(* The out_offs an ioctl holds stays fresh.                                *)
LEMMA StartStep == DriverInv /\ StartIsFresh /\ [Next]_vars => StartIsFresh'
<1> SUFFICES ASSUME DriverInv, StartIsFresh, [Next]_vars,
                    NEW p \in Procs, pc'[p] = "i_in", ~buffer'.full
             PROVE  loc'[p].start = 0
  BY DEF StartIsFresh
<1>1. ~buffer.full /\ loaded
  <2>1. pc[p] # "user"
    BY ReachesIn
  <2>2. loaded
    BY <2>1 DEF DriverInv, LockInv, Residents
  <2>3. QED
    BY <2>1, <2>2, FullStays
<1>2. CASE pc[p] = "i_in" /\ loc'[p] = loc[p]
  BY <1>1, <1>2 DEF StartIsFresh
<1>3. CASE loc'[p] = [loc[p] EXCEPT !.start = buffer.out_offs]
  <2>1. buffer.out_offs = 0
    BY <1>1, NotFullStartsAtZero
  <2>2. loc[p] \in Locals
    BY InvParts DEF ProcTypes
  <2>3. QED
    BY <1>3, <2>1, <2>2 DEF Locals
<1>4. QED
  BY <1>2, <1>3, ReachesIn

(* A process inside the driver is moved by its own steps only.             *)
LEMMA OwnStep ==
  ASSUME pc \in [Procs -> Labels], NEW p \in Procs, [Next]_vars,
         pc[p] # "user", pc'[p] # pc[p]
  PROVE  Step(p)
<1>1. ~UNCHANGED pc
  OBVIOUS
<1>2. ASSUME NEW q \in Procs, NEW label, NEW locals, Goto(q, label, locals) PROVE p = q
  BY <1>2 DEF Goto
<1>3. ASSUME NEW q \in Procs, Call(q) PROVE FALSE
  <2>1. InUser(q) /\ \E label, locals : Goto(q, label, locals)
    BY <1>1, <1>3 DEF Call, aesd_open, aesd_release, ReadFault, IoctlRefused, aesd_read,
       aesd_write, llseek, unlocked_ioctl, Enter
  <2>2. QED
    BY <1>2, <2>1 DEF InUser
<1>4. ASSUME NEW q \in Procs, Step(q) PROVE p = q
  <2> USE DEF Return, CheckCmd
  <2>1. CASE \/ WriteCopy(q) \/ WriteNoMem(q) \/ WriteFault(q) \/ WriteEvict(q)
             \/ WriteStore(q) \/ WriteAdvance(q) \/ WriteCorner(q)
    BY <1>2, <2>1 DEF WriteCopy, WriteNoMem, WriteFault, WriteEvict, WriteStore,
       WriteAdvance, WriteCorner
  <2>2. CASE LlseekLoop(q) \/ fixed_size_llseek(q)
    BY <1>2, <2>2 DEF LlseekLoop, fixed_size_llseek
  <2>3. CASE IoctlFull(q) \/ IoctlOut(q) \/ IoctlIn(q)
    BY <1>2, <2>3 DEF IoctlFull, IoctlOut, IoctlIn
  <2>4. CASE IoctlEntry(q) \/ IoctlSize(q) \/ IoctlStart(q) \/ IoctlLoop(q)
    BY <1>2, <2>4 DEF IoctlEntry, IoctlSize, IoctlStart, IoctlLoop
  <2>5. QED
    BY <1>4, <2>1, <2>2, <2>3, <2>4 DEF Step
<1>5. QED
  BY <1>1, <1>3, <1>4 DEF Next, aesd_init_module, aesd_cleanup_module, vars

(* What an ioctl that fails on the count has compared write_cmd with.      *)
LEMMA CountRejection ==
  ASSUME DriverInv, NEW p \in Procs, [Next]_vars, Rejected(p), pc[p] \in {"i_full", "i_in"}
  PROVE  \/ pc[p] = "i_full" /\ buffer.full /\ loc[p].cmd >= MaxWriteOps
         \/ /\ pc[p] = "i_in"
            /\ loc[p].cmd >= aesd_circular_buffer_get_count(
                               [buffer EXCEPT !.full = FALSE, !.out_offs = loc[p].start])
<1>1. pc \in [Procs -> Labels]
  BY InvParts DEF ProcTypes
<1>2. Step(p) /\ pc'[p] = "user"
  BY <1>1, OwnStep DEF Rejected
<1>3. IoctlFull(p) \/ IoctlIn(p)
  BY <1>2 DEF Step, WriteCopy, WriteNoMem, WriteFault, WriteEvict, WriteStore, WriteAdvance,
     WriteCorner, LlseekLoop, fixed_size_llseek, IoctlOut, IoctlEntry, IoctlSize,
     IoctlStart, IoctlLoop
<1>4. \A label, locals : Goto(p, label, locals) => label = "user"
  BY <1>1, <1>2 DEF Goto
<1>5. CASE IoctlFull(p)
  BY <1>4, <1>5 DEF IoctlFull, CheckCmd
<1>6. CASE IoctlIn(p)
  BY <1>4, <1>6 DEF IoctlIn, CheckCmd
<1>7. QED
  BY <1>3, <1>5, <1>6

(* The number of commands that were complete before the write in progress, *)
(* if any, as the fields of the ring tell it.                              *)
LEMMA SettledCountIs ==
  ASSUME DriverInv, loaded
  PROVE  IF buffer.full THEN SettledCount = MaxWriteOps
         ELSE \/ SettledCount = buffer.in_offs
              \/ /\ SettledCount \in Index
                 /\ buffer.in_offs = (SettledCount + 1) % MaxWriteOps
<1>1. DeviceTypes /\ Phases
  BY InvParts
<1>2. ~buffer.full => buffer.out_offs = 0
  BY NotFullStartsAtZero
<1>3. CASE WriterAt("w_advance")
  BY <1>1, <1>3 DEF Phases, Stored, WriterAt, SettledCount, Publishing, PublishLabels
<1>4. CASE WriterAt("w_corner")
  BY <1>1, <1>4 DEF Phases, Advanced, WriterAt, SettledCount, Publishing, PublishLabels
<1>5. CASE ~WriterAt("w_advance") /\ ~WriterAt("w_corner")
  BY <1>1, <1>2, <1>5, CountInPlace DEF SettledCount, WriterAt, Publishing
<1>6. QED
  BY <1>3, <1>4, <1>5

(* With any number of writers at work, an ioctl rejects a command that was *)
(* complete when the writer in the ring began only if a write has filled   *)
(* the ring between its reads of full and in_offs; that write may be over. *)
THEOREM CountIsNearlyExact == Spec => CountMissesOnlyAtFilling
<1> DEFINE Miss(p) ==
      pc[p] \in {"i_full", "i_in"} /\ Rejected(p) =>
        \/ loc[p].cmd >= SettledCount
        \/ pc[p] = "i_in" /\ (buffer.full \/ buffer.in_offs = buffer.out_offs)
<1>1. ASSUME DriverInv, StartIsFresh, [Next]_vars, NEW p \in Procs PROVE Miss(p)
  <2> SUFFICES ASSUME pc[p] \in {"i_full", "i_in"}, Rejected(p),
                      ~(pc[p] = "i_in" /\ (buffer.full \/ buffer.in_offs = buffer.out_offs))
               PROVE  loc[p].cmd >= SettledCount
    OBVIOUS
  <2>1. loaded
    BY <1>1 DEF DriverInv, LockInv, Residents
  <2>2. CASE pc[p] = "i_full" /\ buffer.full /\ loc[p].cmd >= MaxWriteOps
    BY <1>1, <2>1, <2>2, SettledCountIs
  <2>3. CASE /\ pc[p] = "i_in"
             /\ loc[p].cmd >= aesd_circular_buffer_get_count(
                                [buffer EXCEPT !.full = FALSE, !.out_offs = loc[p].start])
    <3>1. DeviceTypes
      BY <1>1, InvParts
    <3>2. ~buffer.full /\ loc[p].start = 0 /\ buffer.out_offs = 0
      BY <1>1, <2>1, <2>3, NotFullStartsAtZero DEF StartIsFresh
    <3>3. buffer.in_offs \in Nat /\ buffer.in_offs # 0 /\ MaxWriteOps \in Nat /\ MaxWriteOps > 0
      <4>1. buffer.in_offs # 0
        BY <2>3, <3>2
      <4>2. QED
        BY <3>1, <4>1, MaxWriteOpsAssumption DEF DeviceTypes, Index
    <3> DEFINE b == [buffer EXCEPT !.full = FALSE, !.out_offs = loc[p].start]
    <3>4. ~b.full /\ b.out_offs = 0 /\ b.in_offs = buffer.in_offs
      BY <3>1, <3>2 DEF DeviceTypes
    <3>5. loc[p].cmd >= buffer.in_offs
      <4> HIDE DEF b
      <4>1. aesd_circular_buffer_get_count(b) = buffer.in_offs
        BY <3>3, <3>4 DEF aesd_circular_buffer_get_count
      <4>2. QED
        BY <2>3, <4>1 DEF b
    <3>6. loc[p].cmd \in Nat
      BY <1>1, InvParts DEF ProcTypes, Locals
    <3>7. CASE SettledCount = buffer.in_offs
      BY <3>5, <3>7
    <3>8. CASE /\ SettledCount \in Index
               /\ buffer.in_offs = (SettledCount + 1) % MaxWriteOps
      <4>1. SettledCount \in Nat /\ SettledCount < MaxWriteOps
        BY <3>3, <3>8 DEF Index
      <4>2. buffer.in_offs = SettledCount + 1
        BY <3>3, <3>8, <4>1, WrapOnce
      <4>3. QED
        BY <3>5, <3>6, <4>1, <4>2
    <3>9. QED
      BY <1>1, <2>1, <3>2, <3>7, <3>8, SettledCountIs
  <2>4. QED
    BY <1>1, <2>2, <2>3, CountRejection
<1>2. ASSUME DriverInv, StartIsFresh, [Next]_vars
      PROVE  [\A p \in Procs : Miss(p)]_vars
  BY <1>1, <1>2
<1>3. Init => StartIsFresh
  BY DEF Init, StartIsFresh
<1>4. QED
  BY InitDriver, DriverStep, StartStep, <1>2, <1>3, PTL DEF Spec, CountMissesOnlyAtFilling
-----------------------------------------------------------------------------
(***************************************************************************)
(* The character driver implements CharDevice: whatever the interleaving   *)
(* of its steps, its users see an atomic log of commands.                  *)
(***************************************************************************)

\* The commands that the visits of ring b find in memory h.
LogFrom(b, h) ==
  [k \in 1 .. aesd_circular_buffer_get_count(b) |-> h[b.entry[Slot(b, k - 1)].buffptr]]

(* The log of the refinement in these terms.                               *)
LEMMA LogIs == Log = IF ~loaded THEN <<>> ELSE LogFrom(CompletedRing, heap)
  BY DEF Log, LogFrom

(* The same of the next state.                                             *)
LEMMA NextLogIs == Log' = IF ~loaded' THEN <<>> ELSE LogFrom(CompletedRing', heap')
  BY DEF Log, LogFrom

(* Between two writes the visits find the commands first, each of them in  *)
(* a block, and empty slots after them.                                    *)
LEMMA SettledVisits ==
  ASSUME DeviceTypes, RingBlocks, Settled
  PROVE  LET n == aesd_circular_buffer_get_count(buffer)
         IN  /\ n \in 0 .. MaxWriteOps
             /\ \A k \in Index :
                  /\ Slot(buffer, k) \in Index
                  /\ k < n => Used(buffer.entry[Slot(buffer, k)])
                  /\ ~(k < n) => buffer.entry[Slot(buffer, k)].size = 0
<1> DEFINE n == aesd_circular_buffer_get_count(buffer)
<1>1. MaxWriteOps \in Nat /\ MaxWriteOps > 0 /\ Index = 0 .. MaxWriteOps - 1
  BY MaxWriteOpsAssumption DEF Index
<1>2. buffer.in_offs \in Index /\ buffer.out_offs \in Index
  BY DEF DeviceTypes
<1>3. \A k \in Index : Slot(buffer, k) \in Index
  BY <1>2, SlotWraps
<1>4. CASE buffer.full
  <2>1. n = MaxWriteOps
    BY <1>4 DEF aesd_circular_buffer_get_count
  <2>2. AllUsed
    BY <1>4 DEF Settled
  <2>3. \A k \in Index : Used(buffer.entry[Slot(buffer, k)])
    BY <1>3, <2>2 DEF AllUsed
  <2>4. n \in 0 .. MaxWriteOps /\ \A k \in Index : k < n
    BY <1>1, <2>1
  <2> HIDE DEF n
  <2>5. QED
    BY <1>3, <2>3, <2>4 DEF n
<1>5. CASE ~buffer.full
  <2>1. n = buffer.in_offs /\ buffer.out_offs = 0 /\ UsedUpTo(buffer.in_offs)
    BY <1>5, CountInPlace DEF Settled
  <2>2. \A k \in Index : Slot(buffer, k) = k
    BY <1>1, <1>2, <2>1, SlotWraps
  <2>3. EmptyEntry.size = 0
    BY DEF EmptyEntry
  <2> HIDE DEF n
  <2>4. n \in 0 .. MaxWriteOps
    BY <1>1, <1>2, <2>1
  <2>5. QED
    BY <1>3, <2>1, <2>2, <2>3, <2>4 DEF UsedUpTo, n
<1>6. QED
  BY <1>4, <1>5

(* The commands of the log, as a reader finds them with the lock free.     *)
LEMMA LogEntries ==
  ASSUME DeviceTypes, RingBlocks, Settled
  PROVE  LET n == aesd_circular_buffer_get_count(buffer)
             L == LogFrom(buffer, heap)
         IN  /\ L \in Seq(Seq(Bytes)) /\ Len(L) = n /\ DOMAIN L = 1 .. n
             /\ \A k \in Index : k < n =>
                  /\ buffer.entry[Slot(buffer, k)].buffptr \in Ptrs
                  /\ L[k + 1] = heap[buffer.entry[Slot(buffer, k)].buffptr]
                  /\ L[k + 1] \in Seq(Bytes)
                  /\ Len(L[k + 1]) = buffer.entry[Slot(buffer, k)].size
<1> DEFINE n == aesd_circular_buffer_get_count(buffer)
           L == LogFrom(buffer, heap)
           block(k) == heap[buffer.entry[Slot(buffer, k)].buffptr]
<1>1. MaxWriteOps \in Nat /\ MaxWriteOps > 0 /\ Index = 0 .. MaxWriteOps - 1
  BY MaxWriteOpsAssumption DEF Index
<1>2. n \in 0 .. MaxWriteOps /\ n \in Nat
  BY <1>1, SettledVisits
<1>3. ASSUME NEW k \in Index, k < n
      PROVE  /\ buffer.entry[Slot(buffer, k)].buffptr \in Ptrs
             /\ block(k) \in Seq(Bytes)
             /\ Len(block(k)) = buffer.entry[Slot(buffer, k)].size
  <2>1. Slot(buffer, k) \in Index /\ Used(buffer.entry[Slot(buffer, k)])
    BY <1>3, SettledVisits
  <2> DEFINE e == buffer.entry[Slot(buffer, k)]
  <2>2. e \in EntryType /\ e.buffptr # NULL
    BY <2>1 DEF DeviceTypes, Used
  <2>3. e.buffptr \in Ptrs
    BY <2>2 DEF EntryType
  <2>4. heap[e.buffptr] # Free /\ Len(heap[e.buffptr]) = e.size
    BY <2>1, <2>2 DEF RingBlocks
  <2>5. heap[e.buffptr] \in Seq(Bytes)
    BY <2>3, <2>4 DEF DeviceTypes
  <2>6. QED
    BY <2>3, <2>4, <2>5
<1>4. L = [k \in 1 .. n |-> block(k - 1)]
  BY DEF LogFrom
<1> HIDE DEF n, L
<1>5. \A k \in 1 .. n : k - 1 \in Index /\ k - 1 < n
  BY <1>1, <1>2
<1>6. \A k \in 1 .. n : block(k - 1) \in Seq(Bytes)
  BY <1>3, <1>5
<1>7. \A k \in Index : k < n => k + 1 \in 1 .. n /\ (k + 1) - 1 = k
  BY <1>1, <1>2
<1>8. \A k \in Index : k < n => L[k + 1] = block(k)
  BY <1>4, <1>7
<1> HIDE DEF block
<1>9. L \in Seq(Seq(Bytes)) /\ Len(L) = n /\ DOMAIN L = 1 .. n
  BY <1>2, <1>4, <1>6
<1>10. QED
  BY <1>3, <1>8, <1>9 DEF n, L, block

-----------------------------------------------------------------------------
(* Steps that leave the log alone.                                         *)

(* The completed ring, phase by phase.                                     *)
LEMMA CompletedWhen ==
  /\ ~Publishing => CompletedRing = buffer
  /\ Publishing =>
       /\ pc[lock] \in {"w_evict", "w_store"} =>
            CompletedRing = aesd_circular_buffer_add_entry(buffer, current_entry)
       /\ pc[lock] = "w_advance" =>
            CompletedRing = CornerCases(AdvanceIn(buffer), loc[lock].count)
       /\ pc[lock] = "w_corner" => CompletedRing = CornerCases(buffer, loc[lock].count)
  BY DEF CompletedRing

(* The same of the next state.                                             *)
LEMMA NextCompletedWhen ==
  /\ ~Publishing' => CompletedRing' = buffer'
  /\ Publishing' =>
       /\ pc'[lock'] \in {"w_evict", "w_store"} =>
            CompletedRing' = aesd_circular_buffer_add_entry(buffer', current_entry')
       /\ pc'[lock'] = "w_advance" =>
            CompletedRing' = CornerCases(AdvanceIn(buffer'), loc'[lock'].count)
       /\ pc'[lock'] = "w_corner" => CompletedRing' = CornerCases(buffer', loc'[lock'].count)
  BY DEF CompletedRing

(* Nothing happened to the device, or to the writer in it.                 *)
LEMMA LogKept ==
  ASSUME UNCHANGED device, lock # NULL => pc'[lock] = pc[lock] /\ loc'[lock] = loc[lock]
  PROVE  Log' = Log /\ Partial' = Partial
<1>1. UNCHANGED <<loaded, buffer, current_entry, lock, heap>>
  BY DEF device
<1>2. Publishing' <=> Publishing
  BY <1>1 DEF Publishing
<1>3. CompletedRing' = CompletedRing
  <2>1. CASE ~Publishing
    BY <1>1, <1>2, <2>1 DEF CompletedRing
  <2>2. CASE Publishing
    <3>1. lock' = lock /\ pc'[lock'] = pc[lock] /\ loc'[lock'] = loc[lock]
      BY <1>1, <2>2 DEF Publishing
    <3>2. CASE pc[lock] \in {"w_evict", "w_store"}
      BY <1>1, <1>2, <2>2, <3>1, <3>2, CompletedWhen, NextCompletedWhen
    <3>3. CASE pc[lock] = "w_advance"
      BY <1>1, <1>2, <2>2, <3>1, <3>3, CompletedWhen, NextCompletedWhen
    <3>4. CASE pc[lock] = "w_corner"
      BY <1>1, <1>2, <2>2, <3>1, <3>4, CompletedWhen, NextCompletedWhen
    <3>5. QED
      BY <2>2, <3>2, <3>3, <3>4 DEF Publishing, PublishLabels
  <2>3. QED
    BY <2>1, <2>2
<1>4. Partial' = Partial
  BY <1>1, <1>2 DEF Partial, PendingBytes
<1>5. QED
  BY <1>1, <1>3, <1>4, LogIs, NextLogIs

(* The same when only the lock is taken.                                   *)
LEMMA LockTaken ==
  ASSUME lock = NULL, NEW p, lock' = p, pc'[p] = "w_copy",
         UNCHANGED <<loaded, buffer, current_entry, heap>>
  PROVE  Log' = Log /\ Partial' = Partial
<1>1. ~Publishing /\ ~Publishing'
  BY DEF Publishing, PublishLabels
<1>2. CompletedRing' = buffer /\ CompletedRing = buffer
  BY <1>1 DEF CompletedRing
<1>3. Partial' = Partial
  BY <1>1 DEF Partial, PendingBytes
<1>4. QED
  BY <1>2, <1>3, LogIs, NextLogIs

(* The eviction frees the one entry that the completed ring leaves out.    *)
LEMMA EvictKeepsLog ==
  ASSUME DriverInv, NEW p \in Procs, WriteEvict(p)
  PROVE  Log' = Log /\ Partial' = Partial
<1>1. pc[p] = "w_evict" /\ UNCHANGED <<loaded, current_entry, lock>>
  BY DEF WriteEvict
<1>2. LockInv /\ DeviceTypes /\ ProcTypes /\ Phases /\ MemorySafe
  BY InvParts
<1>3. lock = p /\ loaded /\ WriterAt("w_evict") /\ Publishing /\ ~SharingWriter
  BY <1>1, WriterHoldsLock DEF WriteLabels, PublishLabels, SharingWriter
<1>4. Settled /\ Used(current_entry)
  BY <1>2, <1>3 DEF Phases
<1>5. SlotsDiffer /\ PendingDiffers
  BY <1>2, <1>3, MemoryParts
<1>6. pc'[p] = "w_store"
  BY <1>2 DEF WriteEvict, Goto, ProcTypes
<1>7. Publishing'
  BY <1>1, <1>3, <1>6 DEF Publishing, PublishLabels
<1>8. Partial' = Partial
  BY <1>3, <1>7 DEF Partial
<1>9. /\ CompletedRing = aesd_circular_buffer_add_entry(buffer, current_entry)
      /\ CompletedRing' = aesd_circular_buffer_add_entry(buffer', current_entry)
  BY <1>1, <1>3, <1>6, <1>7, CompletedWhen, NextCompletedWhen
<1>10. CASE ~buffer.full
  <2>1. UNCHANGED <<buffer, heap>>
    BY <1>2, <1>4, <1>10, CountInPlace DEF WriteEvict, Settled
  <2>2. QED
    BY <1>1, <1>8, <1>9, <2>1, LogIs, NextLogIs
<1>11. CASE buffer.full
  <2> DEFINE o == buffer.in_offs
             r == buffer.entry[o].buffptr
             c == [entry    |-> [buffer.entry EXCEPT ![o] = current_entry],
                   in_offs  |-> (o + 1) % MaxWriteOps,
                   out_offs |-> (o + 1) % MaxWriteOps,
                   full     |-> TRUE]
  <2>1. /\ heap' = [heap EXCEPT ![r] = Free]
        /\ buffer' = [buffer EXCEPT !.entry[o] = EmptyEntry]
    BY <1>2, <1>11, CountInPlace DEF WriteEvict
  <2>2. o \in Index /\ r \in Ptrs
    BY <1>2, <1>4, <1>11 DEF DeviceTypes, EntryType, Settled, AllUsed, Used
  <2>3. /\ buffer'.entry = [buffer.entry EXCEPT ![o] = EmptyEntry]
        /\ buffer'.in_offs = o /\ buffer'.full = TRUE /\ buffer.full = TRUE
    BY <1>2, <1>11, <2>1 DEF DeviceTypes
  <2>4. buffer \in RingType(EntryType) /\ buffer' \in RingType(EntryType)
    <3>1. EmptyEntry \in EntryType
      BY DEF EmptyEntry, EntryType
    <3>2. QED
      BY <1>2, <2>1, <2>2, <3>1 DEF DeviceTypes, RingType
  <2>5. CompletedRing = c
    BY <1>9, <1>11, <2>3, <2>4, AddWhenFull
  <2>6. CompletedRing' = c
    <3>1. [buffer'.entry EXCEPT ![o] = current_entry]
            = [buffer.entry EXCEPT ![o] = current_entry]
      BY <1>2, <2>3 DEF DeviceTypes
    <3>2. aesd_circular_buffer_add_entry(buffer', current_entry)
            = [entry    |-> [buffer'.entry EXCEPT ![buffer'.in_offs] = current_entry],
               in_offs  |-> (buffer'.in_offs + 1) % MaxWriteOps,
               out_offs |-> (buffer'.in_offs + 1) % MaxWriteOps,
               full     |-> buffer'.full]
      BY <2>3, <2>4, AddWhenFull
    <3>3. QED
      BY <1>9, <2>3, <3>1, <3>2
  <2>7. c.out_offs \in Index /\ c.full /\ c.entry = [buffer.entry EXCEPT ![o] = current_entry]
    BY <2>2, NextIndex
  <2>8. ASSUME NEW i \in Index PROVE heap'[c.entry[i].buffptr] = heap[c.entry[i].buffptr]
    <3>1. CASE i = o
      <4>1. c.entry[i] = current_entry
        BY <1>2, <2>7, <3>1 DEF DeviceTypes
      <4>2. current_entry.buffptr # r /\ current_entry.buffptr \in Ptrs
        BY <1>2, <1>4, <1>5, <2>2 DEF DeviceTypes, EntryType, Used, PendingDiffers
      <4> HIDE DEF c, r
      <4>3. QED
        BY <1>2, <2>1, <4>1, <4>2 DEF DeviceTypes
    <3>2. CASE i # o
      <4>1. c.entry[i] = buffer.entry[i]
        BY <1>2, <2>7, <3>2 DEF DeviceTypes
      <4>2. buffer.entry[i].buffptr # r /\ buffer.entry[i].buffptr \in Ptrs
        BY <1>2, <1>4, <1>5, <1>11, <2>2, <3>2
        DEF DeviceTypes, EntryType, Settled, AllUsed, Used, SlotsDiffer
      <4> HIDE DEF c, r
      <4>3. QED
        BY <1>2, <2>1, <4>1, <4>2 DEF DeviceTypes
    <3>3. QED
      BY <3>1, <3>2
  <2> HIDE DEF c
  <2>9. aesd_circular_buffer_get_count(c) = MaxWriteOps
    BY <2>7 DEF aesd_circular_buffer_get_count
  <2>10. \A k \in 1 .. MaxWriteOps : Slot(c, k - 1) \in Index
    <3>1. \A k \in 1 .. MaxWriteOps : k - 1 \in Index
      BY MaxWriteOpsAssumption DEF Index
    <3>2. QED
      BY <2>7, <3>1, SlotWraps
  <2>11. LogFrom(c, heap') = LogFrom(c, heap)
    BY <2>8, <2>9, <2>10 DEF LogFrom
  <2>12. QED
    BY <1>1, <1>8, <2>5, <2>6, <2>11, LogIs, NextLogIs
<1>12. QED
  BY <1>10, <1>11

(* The three stores of add_entry are steps towards the completed ring.     *)
LEMMA StoresKeepLog ==
  ASSUME DriverInv, NEW p \in Procs, WriteStore(p) \/ WriteAdvance(p) \/ WriteCorner(p)
  PROVE  Log' = Log /\ Partial' = Partial
<1>1. LockInv /\ DeviceTypes /\ ProcTypes /\ Phases /\ MemorySafe
  BY InvParts
<1>2. pc[p] \in PublishLabels /\ UNCHANGED <<loaded, heap>>
  BY DEF WriteStore, WriteAdvance, WriteCorner, PublishLabels
<1>3. lock = p /\ p # NULL /\ loaded /\ Publishing
  BY <1>2, WriterHoldsLock DEF WriteLabels
<1>4. pc \in [Procs -> Labels] /\ loc \in [Procs -> Locals]
  BY <1>1 DEF ProcTypes
<1>5. CompletedRing' = CompletedRing /\ Partial' = Partial
  <2>1. CASE WriteStore(p)
    <3> DEFINE c == aesd_circular_buffer_get_count(buffer)
    <3>1. /\ pc[p] = "w_store" /\ buffer' = StoreEntry(buffer, current_entry)
          /\ pc' = [pc EXCEPT ![p] = "w_advance"]
          /\ loc' = [loc EXCEPT ![p] = [loc[p] EXCEPT !.count = c]]
          /\ UNCHANGED <<current_entry, lock>>
      BY <2>1 DEF WriteStore, Goto
    <3>2. pc'[lock'] = "w_advance" /\ loc'[lock'].count = c /\ lock' # NULL
      <4> HIDE DEF c
      <4>1. loc[p] \in Locals
        BY <1>4
      <4>2. QED
        BY <1>3, <1>4, <3>1, <4>1 DEF Locals
    <3>3. Publishing'
      BY <3>2 DEF Publishing, PublishLabels
    <3>4. CompletedRing = CornerCases(AdvanceIn(StoreEntry(buffer, current_entry)), c)
      BY <1>3, <3>1, CompletedWhen DEF aesd_circular_buffer_add_entry
    <3>5. CompletedRing' = CornerCases(AdvanceIn(buffer'), c)
      BY <3>2, <3>3, NextCompletedWhen
    <3>6. QED
      BY <1>3, <3>1, <3>3, <3>4, <3>5 DEF Partial
  <2>2. CASE WriteAdvance(p)
    <3>1. /\ pc[p] = "w_advance" /\ buffer' = AdvanceIn(buffer)
          /\ pc'[lock'] = "w_corner" /\ loc'[lock'] = loc[lock] /\ lock' # NULL
      BY <1>3, <1>4, <2>2 DEF WriteAdvance, Goto
    <3>2. Publishing'
      BY <3>1 DEF Publishing, PublishLabels
    <3>3. QED
      BY <1>3, <3>1, <3>2, CompletedWhen, NextCompletedWhen DEF Partial
  <2>3. CASE WriteCorner(p)
    <3>1. /\ pc[p] = "w_corner" /\ buffer' = CornerCases(buffer, loc[p].count)
          /\ current_entry' = EmptyEntry /\ lock' = NULL
      BY <2>3 DEF WriteCorner
    <3>2. ~Publishing'
      BY <3>1 DEF Publishing
    <3>3. Partial' = <<>> /\ Partial = <<>>
      BY <1>3, <3>1, <3>2 DEF Partial, PendingBytes, EmptyEntry
    <3>4. QED
      BY <1>3, <3>1, <3>2, <3>3, CompletedWhen, NextCompletedWhen
  <2>4. QED
    BY <2>1, <2>2, <2>3
<1>6. QED
  BY <1>2, <1>5, LogIs, NextLogIs
-----------------------------------------------------------------------------
(* The step that completes a write: its bytes are copied.                  *)

(* Append, element by element.                                             *)
LEMMA AppendIs ==
  ASSUME NEW S, NEW s \in Seq(S), NEW e \in S, NEW n \in Nat, Len(s) = n
  PROVE  /\ [k \in 1 .. n + 1 |-> IF k <= n THEN s[k] ELSE e] = Append(s, e)
         /\ Len(Append(s, e)) = n + 1
<1>1. /\ Append(s, e) \in Seq(S)
      /\ Len(Append(s, e)) = n + 1
      /\ \A k \in 1 .. n : Append(s, e)[k] = s[k]
      /\ Append(s, e)[n + 1] = e
  BY AppendProperties
<1> DEFINE t == [k \in 1 .. n + 1 |-> IF k <= n THEN s[k] ELSE e]
<1>2. t \in Seq(S) /\ Len(t) = n + 1
  OBVIOUS
<1>3. \A k \in 1 .. n + 1 : t[k] = Append(s, e)[k]
  BY <1>1
<1>4. t = Append(s, e)
  <2> HIDE DEF t
  <2> QED BY <1>1, <1>2, <1>3, SeqEqual
<1>5. QED
  BY <1>1, <1>4

(* The same when the first element is dropped.                             *)
LEMMA TailAppendIs ==
  ASSUME NEW S, NEW s \in Seq(S), NEW e \in S, NEW n \in Nat, Len(s) = n, n > 0
  PROVE  [k \in 1 .. n |-> IF k < n THEN s[k + 1] ELSE e] = Tail(Append(s, e))
<1> DEFINE a == Append(s, e)
           t == [k \in 1 .. n |-> IF k < n THEN s[k + 1] ELSE e]
<1>1. /\ a \in Seq(S)
      /\ Len(a) = n + 1
      /\ \A k \in 1 .. n : a[k] = s[k]
      /\ a[n + 1] = e
  BY AppendProperties
<1> HIDE DEF a
<1>2. a # <<>>
  BY <1>1
<1>3. Tail(a) \in Seq(S) /\ Len(Tail(a)) = n /\ \A k \in 1 .. n : Tail(a)[k] = a[k + 1]
  BY <1>1, <1>2, HeadTailProperties
<1>4. t \in Seq(S) /\ Len(t) = n
  OBVIOUS
<1>5. \A k \in 1 .. n : t[k] = Tail(a)[k]
  BY <1>1, <1>3
<1> HIDE DEF t
<1>6. t = Tail(a)
  BY <1>3, <1>4, <1>5, SeqEqual
<1>7. QED
  BY <1>6 DEF t, a

(* What add_entry will leave when the new block holds command, and the     *)
(* other blocks what they held.                                            *)
LEMMA PublishAppends ==
  ASSUME DeviceTypes, RingBlocks, Settled,
         NEW e \in EntryType, NEW h, NEW command \in Seq(Bytes), h[e.buffptr] = command,
         \A i \in Index : Used(buffer.entry[i]) =>
           h[buffer.entry[i].buffptr] = heap[buffer.entry[i].buffptr]
  PROVE  LogFrom(aesd_circular_buffer_add_entry(buffer, e), h)
           = Device!Recent(Append(LogFrom(buffer, heap), command))
<1> DEFINE n == aesd_circular_buffer_get_count(buffer)
           L == LogFrom(buffer, heap)
           r == aesd_circular_buffer_add_entry(buffer, e)
<1>1. MaxWriteOps \in Nat /\ MaxWriteOps > 0 /\ Index = 0 .. MaxWriteOps - 1
  BY MaxWriteOpsAssumption DEF Index
<1>2. n \in 0 .. MaxWriteOps /\ n \in Nat
  BY <1>1, SettledVisits
<1>3. L \in Seq(Seq(Bytes)) /\ Len(L) = n
  BY LogEntries
<1>4. ASSUME NEW k \in Index, k < n
      PROVE  h[buffer.entry[Slot(buffer, k)].buffptr] = L[k + 1]
  <2>1. Slot(buffer, k) \in Index /\ Used(buffer.entry[Slot(buffer, k)])
    BY <1>4, SettledVisits
  <2>2. L[k + 1] = heap[buffer.entry[Slot(buffer, k)].buffptr]
    BY <1>4, LogEntries
  <2>3. QED
    BY <2>1, <2>2
<1>5. buffer \in RingType(EntryType)
  BY DEF DeviceTypes, RingType
<1>6. CASE ~buffer.full
  <2>1. /\ n \in Index /\ aesd_circular_buffer_get_count(r) = n + 1
        /\ \A k \in 0 .. n - 1 : r.entry[Slot(r, k)] = buffer.entry[Slot(buffer, k)]
        /\ r.entry[Slot(r, n)] = e
    BY <1>5, <1>6, RoomVisits DEF Settled
  <2> HIDE DEF n, L, r
  <2>2. ASSUME NEW k \in 1 .. n + 1
        PROVE  h[r.entry[Slot(r, k - 1)].buffptr] = IF k <= n THEN L[k] ELSE command
    <3>1. CASE k <= n
      <4>1. k - 1 \in 0 .. n - 1 /\ k - 1 \in Index /\ k - 1 < n /\ (k - 1) + 1 = k
        BY <1>1, <1>2, <3>1
      <4>2. QED
        BY <1>4, <2>1, <3>1, <4>1
    <3>2. CASE ~(k <= n)
      <4>1. k - 1 = n
        BY <1>2, <3>2
      <4>2. QED
        BY <2>1, <3>2, <4>1
    <3>3. QED
      BY <3>1, <3>2
  <2>3. LogFrom(r, h) = [k \in 1 .. n + 1 |-> IF k <= n THEN L[k] ELSE command]
    BY <2>1, <2>2 DEF LogFrom
  <2>4. LogFrom(r, h) = Append(L, command) /\ Len(Append(L, command)) = n + 1
    BY <1>2, <1>3, <2>3, AppendIs
  <2>5. Device!Recent(Append(L, command)) = Append(L, command)
    <3>1. ~(n + 1 > MaxWriteOps)
      BY <1>1, <2>1
    <3>2. QED
      BY <2>4, <3>1 DEF Device!Recent
  <2>6. QED
    BY <2>4, <2>5 DEF L, r
<1>7. CASE buffer.full
  <2>1. /\ n = MaxWriteOps
        /\ aesd_circular_buffer_get_count(r) = n
        /\ \A k \in 0 .. n - 2 : r.entry[Slot(r, k)] = buffer.entry[Slot(buffer, k + 1)]
        /\ r.entry[Slot(r, n - 1)] = e
    <3>1. buffer.in_offs = buffer.out_offs
      BY <1>7 DEF Settled
    <3>2. aesd_circular_buffer_get_count(buffer) = MaxWriteOps
      BY <1>7 DEF aesd_circular_buffer_get_count
    <3>3. QED
      BY <1>5, <1>7, <3>1, <3>2, FullVisits
  <2> HIDE DEF n, L, r
  <2>2. ASSUME NEW k \in 1 .. n
        PROVE  h[r.entry[Slot(r, k - 1)].buffptr] = IF k < n THEN L[k + 1] ELSE command
    <3>1. CASE k < n
      <4>1. k - 1 \in 0 .. n - 2 /\ k \in Index /\ (k - 1) + 1 = k
        BY <1>1, <1>2, <2>1, <3>1
      <4>2. QED
        BY <1>4, <2>1, <3>1, <4>1
    <3>2. CASE ~(k < n)
      <4>1. k - 1 = n - 1
        BY <1>2, <3>2
      <4>2. QED
        BY <2>1, <3>2, <4>1
    <3>3. QED
      BY <3>1, <3>2
  <2>3. LogFrom(r, h) = [k \in 1 .. n |-> IF k < n THEN L[k + 1] ELSE command]
    BY <2>1, <2>2 DEF LogFrom
  <2>4. LogFrom(r, h) = Tail(Append(L, command)) /\ Len(Append(L, command)) = n + 1
    BY <1>1, <1>2, <1>3, <2>1, <2>3, AppendIs, TailAppendIs
  <2>5. Device!Recent(Append(L, command)) = Tail(Append(L, command))
    <3>1. n + 1 > MaxWriteOps
      BY <1>1, <2>1
    <3>2. QED
      BY <2>4, <3>1 DEF Device!Recent
  <2>6. QED
    BY <2>4, <2>5 DEF L, r
<1>8. QED
  BY <1>6, <1>7
(* Before the bytes are copied the completed ring is the ring.             *)
LEMMA CopyStarts ==
  ASSUME DriverInv, NEW p \in Procs, pc[p] = "w_copy"
  PROVE  /\ lock = p /\ p # NULL /\ loaded /\ Settled /\ RingBlocks /\ DeviceTypes
         /\ Log = LogFrom(buffer, heap) /\ Partial = PendingBytes
         /\ PendingBytes \in Seq(Bytes)
         /\ loc[p].chunk \in Chunks /\ loc[p].chunk \in Seq(Bytes)
<1>1. LockInv /\ DeviceTypes /\ ProcTypes /\ Phases /\ MemorySafe
  BY InvParts
<1>2. lock = p /\ p # NULL /\ loaded /\ ~Publishing
  BY WriterHoldsLock DEF WriteLabels, PublishLabels
<1>3. Settled
  BY <1>1, <1>2 DEF Phases
<1>4. RingBlocks /\ PendingBlock
  BY <1>1, <1>2, MemoryParts
<1>5. Log = LogFrom(buffer, heap)
  BY <1>2, LogIs, CompletedWhen
<1>6. Partial = PendingBytes
  BY <1>2 DEF Partial
<1>7. PendingBytes \in Seq(Bytes)
  BY <1>1, <1>4, PendingType
<1>8. loc[p].chunk \in Chunks
  BY <1>1 DEF ProcTypes, LocalsFit
<1>9. loc[p].chunk \in Seq(Bytes)
  BY <1>8, AesdCharAssumption
<1>10. QED
  BY <1>1, <1>2, <1>3, <1>4, <1>5, <1>6, <1>7, <1>8, <1>9

(* The bytes are in a block, and the writer leaves without publishing it.  *)
LEMMA ExtendAndLeave ==
  ASSUME DriverInv, NEW p \in Procs, pc[p] = "w_copy",
         NEW q \in Ptrs, NEW data \in Seq(Bytes), Extend(q, data),
         UNCHANGED <<loaded, buffer>>, lock' = NULL
  PROVE  Log' = Log /\ Partial' = Partial \o data
<1>1. /\ loaded /\ Settled /\ RingBlocks /\ DeviceTypes
      /\ Log = LogFrom(buffer, heap) /\ Partial = PendingBytes
  BY CopyStarts
<1>2. /\ heap'[q] = PendingBytes \o data
      /\ current_entry' = [buffptr |-> q, size |-> InsertPos + Len(data)]
      /\ \A i \in Index : Used(buffer.entry[i]) =>
              heap'[buffer.entry[i].buffptr] = heap[buffer.entry[i].buffptr]
  BY ExtendStep
<1>3. ~Publishing' /\ loaded'
  BY <1>1 DEF Publishing
<1>4. current_entry'.buffptr = q /\ q # NULL
  BY <1>2, AesdCharAssumption
<1>5. Partial' = PendingBytes \o data
  BY <1>2, <1>3, <1>4 DEF Partial, PendingBytes
<1>6. Log' = LogFrom(buffer, heap')
  BY <1>3, NextLogIs, NextCompletedWhen
<1>7. LogFrom(buffer, heap') = LogFrom(buffer, heap)
  <2> DEFINE n == aesd_circular_buffer_get_count(buffer)
  <2>1. n \in 0 .. MaxWriteOps
    BY <1>1, SettledVisits
  <2>2. ASSUME NEW k \in 1 .. n
        PROVE  heap'[buffer.entry[Slot(buffer, k - 1)].buffptr]
                 = heap[buffer.entry[Slot(buffer, k - 1)].buffptr]
    <3>1. k - 1 \in Index /\ k - 1 < n
      <4> HIDE DEF n
      <4> QED BY <2>1, MaxWriteOpsAssumption DEF Index
    <3>2. Slot(buffer, k - 1) \in Index /\ Used(buffer.entry[Slot(buffer, k - 1)])
      BY <1>1, <3>1, SettledVisits
    <3>3. QED
      BY <1>2, <3>2
  <2>3. QED
    BY <2>2 DEF LogFrom
<1>8. QED
  BY <1>1, <1>5, <1>6, <1>7

(* A write with all its bytes copied is a write of the log.                *)
LEMMA CopyRefines ==
  ASSUME DriverInv, NEW p \in Procs, WriteCopy(p)
  PROVE  Device!Next
<1> DEFINE c == loc[p].chunk
<1>1. pc[p] = "w_copy" /\ UNCHANGED <<loaded, buffer, f_pos, got>>
  BY DEF WriteCopy
<1>2. /\ lock = p /\ p # NULL /\ loaded /\ Settled /\ RingBlocks /\ DeviceTypes
      /\ Log = LogFrom(buffer, heap) /\ Partial = PendingBytes
      /\ PendingBytes \in Seq(Bytes)
      /\ c \in Chunks /\ c \in Seq(Bytes)
  BY <1>1, CopyStarts
<1>3. PICK q \in Ptrs : Extend(q, c)
  BY DEF WriteCopy
<1>4. CASE c[Len(c)] = NL
  <2>1. lock' = p /\ pc'[p] = "w_evict"
    BY <1>2, <1>4, InvParts DEF WriteCopy, Goto, ProcTypes
  <2>2. /\ heap'[q] = PendingBytes \o c
        /\ current_entry' = [buffptr |-> q, size |-> InsertPos + Len(c)]
        /\ DeviceInv'
        /\ \A i \in Index : Used(buffer.entry[i]) =>
              heap'[buffer.entry[i].buffptr] = heap[buffer.entry[i].buffptr]
    BY <1>1, <1>2, <1>3, <2>1, ExtendStep
  <2>3. Publishing'
    BY <1>2, <2>1 DEF Publishing, PublishLabels
  <2>4. Partial' = <<>>
    BY <2>3 DEF Partial
  <2>5. Log' = LogFrom(aesd_circular_buffer_add_entry(buffer, current_entry'), heap')
    BY <1>1, <1>2, <2>1, <2>3, NextLogIs, NextCompletedWhen
  <2>6. current_entry' \in EntryType /\ heap'[current_entry'.buffptr] = PendingBytes \o c
    BY <2>2 DEF DeviceInv, DeviceTypes
  <2>7. PendingBytes \o c \in Seq(Bytes)
    <3> DEFINE s == PendingBytes
    <3>1. s \in Seq(Bytes)
      BY <1>2
    <3> HIDE DEF s, c
    <3>2. s \o c \in Seq(Bytes)
      BY <1>2, <3>1, ConcatProperties
    <3>3. QED
      BY <3>2 DEF s
  <2>8. Log' = Device!Recent(Append(LogFrom(buffer, heap), PendingBytes \o c))
    <3> DEFINE command == PendingBytes \o c
    <3>1. command \in Seq(Bytes) /\ heap'[current_entry'.buffptr] = command
      BY <2>6, <2>7
    <3> HIDE DEF command
    <3>2. Log' = Device!Recent(Append(LogFrom(buffer, heap), command))
      BY <1>2, <2>2, <2>5, <2>6, <3>1, PublishAppends
    <3>3. QED
      BY <3>2 DEF command
  <2>9. Device!Write(c)
    BY <1>1, <1>2, <1>4, <2>4, <2>8 DEF Device!Write
  <2>10. QED
    BY <1>2, <2>9 DEF Device!Next
<1>5. CASE c[Len(c)] # NL
  <2>1. lock' = NULL
    BY <1>5 DEF WriteCopy
  <2>2. Log' = Log /\ Partial' = Partial \o c
    BY <1>1, <1>2, <1>3, <2>1, ExtendAndLeave
  <2>3. Device!Write(c)
    BY <1>1, <1>5, <2>2 DEF Device!Write
  <2>4. QED
    BY <1>2, <2>3 DEF Device!Next
<1>6. QED
  BY <1>4, <1>5

(* A write that fails damages the pending command and nothing else.        *)
LEMMA FailureRefines ==
  ASSUME DriverInv, NEW p \in Procs, WriteNoMem(p) \/ WriteFault(p)
  PROVE  Device!Next
<1> DEFINE c == loc[p].chunk
<1>1. pc[p] = "w_copy" /\ UNCHANGED <<loaded, buffer, f_pos, got>> /\ lock' = NULL
  BY DEF WriteNoMem, WriteFault
<1>2. /\ loaded /\ Log = LogFrom(buffer, heap)
      /\ c \in Chunks /\ c \in Seq(Bytes)
  BY <1>1, CopyStarts
<1>3. CASE WriteNoMem(p)
  <2>1. heap' = heap /\ current_entry'.buffptr = NULL
    BY <1>3 DEF WriteNoMem
  <2>2. ~Publishing'
    BY <1>1 DEF Publishing
  <2>3. Partial' = <<>>
    BY <2>1, <2>2 DEF Partial, PendingBytes
  <2>4. Log' = Log
    BY <1>1, <1>2, <2>1, <2>2, NextLogIs, NextCompletedWhen
  <2>5. Device!FailedWrite(c)
    BY <1>1, <2>3, <2>4 DEF Device!FailedWrite
  <2>6. QED
    BY <1>2, <2>5 DEF Device!Next
<1>4. CASE WriteFault(p)
  <2>1. PICK q \in Ptrs, n \in 0 .. Len(c) - 1 :
          Extend(q, [i \in DOMAIN c |-> IF i <= n THEN c[i] ELSE Zero])
    BY <1>4 DEF WriteFault
  <2> DEFINE data == [i \in DOMAIN c |-> IF i <= n THEN c[i] ELSE Zero]
  <2>2. data \in Seq(Bytes)
    <3>1. c \in Seq(Bytes) /\ Zero \in Bytes
      BY <1>2, AesdCharAssumption
    <3> HIDE DEF c
    <3>2. DOMAIN c = 1 .. Len(c) /\ Len(c) \in Nat /\ \A i \in 1 .. Len(c) : c[i] \in Bytes
      BY <3>1
    <3>3. QED
      BY <3>1, <3>2
  <2>3. Extend(q, data)
    BY <2>1
  <2> HIDE DEF data
  <2>4. Log' = Log /\ Partial' = Partial \o data
    BY <1>1, <2>2, <2>3, ExtendAndLeave
  <2>5. Device!FailedWrite(c)
    BY <1>1, <2>4 DEF Device!FailedWrite, data
  <2>6. QED
    BY <1>2, <2>5 DEF Device!Next
<1>5. QED
  BY <1>3, <1>4
-----------------------------------------------------------------------------
(* A read.                                                                 *)

(* The start of a command of the log in these terms.                       *)
LEMMA StartUnfolds ==
  ASSUME NEW k
  PROVE  Device!Start(k) = (CHOOSE f : IsStarts(f, k, Log))[k]
  BY DEF Device!Start, IsStarts

(* A command of the log starts where the lookups have summed up the ones   *)
(* before it.                                                              *)
LEMMA StartIs ==
  ASSUME DeviceTypes, RingBlocks, Settled, Log = LogFrom(buffer, heap),
         NEW k \in 1 .. aesd_circular_buffer_get_count(buffer)
  PROVE  Device!Start(k) = BytesBefore(buffer)[k - 1]
<1> DEFINE n == aesd_circular_buffer_get_count(buffer)
           B == BytesBefore(buffer)
<1>1. MaxWriteOps \in Nat /\ Index = 0 .. MaxWriteOps - 1
  BY MaxWriteOpsAssumption DEF Index
<1>2. n \in 0 .. MaxWriteOps /\ n \in Nat /\ k \in Nat /\ k >= 1 /\ k <= n
  <2>1. n \in 0 .. MaxWriteOps
    BY SettledVisits
  <2> HIDE DEF n
  <2>2. QED
    BY <1>1, <2>1 DEF n
<1>3. B[0] = 0 /\ \A j \in Index : B[j + 1] = B[j] + buffer.entry[Slot(buffer, j)].size
  BY RingIsSearchable, BytesBeforeGrows
<1>4. \A j \in Index : j < n => Len(Log[j + 1]) = buffer.entry[Slot(buffer, j)].size
  BY LogEntries
<1> HIDE DEF n, B
<1>5. ASSUME NEW j \in Nat, j + 1 <= k - 1 PROVE B[j + 1] = B[j] + Len(Log[j + 1])
  BY <1>1, <1>2, <1>3, <1>4, <1>5
<1>6. (CHOOSE f : IsStarts(f, k, Log))[k] = B[k - 1]
  <2> DEFINE l == Log
  <2>1. k \in Nat \ {0} /\ B[0] = 0
    BY <1>2, <1>3
  <2>2. \A j \in Nat : j + 1 <= k - 1 => B[j + 1] = B[j] + Len(l[j + 1])
    BY <1>5
  <2> HIDE DEF l
  <2>3. (CHOOSE f : IsStarts(f, k, l))[k] = B[k - 1]
    BY <2>1, <2>2, StartsAreSums
  <2>4. QED
    BY <2>3 DEF l
<1>7. QED
  BY <1>6, StartUnfolds DEF B
(* With the lock free the log is what is in the ring.                      *)
LEMMA LockFree ==
  ASSUME DriverInv, loaded, lock = NULL
  PROVE  /\ DeviceTypes /\ RingBlocks /\ Settled /\ ~Publishing
         /\ Log = LogFrom(buffer, heap)
<1>1. DeviceTypes /\ Phases /\ MemorySafe
  BY InvParts
<1>2. ~Publishing
  BY DEF Publishing
<1>3. Settled /\ RingBlocks
  BY <1>1, <1>2, MemoryParts DEF Phases
<1>4. Log = LogFrom(buffer, heap)
  BY <1>2, LogIs, CompletedWhen
<1>5. QED
  BY <1>1, <1>2, <1>3, <1>4

(* aesd_read returns bytes of the command that its position is in, and     *)
(* moves past them.                                                        *)
LEMMA ReadRefines ==
  ASSUME DriverInv, NEW p \in Procs, NEW count \in Counts, aesd_read(p, count)
  PROVE  Device!Read(p, count)
<1> DEFINE n == aesd_circular_buffer_get_count(buffer)
           B == BytesBefore(buffer)
           x == f_pos[p]
           at == aesd_circular_buffer_find_entry_offset_for_fpos(buffer, x)
<1>1. /\ loaded /\ lock = NULL /\ UNCHANGED <<device, pc, loc>>
      /\ f_pos \in [Procs -> Nat] /\ got \in [Procs -> Seq(Bytes)]
  BY InvParts DEF aesd_read, InUser, ProcTypes
<1>2. DeviceTypes /\ RingBlocks /\ Settled /\ Log = LogFrom(buffer, heap)
  BY <1>1, LockFree
<1>3. Log' = Log /\ Partial' = Partial
  BY <1>1, LogKept
<1>4. x \in Nat /\ count \in Nat
  BY <1>1, AesdCharAssumption
<1>5. MaxWriteOps \in Nat /\ Index = 0 .. MaxWriteOps - 1
  BY MaxWriteOpsAssumption DEF Index
<1>6. n \in 0 .. MaxWriteOps /\ n \in Nat
  BY <1>2, <1>5, SettledVisits
<1>7. DOMAIN Log = 1 .. n
  BY <1>2, LogEntries
<1>8. Searchable(buffer)
  BY <1>2, RingIsSearchable
<1>9. CASE at = NotFound
  <2>1. B[MaxWriteOps] <= x
    BY <1>4, <1>8, <1>9, NotFoundIsPastEnd
  <2>2. ASSUME NEW k \in DOMAIN Log PROVE x >= Device!Start(k) + Len(Log[k])
    <3>1. k \in 1 .. n
      BY <1>7
    <3>2. Device!Start(k) = B[k - 1]
      BY <1>2, <3>1, StartIs
    <3>3. k - 1 \in Index /\ k - 1 < n /\ (k - 1) + 1 = k /\ k \in 0 .. MaxWriteOps
          /\ MaxWriteOps \in 0 .. MaxWriteOps /\ k <= MaxWriteOps
      <4> HIDE DEF n
      <4> QED BY <1>5, <1>6, <3>1
    <3>4. Len(Log[k]) = buffer.entry[Slot(buffer, k - 1)].size
      BY <1>2, <3>3, LogEntries
    <3>5. B[k] = B[k - 1] + buffer.entry[Slot(buffer, k - 1)].size
      BY <1>8, <3>3, BytesBeforeGrows
    <3>6. B[k] \in Nat /\ B[MaxWriteOps] \in Nat /\ B[k] <= B[MaxWriteOps]
      BY <1>8, <3>3, BytesBeforeGrows
    <3> HIDE DEF B, x
    <3>7. QED
      BY <1>4, <2>1, <3>2, <3>4, <3>5, <3>6
  <2>3. got' = [got EXCEPT ![p] = <<>>] /\ UNCHANGED f_pos
    BY <1>9 DEF aesd_read
  <2>4. QED
    BY <1>3, <2>2, <2>3 DEF Device!Read
<1>10. CASE at # NotFound
  <2>1. PICK k \in Index :
          /\ B[k] <= x
          /\ x < B[k] + buffer.entry[Slot(buffer, k)].size
          /\ at = [entry |-> Slot(buffer, k), offset |-> x - B[k]]
    BY <1>4, <1>8, <1>10, FindIsInEntry
  <2> DEFINE size == buffer.entry[Slot(buffer, k)].size
             from == x - B[k]
             left == size - from
             m == IF count < left THEN count ELSE left
             command == heap[buffer.entry[Slot(buffer, k)].buffptr]
  <2>2. B[k] \in Nat /\ size \in Nat
    BY <1>5, <1>8, BytesBeforeGrows
  <2>3. size # 0 /\ from \in 0 .. size - 1 /\ left \in Nat /\ left > 0
    <3> HIDE DEF B, x, size
    <3> QED BY <1>4, <2>1, <2>2 DEF size
  <2>4. k < n
    BY <1>2, <2>3, SettledVisits
  <2>5. /\ Log[k + 1] = command /\ Len(Log[k + 1]) = size
        /\ command \in Seq(Bytes)
    BY <1>2, <2>4, LogEntries
  <2>6. k + 1 \in 1 .. n /\ (k + 1) - 1 = k
    <3> HIDE DEF n
    <3> QED BY <1>5, <1>6, <2>4
  <2>7. Device!Start(k + 1) = B[k]
    BY <1>2, <2>6, StartIs
  <2>8. at.entry = Slot(buffer, k) /\ at.offset = from
    BY <2>1
  <2>9. got' = [got EXCEPT ![p] = SubSeq(command, from + 1, from + m)]
        /\ f_pos' = [f_pos EXCEPT ![p] = x + m]
    <3>1. CASE count = 0
      <4>1. got' = [got EXCEPT ![p] = <<>>] /\ f_pos' = f_pos
        BY <3>1 DEF aesd_read
      <4>2. m = 0
        <5> HIDE DEF left
        <5> QED BY <2>3, <3>1
      <4>3. x + m = x
        <5> HIDE DEF m, x
        <5> QED BY <1>4, <4>2
      <4>4. SubSeq(command, from + 1, from + m) = <<>>
        <5>1. from \in Nat /\ from + m = from
          <6> HIDE DEF m, from, size
          <6> QED BY <2>2, <2>3, <4>2
        <5> HIDE DEF from, command
        <5>2. SubSeq(command, from + 1, from) = <<>>
          BY <2>5, <5>1
        <5>3. QED
          BY <5>1, <5>2
      <4> HIDE DEF m
      <4>5. f_pos = [f_pos EXCEPT ![p] = x + m]
        BY <1>1, <4>3
      <4>6. QED
        BY <4>1, <4>4, <4>5
    <3>2. CASE count # 0
      <4> DEFINE m2 == IF left < count THEN left ELSE count
      <4>1. /\ got' = [got EXCEPT ![p] = SubSeq(command, from + 1, from + m2)]
            /\ f_pos' = [f_pos EXCEPT ![p] = x + m2]
        BY <1>10, <2>8, <3>2 DEF aesd_read
      <4>2. m2 = m
        <5> HIDE DEF left
        <5> QED BY <1>4, <2>3
      <4> HIDE DEF m2, m
      <4>3. QED
        BY <4>1, <4>2
    <3>3. QED
      BY <3>1, <3>2
  <2>10. \E j \in DOMAIN Log :
          LET fr == f_pos[p] - Device!Start(j)
              num == IF count < Len(Log[j]) - fr THEN count ELSE Len(Log[j]) - fr
          IN  /\ fr \in 0 .. Len(Log[j]) - 1
              /\ got' = [got EXCEPT ![p] = SubSeq(Log[j], fr + 1, fr + num)]
              /\ f_pos' = [f_pos EXCEPT ![p] = x + num]
    <3>1. k + 1 \in DOMAIN Log
      BY <1>7, <2>6
    <3>2. QED
      BY <2>3, <2>5, <2>7, <2>9, <3>1
  <2>11. QED
    BY <1>3, <2>10 DEF Device!Read
<1>11. QED
  BY <1>9, <1>10
-----------------------------------------------------------------------------
(* The other calls and steps.                                              *)

(* Loading and unloading empty the log.                                    *)
LEMMA ModuleRefines ==
  ASSUME DriverInv, aesd_init_module \/ aesd_cleanup_module
  PROVE  Device!Reset
<1>1. UNCHANGED <<f_pos, got>>
  BY DEF aesd_init_module, aesd_cleanup_module
<1>2. CASE aesd_init_module
  <2>1. /\ loaded' = TRUE /\ lock' = NULL /\ current_entry' = EmptyEntry
        /\ buffer' = aesd_circular_buffer_init
    BY <1>2 DEF aesd_init_module
  <2>2. ~Publishing'
    BY <2>1 DEF Publishing
  <2>3. Partial' = <<>>
    BY <2>1, <2>2 DEF Partial, PendingBytes, EmptyEntry
  <2>4. Log' = LogFrom(buffer', heap')
    BY <2>1, <2>2, NextLogIs, NextCompletedWhen
  <2>5. aesd_circular_buffer_get_count(buffer') = 0
    BY <2>1 DEF aesd_circular_buffer_init, aesd_circular_buffer_get_count
  <2>6. Log' = <<>>
    BY <2>4, <2>5 DEF LogFrom
  <2>7. QED
    BY <1>1, <2>3, <2>6 DEF Device!Reset
<1>3. CASE aesd_cleanup_module
  <2>1. ~loaded'
    BY <1>3 DEF aesd_cleanup_module
  <2>2. Log' = <<>> /\ Partial' = <<>>
    BY <2>1 DEF Log, Partial
  <2>3. QED
    BY <1>1, <2>2 DEF Device!Reset
<1>4. QED
  BY <1>2, <1>3

(* The calls.                                                              *)
LEMMA CallRefines ==
  ASSUME DriverInv, NEW p \in Procs, Call(p)
  PROVE  Device!Next \/ UNCHANGED Device!vars
<1>1. LockInv /\ DeviceTypes /\ loc \in [Procs -> Locals] /\ pc \in [Procs -> Labels]
  BY InvParts DEF ProcTypes
<1>2. UNCHANGED <<device, pc, loc>> => Log' = Log /\ Partial' = Partial
  BY LogKept
<1>3. ASSUME pc[p] = "user", UNCHANGED device, NEW label, NEW locals, Goto(p, label, locals)
      PROVE  Log' = Log /\ Partial' = Partial
  BY <1>1, <1>3, LogKept, NotTheWriter DEF WriteLabels, PublishLabels
<1>4. CASE aesd_open(p) \/ ReadFault(p) \/ IoctlRefused(p)
  <2>1. UNCHANGED <<device, pc, loc, f_pos, got>>
    BY <1>4 DEF aesd_open, ReadFault, IoctlRefused
  <2>2. QED
    BY <1>2, <2>1 DEF Device!vars
<1>5. CASE aesd_release(p)
  <2>1. Device!Close(p)
    BY <1>2, <1>5 DEF aesd_release, Device!Close
  <2>2. QED
    BY <2>1 DEF Device!Next
<1>6. ASSUME NEW n \in Counts, aesd_read(p, n) PROVE Device!Next
  BY <1>6, ReadRefines DEF Device!Next
<1>7. ASSUME NEW c \in Chunks, aesd_write(p, c) PROVE UNCHANGED Device!vars
  <2>1. /\ lock = NULL /\ lock' = p /\ pc'[p] = "w_copy"
        /\ UNCHANGED <<loaded, buffer, current_entry, heap, f_pos, got>>
    BY <1>1, <1>7 DEF aesd_write, Enter, Goto
  <2>2. QED
    BY <2>1, LockTaken DEF Device!vars
<1>8. ASSUME NEW o \in LseekOffsets, NEW w \in Whence, llseek(p, o, w)
      PROVE  UNCHANGED Device!vars
  BY <1>3, <1>8 DEF llseek, Enter, InUser, Device!vars
<1>9. ASSUME NEW c \in SeekCmds, NEW o \in SeekOffsets, unlocked_ioctl(p, c, o)
      PROVE  UNCHANGED Device!vars
  BY <1>3, <1>9 DEF unlocked_ioctl, Enter, InUser, Device!vars
<1>10. QED
  BY <1>4, <1>5, <1>6, <1>7, <1>8, <1>9 DEF Call

(* The unlocked functions move the position of one file at most.           *)
LEMMA SeekRefines ==
  ASSUME DriverInv, NEW p \in Procs,
         \/ LlseekLoop(p) \/ fixed_size_llseek(p)
         \/ IoctlFull(p) \/ IoctlOut(p) \/ IoctlIn(p) \/ IoctlEntry(p) \/ IoctlSize(p)
         \/ IoctlStart(p) \/ IoctlLoop(p)
  PROVE  Device!Next \/ UNCHANGED Device!vars
<1>1. LockInv /\ DeviceTypes /\ ProcTypes /\ loc \in [Procs -> Locals]
  BY InvParts DEF ProcTypes
<1>2. /\ pc[p] \in SeekLabels /\ UNCHANGED <<device, got>>
      /\ \E label, locals : Goto(p, label, locals)
      /\ f_pos' = f_pos \/ \E x : f_pos' = [f_pos EXCEPT ![p] = x]
  <2> USE DEF SeekLabels, Return
  <2>1. CASE LlseekLoop(p)
    BY <2>1 DEF LlseekLoop
  <2>2. CASE fixed_size_llseek(p)
    BY <2>2 DEF fixed_size_llseek
  <2>3. CASE IoctlFull(p)
    BY <2>3 DEF IoctlFull, CheckCmd
  <2>4. CASE IoctlOut(p)
    BY <2>4 DEF IoctlOut
  <2>5. CASE IoctlIn(p)
    BY <2>5 DEF IoctlIn, CheckCmd
  <2>6. CASE IoctlEntry(p)
    BY <2>6 DEF IoctlEntry
  <2>7. CASE IoctlSize(p)
    BY <2>7 DEF IoctlSize
  <2>8. CASE IoctlStart(p)
    BY <2>8 DEF IoctlStart
  <2>9. CASE IoctlLoop(p)
    BY <2>9 DEF IoctlLoop
  <2>10. QED
    BY <2>1, <2>2, <2>3, <2>4, <2>5, <2>6, <2>7, <2>8, <2>9
<1>3. pc[p] \notin WriteLabels
  BY <1>2 DEF SeekLabels, WriteLabels, PublishLabels
<1>4. Log' = Log /\ Partial' = Partial
  BY <1>1, <1>2, <1>3, LogKept, NotTheWriter
<1>5. CASE f_pos' = f_pos
  BY <1>2, <1>4, <1>5 DEF Device!vars
<1>6. CASE \E x : f_pos' = [f_pos EXCEPT ![p] = x]
  <2>1. DriverInv'
    BY DriverStep DEF Next, Step
  <2>2. f_pos \in [Procs -> Nat] /\ f_pos' \in [Procs -> Nat]
    BY <1>1, <2>1 DEF ProcTypes, DriverInv, TypeOK
  <2>3. f_pos' = [f_pos EXCEPT ![p] = f_pos'[p]]
    BY <1>6, <2>2
  <2>4. f_pos'[p] \in Nat
    BY <2>2
  <2>5. Device!Seek(p)
    BY <1>2, <1>4, <2>3, <2>4 DEF Device!Seek
  <2>6. QED
    BY <2>5 DEF Device!Next
<1>7. QED
  BY <1>2, <1>5, <1>6

(* Every step of the driver is a step of the abstract device, or none.     *)
LEMMA DriverRefines ==
  DriverInv /\ [Next]_vars => [Device!Next]_Device!vars
<1> SUFFICES ASSUME DriverInv, [Next]_vars
             PROVE  Device!Next \/ UNCHANGED Device!vars
  OBVIOUS
<1>1. CASE UNCHANGED vars
  <2>1. UNCHANGED <<device, pc, loc, f_pos, got>>
    BY <1>1 DEF vars, device
  <2>2. QED
    BY <2>1, LogKept DEF Device!vars
<1>2. CASE aesd_init_module \/ aesd_cleanup_module
  BY <1>2, ModuleRefines DEF Device!Next
<1>3. ASSUME NEW p \in Procs, Call(p) PROVE Device!Next \/ UNCHANGED Device!vars
  BY <1>3, CallRefines
<1>4. ASSUME NEW p \in Procs, Step(p) PROVE Device!Next \/ UNCHANGED Device!vars
  <2>1. CASE WriteCopy(p) \/ WriteNoMem(p) \/ WriteFault(p)
    BY <2>1, CopyRefines, FailureRefines
  <2>2. CASE WriteEvict(p) \/ WriteStore(p) \/ WriteAdvance(p) \/ WriteCorner(p)
    <3>1. UNCHANGED <<f_pos, got>>
      BY <2>2 DEF WriteEvict, WriteStore, WriteAdvance, WriteCorner
    <3>2. QED
      BY <2>2, <3>1, EvictKeepsLog, StoresKeepLog DEF Device!vars
  <2>3. QED
    BY <1>4, <2>1, <2>2, SeekRefines DEF Step
<1>5. QED
  BY <1>1, <1>2, <1>3, <1>4 DEF Next

(* Whatever the interleaving of its steps, for any number of processes and *)
(* whichever allocation or copy fails, the driver shows its users an       *)
(* atomic log of the last MaxWriteOps commands: the bytes of a write enter *)
(* it all at once, a read returns bytes of one command at its position, a  *)
(* failed write damages the pending command only, and a seek moves one     *)
(* file's position only.                                                   *)
THEOREM DriverImplementsDevice == Spec => ImplementsCharDevice
<1>1. Init => Device!Init
  BY DEF Init, Device!Init, Log, Partial
<1>2. QED
  BY InitDriver, DriverStep, DriverRefines, <1>1, PTL
  DEF Spec, ImplementsCharDevice, Device!Spec
=============================================================================
