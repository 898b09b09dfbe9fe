------------------------- MODULE AesdCharProperties -------------------------
(***************************************************************************)
(* What the character driver must get right.                               *)
(***************************************************************************)
EXTENDS AesdChar

PublishLabels == {"w_evict", "w_store", "w_advance", "w_corner"}
WriteLabels   == {"w_copy"} \cup PublishLabels
SeekLabels    == {"l_loop", "l_set", "i_full", "i_out", "i_in", "i_entry", "i_size",
                  "i_start", "i_loop"}

EntryType == [buffptr: Ptrs \cup {NULL}, size: Nat]

(* The types of the state, with the field widths of the structs.           *)
TypeOK ==
  /\ loaded \in BOOLEAN
  /\ buffer \in [entry: [Index -> EntryType], in_offs: Index, out_offs: Index,
                 full: BOOLEAN]
  /\ current_entry \in EntryType
  /\ lock \in Procs \cup {NULL}
  /\ heap \in [Ptrs -> Seq(Bytes) \cup {Free}]
  /\ open \in SUBSET Procs
  /\ f_pos \in [Procs -> Nat]
  /\ pc \in [Procs -> {"user"} \cup WriteLabels \cup SeekLabels]
  /\ loc \in [Procs -> Locals]
  /\ ret \in [Procs -> {"ok", "EINVAL", "EFAULT", "ENOMEM", "ENOTTY"}]
  /\ got \in [Procs -> Seq(Bytes)]
-----------------------------------------------------------------------------
(* The refinement.  A write takes effect when its bytes are copied: from   *)
(* then until the lock is released, the log is the one the remaining       *)
(* stores will leave.                                                      *)

Publishing == lock # NULL /\ pc[lock] \in PublishLabels

CompletedRing ==
  IF ~Publishing THEN buffer
  ELSE CASE pc[lock] \in {"w_evict", "w_store"} ->
              aesd_circular_buffer_add_entry(buffer, current_entry)
         [] pc[lock] = "w_advance" -> CornerCases(AdvanceIn(buffer), loc[lock].count)
         [] pc[lock] = "w_corner"  -> CornerCases(buffer, loc[lock].count)

Log ==
  IF ~loaded THEN <<>>
  ELSE [k \in 1 .. aesd_circular_buffer_get_count(CompletedRing) |->
          heap[CompletedRing.entry[Slot(CompletedRing, k - 1)].buffptr]]

Partial == IF ~loaded \/ Publishing THEN <<>> ELSE PendingBytes

Device == INSTANCE CharDevice
            WITH Capacity <- MaxWriteOps, log <- Log, partial <- Partial

(* Whatever the interleaving of the steps of the driver, readers and       *)
(* writers see an atomic log: a write is one change of the log, a read     *)
(* returns the bytes of the log at its position.                           *)
ImplementsCharDevice == Device!Spec
-----------------------------------------------------------------------------
(* The lock is held exactly while a process is between mutex_lock and      *)
(* mutex_unlock of aesd_write: no error path returns to user space with    *)
(* it, and two writers never interleave their stores to the ring.          *)
LockDiscipline == \A p \in Procs : lock = p <=> pc[p] \in WriteLabels
-----------------------------------------------------------------------------
(* Memory.                                                                 *)

\* The places that own a block.
RingSlots == {i \in Index : buffer.entry[i].buffptr # NULL}

(* While the module is loaded, every entry of the ring that has bytes, and *)
(* the pending entry, points to an allocated block of exactly its size,    *)
(* and no block belongs to two of them -- except that an entry just stored *)
(* is also still current_entry until the write ends.  So neither aesd_read *)
(* nor the two kfree calls ever touch a block that was freed.              *)
MemorySafe ==
  loaded =>
    /\ \A i \in Index :
         LET e == buffer.entry[i]
         IN  IF e.buffptr = NULL THEN e.size = 0
             ELSE heap[e.buffptr] # Free /\ Len(heap[e.buffptr]) = e.size
    /\ current_entry.buffptr # NULL =>
         /\ heap[current_entry.buffptr] # Free
         /\ Len(heap[current_entry.buffptr]) = current_entry.size
    /\ \A i, j \in RingSlots :
         buffer.entry[i].buffptr = buffer.entry[j].buffptr => i = j
    /\ \A i \in RingSlots :
         buffer.entry[i].buffptr = current_entry.buffptr =>
           lock # NULL /\ pc[lock] \in {"w_advance", "w_corner"}

(* If no allocation fails, every allocated block is in the ring or is the  *)
(* pending one, and unloading the module leaves none behind: eviction and  *)
(* aesd_cleanup_module free every buffer they should.                      *)
NoLeak ==
  LET owned == IF loaded
               THEN {buffer.entry[i].buffptr : i \in RingSlots} \cup {current_entry.buffptr}
               ELSE {}
  IN  AllocMayFail \/ \A q \in Ptrs : heap[q] # Free => q \in owned
-----------------------------------------------------------------------------
(* Seeking.                                                                *)

\* The seek of p names a byte of the log.
SeekTargetExists(p) ==
  /\ loc[p].cmd < Len(Log)
  /\ loc[p].off < Len(Log[loc[p].cmd + 1])

Rejected(p) ==
  /\ pc[p] \in {"i_full", "i_in", "i_size", "i_loop"}
  /\ pc'[p] = "user" /\ ret'[p] = "EINVAL"

Accepted(p) == pc[p] = "i_loop" /\ pc'[p] = "user" /\ ret'[p] = "ok"

(* AESDCHAR_IOCSEEKTO fails only if the device does not hold the write     *)
(* command it names, or that command has no byte at the offset.            *)
SeekRejectsOnlyMissing ==
  [][\A p \in Procs : Rejected(p) => ~SeekTargetExists(p)]_vars

\* The number of commands before the write in progress, if there is one.
SettledCount ==
  IF Publishing /\ pc[lock] \in {"w_advance", "w_corner"} THEN loc[lock].count
  ELSE aesd_circular_buffer_get_count(buffer)

(* The count that write_cmd is checked against is taken without the lock,  *)
(* in up to three reads.  It misses a command that was there before the    *)
(* write in progress only if the reads overlap with the write that fills   *)
(* the ring: full was read before its store, and in_offs after it has come *)
(* round.  Stale reads do no other harm.                                   *)
CountMissesOnlyAtFilling ==
  [][\A p \in Procs : pc[p] \in {"i_full", "i_in"} /\ Rejected(p) =>
       \/ loc[p].cmd >= SettledCount
       \/ pc[p] = "i_in" /\ (buffer.full \/ buffer.in_offs = buffer.out_offs)]_vars

(* With nobody else in the driver, a seek that is accepted leaves the      *)
(* position at the byte it names -- the next read returns exactly the rest *)
(* of that command -- and a seek whose target is in the array part that    *)
(* starts at out_offs is accepted.                                         *)
QuietSeekIsExact ==
  [][\A p \in Procs :
       /\ Accepted(p) => Device!SeekTo(p, loc[p].cmd, loc[p].off)
       /\ Rejected(p) /\ SeekTargetExists(p) =>
            buffer.out_offs + loc[p].cmd >= MaxWriteOps]_vars
-----------------------------------------------------------------------------
(* Every call into the driver returns: the loops that run without the lock *)
(* end whatever the writers do, and every path of aesd_write gives the     *)
(* lock back, so that the callers that wait for it can go on.              *)
EveryCallReturns ==
  /\ \A p \in Procs : (pc[p] # "user") ~> (pc[p] = "user")
  /\ (lock # NULL) ~> (lock = NULL)
=============================================================================
