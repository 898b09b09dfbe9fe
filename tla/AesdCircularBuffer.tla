------------------------- MODULE AesdCircularBuffer -------------------------
(***************************************************************************)
(* The ring of the most recent write commands, aesd-circular-buffer.{h,c}. *)
(* A struct aesd_circular_buffer is a record; a pointer to one of its      *)
(* entries is the entry's index; an entry is [buffptr, size].              *)
(*                                                                         *)
(* The do/while loops of the C code start at out_offs and visit every slot *)
(* of the array once.  The k-th visit (from 0) is at Slot(buffer, k), and  *)
(* BytesBefore(buffer)[k] is the value of pos_bytes when it begins.        *)
(***************************************************************************)
EXTENDS Integers

CONSTANTS
  MaxWriteOps,  \* AESDCHAR_MAX_WRITE_OPERATIONS_SUPPORTED (10 in the build)
  NULL          \* the null pointer

\* in_offs and out_offs are uint8_t, so an index must fit in 8 bits.
ASSUME MaxWriteOpsAssumption == MaxWriteOps \in 1 .. 256

Index == 0 .. MaxWriteOps - 1

\* No entry has the address 0.
ASSUME NullAssumption == NULL \notin Index

EmptyEntry == [buffptr |-> NULL, size |-> 0]

aesd_circular_buffer_init ==
  [entry    |-> [i \in Index |-> EmptyEntry],
   in_offs  |-> 0,
   out_offs |-> 0,
   full     |-> FALSE]

-----------------------------------------------------------------------------
(* Lookups.                                                                *)

aesd_circular_buffer_get_count(buffer) ==
  IF buffer.full THEN MaxWriteOps
  ELSE IF buffer.out_offs <= buffer.in_offs
       THEN buffer.in_offs - buffer.out_offs
       ELSE buffer.in_offs + MaxWriteOps - buffer.out_offs

\* Mutant: the loops start at slot 0 instead of out_offs.
MutSlotFromZero(buffer, k) == k % MaxWriteOps

Slot(buffer, k) == (buffer.out_offs + k) % MaxWriteOps

BytesBefore(buffer) ==
  LET before[k \in 0 .. MaxWriteOps] ==
        IF k = 0 THEN 0
        ELSE before[k - 1] + buffer.entry[Slot(buffer, k - 1)].size
  IN  before

aesd_circular_buffer_get_size(buffer) == BytesBefore(buffer)[MaxWriteOps]

\* The first of the visits that satisfy the loop's exit test.
FirstVisit(hits) == CHOOSE k \in hits : \A j \in hits : k <= j

NotFound == [entry |-> NULL, offset |-> 0]

\* Mutant: <= for <, so the position after an entry's last byte is in it.
MutFindOffByOne(buffer, char_offset) ==
  LET before == BytesBefore(buffer)
      hits   == {k \in Index : char_offset <= before[k] + buffer.entry[Slot(buffer, k)].size}
  IN  IF hits = {} THEN NotFound
      ELSE LET k == FirstVisit(hits)
           IN  [entry |-> Slot(buffer, k), offset |-> char_offset - before[k]]

aesd_circular_buffer_find_entry_offset_for_fpos(buffer, char_offset) ==
  LET before == BytesBefore(buffer)
      hits   == {k \in Index : char_offset < before[k] + buffer.entry[Slot(buffer, k)].size}
  IN  IF hits = {} THEN NotFound
      ELSE LET k == FirstVisit(hits)
           IN  [entry |-> Slot(buffer, k), offset |-> char_offset - before[k]]

\* -1 stands for the return value 1 (no such position); otherwise *fpos.
\* Mutant: the offset is not added to the bytes of the earlier entries.
MutFposForEntryDropsOffset(buffer, entry, entry_offset) ==
  LET hits == {k \in Index : Slot(buffer, k) = entry}
  IN  IF entry \notin Index \/ entry_offset >= buffer.entry[entry].size THEN -1
      ELSE BytesBefore(buffer)[FirstVisit(hits)]

aesd_circular_buffer_fpos_for_entry(buffer, entry, entry_offset) ==
  LET hits == {k \in Index : Slot(buffer, k) = entry}
  IN  IF entry \notin Index \/ entry_offset >= buffer.entry[entry].size THEN -1
      ELSE BytesBefore(buffer)[FirstVisit(hits)] + entry_offset

-----------------------------------------------------------------------------
(* aesd_circular_buffer_add_entry, one operator per store to the struct:   *)
(* a reader that does not hold the lock can see the states in between.     *)

StoreEntry(buffer, add_entry) ==
  [buffer EXCEPT !.entry[buffer.in_offs] = add_entry]

\* Mutant: in_offs is not wrapped.
MutAdvanceInNoWrap(buffer) == [buffer EXCEPT !.in_offs = buffer.in_offs + 1]

AdvanceIn(buffer) ==
  [buffer EXCEPT !.in_offs = (buffer.in_offs + 1) % MaxWriteOps]

\* Mutant: a full ring does not move out_offs past the overwritten entry.
MutCornerCasesKeepOut(buffer, entry_count) ==
  IF entry_count < MaxWriteOps
  THEN [buffer EXCEPT !.full = buffer.full \/ entry_count + 1 = MaxWriteOps]
  ELSE buffer

CornerCases(buffer, entry_count) ==
  IF entry_count < MaxWriteOps
  THEN [buffer EXCEPT !.full = buffer.full \/ entry_count + 1 = MaxWriteOps]
  ELSE [buffer EXCEPT !.out_offs = buffer.in_offs]

aesd_circular_buffer_add_entry(buffer, add_entry) ==
  CornerCases(AdvanceIn(StoreEntry(buffer, add_entry)),
              aesd_circular_buffer_get_count(buffer))
=============================================================================
