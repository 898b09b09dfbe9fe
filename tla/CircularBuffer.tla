--------------------------- MODULE CircularBuffer ---------------------------
(***************************************************************************)
(* The ring as a data structure used by one thread: initialised by         *)
(* aesd_circular_buffer_init, then any sequence of calls of                *)
(* aesd_circular_buffer_add_entry.  Between two calls the lookups are      *)
(* functions of the state, and the ring implements CommandLog.             *)
(***************************************************************************)
EXTENDS AesdCircularBuffer, Sequences

CONSTANT Entries  \* the entries a caller may add

ASSUME EntriesAssumption == \A e \in Entries : e.size \in Nat

VARIABLE buffer

Init == buffer = aesd_circular_buffer_init

AddEntry(e) == buffer' = aesd_circular_buffer_add_entry(buffer, e)

Next == \E e \in Entries : AddEntry(e)

Spec == Init /\ [][Next]_buffer
-----------------------------------------------------------------------------
\* The entries in the order a reader visits them: the abstract log.
LogOf(b) ==
  [k \in 1 .. aesd_circular_buffer_get_count(b) |-> b.entry[Slot(b, k - 1)]]

(* The offsets and the flag have the widths of the struct's fields.        *)
TypeOK ==
  buffer \in [entry    : [Index -> Entries \cup {EmptyEntry}],
              in_offs  : Index,
              out_offs : Index,
              full     : BOOLEAN]

(* How the three bookkeeping fields of the struct hang together: a ring    *)
(* that is not full has never wrapped, so it starts at slot 0 and its used *)
(* slots are those below in_offs; a full one has in_offs = out_offs (the   *)
(* assertion left in a comment of get_count).  The unused slots are empty: *)
(* the lookups, which visit every slot, rely on it, and                    *)
(* aesd_cleanup_module's index (out_offs + i) % ring_count is right only   *)
(* because of it.                                                          *)
RingShape ==
  IF buffer.full
  THEN buffer.in_offs = buffer.out_offs
  ELSE /\ buffer.out_offs = 0
       /\ \A i \in Index : i >= buffer.in_offs => buffer.entry[i] = EmptyEntry

AbstractLog == INSTANCE CommandLog
                 WITH Capacity <- MaxWriteOps, log <- LogOf(buffer)

(* Every call of add_entry acts on the visited entries as Add does on the  *)
(* log: nothing is lost, duplicated or reordered, and only the oldest      *)
(* entry of a full ring goes.                                              *)
ImplementsCommandLog == AbstractLog!Spec
-----------------------------------------------------------------------------
(* The lookups, against the concatenation they are documented with.        *)

\* The bytes of the k-th entry visited, each as <<slot, offset in the slot>>.
Cells(k) ==
  LET i == Slot(buffer, k - 1) IN [j \in 1 .. buffer.entry[i].size |-> <<i, j - 1>>]

\* Every byte of the log in reading order.
Bytes ==
  LET count == aesd_circular_buffer_get_count(buffer)
      concat[k \in 0 .. count] == IF k = 0 THEN <<>> ELSE concat[k - 1] \o Cells(k)
  IN  concat[count]

(* find_entry_offset_for_fpos returns the entry and the byte that a        *)
(* position names "if all buffer strings were concatenated end to end",    *)
(* and nothing past the end; get_size is the length of that concatenation. *)
LookupMatchesConcatenation ==
  LET bytes == Bytes
      find(n) == aesd_circular_buffer_find_entry_offset_for_fpos(buffer, n)
  IN  /\ aesd_circular_buffer_get_size(buffer) = Len(bytes)
      /\ \A n \in 0 .. Len(bytes) - 1 :
           find(n) = [entry |-> bytes[n + 1][1], offset |-> bytes[n + 1][2]]
      /\ find(Len(bytes)) = NotFound

(* fpos_for_entry inverts find_entry_offset_for_fpos: seeking to the entry *)
(* and offset of a position gives that position back, and the offset just  *)
(* past an entry is refused.                                               *)
SeekInvertsLookup ==
  LET bytes == Bytes
      fpos(i, n) == aesd_circular_buffer_fpos_for_entry(buffer, i, n)
  IN  /\ \A n \in 0 .. Len(bytes) - 1 :
           fpos(bytes[n + 1][1], bytes[n + 1][2]) = n
      /\ \A i \in Index : fpos(i, buffer.entry[i].size) = -1
=============================================================================
