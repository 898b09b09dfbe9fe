---------------------------- MODULE RingTheorems ----------------------------
(***************************************************************************)
(* Facts about the operators of the ring, for every capacity and every     *)
(* content: where the loops go, what they have summed up when they get     *)
(* there, and what the lookups find.                                       *)
(***************************************************************************)
EXTENDS AesdCircularBuffer, SequenceFacts

-----------------------------------------------------------------------------
(* Arithmetic of the indices.                                              *)

(* What x % MaxWriteOps is for the sums of two indices of the ring, the    *)
(* only ones the code reduces: it wraps at most once.                      *)
LEMMA WrapOnce ==
  ASSUME NEW x \in Nat, x < 2 * MaxWriteOps
  PROVE  x % MaxWriteOps = IF x < MaxWriteOps THEN x ELSE x - MaxWriteOps
<1>1. MaxWriteOps \in Nat /\ MaxWriteOps > 0
  BY MaxWriteOpsAssumption
<1>2. CASE x < MaxWriteOps
  BY <1>1, <1>2
<1>3. CASE ~(x < MaxWriteOps)
  <2> DEFINE q == x \div MaxWriteOps
             r == x % MaxWriteOps
  <2>1. q \in Int /\ r \in 0 .. MaxWriteOps - 1
    BY <1>1
  <2>2. x = (MaxWriteOps * q) + r
    BY <1>1
  <2>3. q = 1
    <3> HIDE DEF q, r
    <3>1. q > 0
      BY <1>1, <1>3, <2>1, <2>2
    <3>2. q < 2
      BY <1>1, <2>1, <2>2
    <3> QED BY <2>1, <3>1, <3>2
  <2>4. QED
    BY <1>1, <1>3, <2>1, <2>2, <2>3
<1>4. QED
  BY <1>2, <1>3

(* The slots the loops visit: the k-th one for k below the capacity.       *)
LEMMA SlotWraps ==
  ASSUME NEW b, b.out_offs \in Index, NEW k \in Index
  PROVE  /\ Slot(b, k) \in Index
         /\ Slot(b, k) = IF b.out_offs + k < MaxWriteOps THEN b.out_offs + k
                         ELSE b.out_offs + k - MaxWriteOps
<1>1. MaxWriteOps \in Nat /\ MaxWriteOps > 0
  BY MaxWriteOpsAssumption
<1>2. b.out_offs + k \in Nat /\ b.out_offs + k < 2 * MaxWriteOps
  BY <1>1 DEF Index
<1>3. QED
  BY <1>1, <1>2, WrapOnce DEF Slot, Index

(* Every slot is visited once.                                             *)
LEMMA SlotIsBijective ==
  ASSUME NEW b, b.out_offs \in Index
  PROVE  /\ \A j, k \in Index : Slot(b, j) = Slot(b, k) => j = k
         /\ \A i \in Index : \E k \in Index : Slot(b, k) = i
<1>1. MaxWriteOps \in Nat /\ MaxWriteOps > 0
  BY MaxWriteOpsAssumption
<1>2. \A k \in Index : Slot(b, k) = IF b.out_offs + k < MaxWriteOps THEN b.out_offs + k
                                    ELSE b.out_offs + k - MaxWriteOps
  BY SlotWraps
<1>3. \A j, k \in Index : Slot(b, j) = Slot(b, k) => j = k
  BY <1>1, <1>2 DEF Index
<1>4. ASSUME NEW i \in Index PROVE \E k \in Index : Slot(b, k) = i
  <2> DEFINE k == IF i >= b.out_offs THEN i - b.out_offs ELSE i + MaxWriteOps - b.out_offs
  <2>1. k \in Index
    BY <1>1 DEF Index
  <2>2. Slot(b, k) = i
    BY <1>1, <1>2, <2>1 DEF Index
  <2>3. QED
    BY <2>1, <2>2
<1>5. QED
  BY <1>3, <1>4
-----------------------------------------------------------------------------
(* What the loops have summed up.                                          *)

\* The sizes of the entries in the order of the visits.
Sizes(buffer) == [k \in Nat |-> buffer.entry[Slot(buffer, k)].size]

(* pos_bytes, as the loops compute it.                                     *)
LEMMA BytesBeforeSums ==
  ASSUME NEW b
  PROVE  IsSums(BytesBefore(b), MaxWriteOps, Sizes(b))
<1>1. MaxWriteOps \in Nat
  BY MaxWriteOpsAssumption
<1>2. PICK f : IsSums(f, MaxWriteOps, Sizes(b))
  BY <1>1, SumsExist
<1>3. f = [k \in 0 .. MaxWriteOps |->
             IF k = 0 THEN 0 ELSE f[k - 1] + b.entry[Slot(b, k - 1)].size]
  BY <1>1, <1>2 DEF IsSums, Sizes
<1>4. BytesBefore(b) = [k \in 0 .. MaxWriteOps |->
             IF k = 0 THEN 0 ELSE BytesBefore(b)[k - 1] + b.entry[Slot(b, k - 1)].size]
  BY <1>3 DEF BytesBefore
<1> DEFINE B == BytesBefore(b)
<1> HIDE DEF B
<1>5. ASSUME NEW k \in 0 .. MaxWriteOps, k # 0
      PROVE  Sizes(b)[k - 1] = b.entry[Slot(b, k - 1)].size
  BY <1>1, <1>5 DEF Sizes
<1>6. B = [k \in 0 .. MaxWriteOps |-> IF k = 0 THEN 0 ELSE B[k - 1] + Sizes(b)[k - 1]]
  BY <1>4, <1>5 DEF B
<1>7. QED
  BY <1>6 DEF IsSums, B

\* The lookups may visit every slot of b.
Searchable(b) == b.out_offs \in Index /\ \A i \in Index : b.entry[i].size \in Nat

(* pos_bytes grows by the size of the entry just visited.                  *)
LEMMA BytesBeforeGrows ==
  ASSUME NEW b, Searchable(b)
  PROVE  /\ BytesBefore(b)[0] = 0
         /\ \A k \in Index : /\ BytesBefore(b)[k + 1] =
                                  BytesBefore(b)[k] + b.entry[Slot(b, k)].size
                              /\ b.entry[Slot(b, k)].size \in Nat
         /\ \A k \in 0 .. MaxWriteOps : BytesBefore(b)[k] \in Nat
         /\ \A j, k \in 0 .. MaxWriteOps : j <= k => BytesBefore(b)[j] <= BytesBefore(b)[k]
<1>1. MaxWriteOps \in Nat /\ Index = 0 .. MaxWriteOps - 1
  BY MaxWriteOpsAssumption DEF Index
<1>2. \A k \in Index : Sizes(b)[k] = b.entry[Slot(b, k)].size /\ Sizes(b)[k] \in Nat
  BY <1>1, SlotWraps DEF Sizes, Searchable
<1>3. IsSums(BytesBefore(b), MaxWriteOps, Sizes(b))
  BY BytesBeforeSums
<1> DEFINE B == BytesBefore(b)
<1> HIDE DEF B
<1>4. QED
  BY <1>1, <1>2, <1>3, SumsGrow DEF B

(* Entries without bytes at the end of the visits add nothing.             *)
LEMMA EmptyTail ==
  ASSUME NEW b, Searchable(b), NEW n \in 0 .. MaxWriteOps,
         \A k \in Index : k >= n => b.entry[Slot(b, k)].size = 0
  PROVE  BytesBefore(b)[MaxWriteOps] = BytesBefore(b)[n]
<1> DEFINE B == BytesBefore(b)
           S == {m \in Nat : n + m <= MaxWriteOps => B[n + m] = B[n]}
<1>1. MaxWriteOps \in Nat /\ Index = 0 .. MaxWriteOps - 1 /\ n \in Nat
  BY MaxWriteOpsAssumption DEF Index
<1>2. 0 \in S
  BY <1>1
<1>3. ASSUME NEW m \in Nat, m \in S PROVE m + 1 \in S
  <2> SUFFICES ASSUME n + (m + 1) <= MaxWriteOps PROVE B[n + (m + 1)] = B[n]
    OBVIOUS
  <2>1. n + m \in Index /\ n + m >= n /\ n + (m + 1) = (n + m) + 1
    BY <1>1
  <2>2. B[(n + m) + 1] = B[n + m] + b.entry[Slot(b, n + m)].size /\ B[n + m] \in Nat
    BY <1>1, <2>1, BytesBeforeGrows
  <2>3. b.entry[Slot(b, n + m)].size = 0 /\ B[n + m] = B[n]
    BY <1>1, <1>3, <2>1
  <2> HIDE DEF B
  <2>4. QED
    BY <2>1, <2>2, <2>3
<1>4. MaxWriteOps - n \in Nat /\ n + (MaxWriteOps - n) = MaxWriteOps
  BY <1>1
<1>5. MaxWriteOps - n \in S
  <2> HIDE DEF S
  <2> QED BY <1>2, <1>3, <1>4, SetInduction
<1>6. QED
  BY <1>1, <1>4, <1>5

(* Every position before the end is in one of the entries.                 *)
LEMMA PositionIsVisited ==
  ASSUME NEW b, Searchable(b), NEW x \in Nat, x < BytesBefore(b)[MaxWriteOps]
  PROVE  \E k \in Index : /\ BytesBefore(b)[k] <= x
                          /\ x < BytesBefore(b)[k] + b.entry[Slot(b, k)].size
<1>1. MaxWriteOps \in Nat /\ Index = 0 .. MaxWriteOps - 1
  BY MaxWriteOpsAssumption DEF Index
<1>2. \A k \in Index : Sizes(b)[k] = b.entry[Slot(b, k)].size /\ Sizes(b)[k] \in Nat
  BY <1>1, SlotWraps DEF Sizes, Searchable
<1>3. IsSums(BytesBefore(b), MaxWriteOps, Sizes(b))
  BY BytesBeforeSums
<1>4. \E k \in Index : BytesBefore(b)[k] <= x /\ x < BytesBefore(b)[k + 1]
  <2> DEFINE B == BytesBefore(b)
  <2> HIDE DEF B
  <2> QED BY <1>1, <1>2, <1>3, SumsLocate DEF B
<1>5. QED
  BY <1>4, BytesBeforeGrows
-----------------------------------------------------------------------------
(* The lookups.                                                            *)

(* The first visit among hits is the one the loop stops at.                *)
LEMMA FirstVisitIs ==
  ASSUME NEW hits \in SUBSET Index, NEW k \in hits, \A j \in hits : k <= j
  PROVE  FirstVisit(hits) = k
<1>1. \A j \in hits : (\A i \in hits : j <= i) => j = k
  BY MaxWriteOpsAssumption DEF Index
<1>2. QED
  BY <1>1 DEF FirstVisit

(* find_entry_offset_for_fpos stops at the entry a position is in.         *)
LEMMA FindInEntry ==
  ASSUME NEW b, Searchable(b), NEW x \in Nat, NEW k \in Index,
         BytesBefore(b)[k] <= x, x < BytesBefore(b)[k] + b.entry[Slot(b, k)].size
  PROVE  aesd_circular_buffer_find_entry_offset_for_fpos(b, x)
           = [entry |-> Slot(b, k), offset |-> x - BytesBefore(b)[k]]
<1> DEFINE B == BytesBefore(b)
           hits == {j \in Index : x < B[j] + b.entry[Slot(b, j)].size}
<1>1. MaxWriteOps \in Nat /\ Index = 0 .. MaxWriteOps - 1
  BY MaxWriteOpsAssumption DEF Index
<1>2. k \in hits
  OBVIOUS
<1>3. ASSUME NEW j \in hits PROVE k <= j
  <2>1. x < B[j + 1] /\ B[j + 1] \in Nat /\ B[k] \in Nat
    BY <1>1, BytesBeforeGrows
  <2>2. j < k => B[j + 1] <= B[k]
    <3>1. j + 1 \in 0 .. MaxWriteOps /\ k \in 0 .. MaxWriteOps /\ (j < k => j + 1 <= k)
      BY <1>1
    <3>2. QED
      BY <3>1, BytesBeforeGrows
  <2> HIDE DEF B
  <2>3. QED
    BY <1>1, <2>1, <2>2 DEF B
<1>4. FirstVisit(hits) = k
  BY <1>2, <1>3, FirstVisitIs
<1>5. QED
  BY <1>2, <1>4 DEF aesd_circular_buffer_find_entry_offset_for_fpos

(* It finds nothing from the end on.                                       *)
LEMMA FindPastEnd ==
  ASSUME NEW b, Searchable(b), NEW x \in Nat, BytesBefore(b)[MaxWriteOps] <= x
  PROVE  aesd_circular_buffer_find_entry_offset_for_fpos(b, x) = NotFound
<1>1. MaxWriteOps \in Nat /\ Index = 0 .. MaxWriteOps - 1
  BY MaxWriteOpsAssumption DEF Index
<1>2. ASSUME NEW j \in Index PROVE ~(x < BytesBefore(b)[j] + b.entry[Slot(b, j)].size)
  <2> DEFINE B == BytesBefore(b)
  <2>1. /\ B[j + 1] = B[j] + b.entry[Slot(b, j)].size /\ B[j + 1] <= B[MaxWriteOps]
        /\ B[j + 1] \in Nat /\ B[MaxWriteOps] \in Nat
    BY <1>1, BytesBeforeGrows
  <2> HIDE DEF B
  <2>2. QED
    BY <2>1 DEF B
<1>3. QED
  BY <1>2 DEF aesd_circular_buffer_find_entry_offset_for_fpos

(* What it finds is a byte of an entry.                                    *)
LEMMA FindIsInEntry ==
  ASSUME NEW b, Searchable(b), NEW x \in Nat,
         aesd_circular_buffer_find_entry_offset_for_fpos(b, x) # NotFound
  PROVE  \E k \in Index :
           /\ BytesBefore(b)[k] <= x
           /\ x < BytesBefore(b)[k] + b.entry[Slot(b, k)].size
           /\ aesd_circular_buffer_find_entry_offset_for_fpos(b, x)
                = [entry |-> Slot(b, k), offset |-> x - BytesBefore(b)[k]]
<1>1. BytesBefore(b)[MaxWriteOps] \in Nat
  BY BytesBeforeGrows, MaxWriteOpsAssumption
<1>2. x < BytesBefore(b)[MaxWriteOps]
  <2> DEFINE B == BytesBefore(b)[MaxWriteOps]
  <2>1. ~(B <= x)
    BY FindPastEnd
  <2> HIDE DEF B
  <2>2. QED
    BY <1>1, <2>1 DEF B
<1>3. QED
  BY <1>2, PositionIsVisited, FindInEntry

(* NotFound says that the position is past the end.                        *)
LEMMA NotFoundIsPastEnd ==
  ASSUME NEW b, Searchable(b), NEW x \in Nat,
         aesd_circular_buffer_find_entry_offset_for_fpos(b, x) = NotFound
  PROVE  BytesBefore(b)[MaxWriteOps] <= x
<1>1. SUFFICES ASSUME x < BytesBefore(b)[MaxWriteOps] PROVE FALSE
  <2>1. BytesBefore(b)[MaxWriteOps] \in Nat
    BY BytesBeforeGrows, MaxWriteOpsAssumption
  <2> DEFINE B == BytesBefore(b)[MaxWriteOps]
  <2>2. ~(x < B) => B <= x
    <3> HIDE DEF B
    <3> QED BY <2>1 DEF B
  <2>3. QED
    BY <2>2
<1>2. PICK k \in Index : /\ BytesBefore(b)[k] <= x
                        /\ x < BytesBefore(b)[k] + b.entry[Slot(b, k)].size
  BY <1>1, PositionIsVisited
<1>3. [entry |-> Slot(b, k), offset |-> x - BytesBefore(b)[k]] = NotFound
  BY <1>2, FindInEntry
<1>4. Slot(b, k) = NULL
  BY <1>3 DEF NotFound
<1>5. QED
  BY <1>4, SlotWraps, NullAssumption DEF Searchable

(* fpos_for_entry returns the position of a byte of an entry.              *)
LEMMA FposOfEntry ==
  ASSUME NEW b, Searchable(b), NEW k \in Index, NEW o \in Nat,
         o < b.entry[Slot(b, k)].size
  PROVE  aesd_circular_buffer_fpos_for_entry(b, Slot(b, k), o) = BytesBefore(b)[k] + o
<1> DEFINE e == Slot(b, k)
           hits == {j \in Index : Slot(b, j) = e}
<1>1. e \in Index /\ b.entry[e].size \in Nat
  BY SlotWraps DEF Searchable
<1>2. hits = {k}
  BY SlotIsBijective DEF Searchable
<1>3. FirstVisit(hits) = k
  BY <1>2, FirstVisitIs, MaxWriteOpsAssumption DEF Index
<1>4. ~(o >= b.entry[e].size)
  BY <1>1
<1> HIDE DEF hits, e
<1>5. QED
  BY <1>1, <1>3, <1>4 DEF aesd_circular_buffer_fpos_for_entry, hits, e
-----------------------------------------------------------------------------
(* add_entry.                                                              *)

\* The struct, with entries of type E.
RingType(E) == [entry: [Index -> E], in_offs: Index, out_offs: Index, full: BOOLEAN]

(* in_offs advances to the next slot of the array.                         *)
LEMMA NextIndex ==
  ASSUME NEW i \in Index
  PROVE  /\ (i + 1) % MaxWriteOps \in Index
         /\ (i + 1) % MaxWriteOps = IF i + 1 < MaxWriteOps THEN i + 1 ELSE 0
<1>1. MaxWriteOps \in Nat /\ MaxWriteOps > 0
  BY MaxWriteOpsAssumption
<1>2. i + 1 \in Nat /\ i + 1 < 2 * MaxWriteOps
  BY <1>1 DEF Index
<1>3. QED
  BY <1>1, <1>2, WrapOnce DEF Index

(* The first two stores of add_entry.                                      *)
LEMMA StoreAndAdvance ==
  ASSUME NEW E, NEW b \in RingType(E), NEW e
  PROVE  AdvanceIn(StoreEntry(b, e)) =
           [entry    |-> [b.entry EXCEPT ![b.in_offs] = e],
            in_offs  |-> (b.in_offs + 1) % MaxWriteOps,
            out_offs |-> b.out_offs,
            full     |-> b.full]
<1> DEFINE stored == StoreEntry(b, e)
<1>1. stored = [entry    |-> [b.entry EXCEPT ![b.in_offs] = e],
                in_offs  |-> b.in_offs,
                out_offs |-> b.out_offs,
                full     |-> b.full]
  BY DEF RingType, StoreEntry
<1> HIDE DEF stored
<1>2. AdvanceIn(stored) = [entry    |-> stored.entry,
                           in_offs  |-> (stored.in_offs + 1) % MaxWriteOps,
                           out_offs |-> stored.out_offs,
                           full     |-> stored.full]
  BY <1>1 DEF AdvanceIn
<1>3. QED
  BY <1>1, <1>2 DEF stored

(* add_entry to a ring that is not full: the entry goes behind the others, *)
(* and the last free slot sets the flag.                                   *)
LEMMA AddWithRoom ==
  ASSUME NEW E, NEW b \in RingType(E), ~b.full, b.out_offs = 0, NEW e
  PROVE  /\ aesd_circular_buffer_get_count(b) = b.in_offs
         /\ aesd_circular_buffer_add_entry(b, e) =
              [entry    |-> [b.entry EXCEPT ![b.in_offs] = e],
               in_offs  |-> (b.in_offs + 1) % MaxWriteOps,
               out_offs |-> 0,
               full     |-> b.in_offs + 1 = MaxWriteOps]
<1>1. MaxWriteOps \in Nat /\ MaxWriteOps > 0 /\ b.in_offs \in Index
  BY MaxWriteOpsAssumption DEF RingType
<1>2. aesd_circular_buffer_get_count(b) = b.in_offs /\ b.in_offs < MaxWriteOps
  BY <1>1 DEF aesd_circular_buffer_get_count, Index
<1> DEFINE advanced == AdvanceIn(StoreEntry(b, e))
<1>3. aesd_circular_buffer_add_entry(b, e)
        = [advanced EXCEPT !.full = advanced.full \/ b.in_offs + 1 = MaxWriteOps]
  BY <1>2 DEF aesd_circular_buffer_add_entry, CornerCases
<1>4. advanced = [entry    |-> [b.entry EXCEPT ![b.in_offs] = e],
                  in_offs  |-> (b.in_offs + 1) % MaxWriteOps,
                  out_offs |-> 0,
                  full     |-> FALSE]
  <2>1. b.full = FALSE
    BY DEF RingType
  <2>2. QED
    BY <2>1, StoreAndAdvance
<1> HIDE DEF advanced
<1>5. QED
  BY <1>2, <1>3, <1>4

(* add_entry to a full ring: the oldest entry is overwritten and the ring  *)
(* starts behind it.                                                       *)
LEMMA AddWhenFull ==
  ASSUME NEW E, NEW b \in RingType(E), b.full, NEW e
  PROVE  /\ aesd_circular_buffer_get_count(b) = MaxWriteOps
         /\ aesd_circular_buffer_add_entry(b, e) =
              [entry    |-> [b.entry EXCEPT ![b.in_offs] = e],
               in_offs  |-> (b.in_offs + 1) % MaxWriteOps,
               out_offs |-> (b.in_offs + 1) % MaxWriteOps,
               full     |-> b.full]
<1>1. MaxWriteOps \in Nat /\ MaxWriteOps > 0
  BY MaxWriteOpsAssumption
<1>2. aesd_circular_buffer_get_count(b) = MaxWriteOps
  BY DEF aesd_circular_buffer_get_count
<1> DEFINE advanced == AdvanceIn(StoreEntry(b, e))
<1>3. aesd_circular_buffer_add_entry(b, e) = [advanced EXCEPT !.out_offs = advanced.in_offs]
  BY <1>1, <1>2 DEF aesd_circular_buffer_add_entry, CornerCases
<1>4. advanced = [entry    |-> [b.entry EXCEPT ![b.in_offs] = e],
                  in_offs  |-> (b.in_offs + 1) % MaxWriteOps,
                  out_offs |-> b.out_offs,
                  full     |-> b.full]
  BY StoreAndAdvance
<1> HIDE DEF advanced
<1>5. QED
  BY <1>2, <1>3, <1>4

(* What the visits find after add_entry to a ring with room.               *)
LEMMA RoomVisits ==
  ASSUME NEW E, NEW b \in RingType(E), ~b.full, b.out_offs = 0, NEW e
  PROVE  LET r == aesd_circular_buffer_add_entry(b, e)
             n == aesd_circular_buffer_get_count(b)
         IN  /\ n \in Index /\ aesd_circular_buffer_get_count(r) = n + 1
             /\ \A k \in 0 .. n - 1 : r.entry[Slot(r, k)] = b.entry[Slot(b, k)]
             /\ r.entry[Slot(r, n)] = e
<1> DEFINE r == aesd_circular_buffer_add_entry(b, e)
           n == b.in_offs
<1>1. MaxWriteOps \in Nat /\ MaxWriteOps > 0 /\ 0 \in Index
  BY MaxWriteOpsAssumption DEF Index
<1>2. n \in Index /\ n \in Nat /\ n < MaxWriteOps /\ b.entry \in [Index -> E]
  BY <1>1 DEF RingType, Index
<1>3. /\ aesd_circular_buffer_get_count(b) = n
      /\ r = [entry    |-> [b.entry EXCEPT ![n] = e],
              in_offs  |-> (n + 1) % MaxWriteOps,
              out_offs |-> 0,
              full     |-> n + 1 = MaxWriteOps]
  BY AddWithRoom
<1> HIDE DEF r
<1>4. /\ r.entry = [b.entry EXCEPT ![n] = e] /\ r.out_offs = 0
      /\ r.in_offs = (n + 1) % MaxWriteOps /\ (r.full <=> n + 1 = MaxWriteOps)
  BY <1>3
<1>5. aesd_circular_buffer_get_count(r) = n + 1
  <2>1. CASE n + 1 = MaxWriteOps
    BY <1>4, <2>1 DEF aesd_circular_buffer_get_count
  <2>2. CASE n + 1 # MaxWriteOps
    <3>1. ~r.full /\ r.in_offs = n + 1
      BY <1>1, <1>2, <1>4, <2>2, NextIndex
    <3>2. QED
      BY <1>2, <1>4, <3>1 DEF aesd_circular_buffer_get_count
  <2>3. QED
    BY <2>1, <2>2
<1>6. \A k \in Index : Slot(r, k) = k /\ Slot(b, k) = k
  BY <1>1, <1>4, SlotWraps DEF Index
<1>7. \A k \in 0 .. n - 1 : k \in Index /\ k # n
  BY <1>1, <1>2 DEF Index
<1> HIDE DEF n
<1>8. \A k \in 0 .. n - 1 : r.entry[Slot(r, k)] = b.entry[Slot(b, k)]
  BY <1>2, <1>4, <1>6, <1>7
<1>9. r.entry[Slot(r, n)] = e
  BY <1>2, <1>4, <1>6
<1>10. QED
  BY <1>2, <1>3, <1>5, <1>8, <1>9 DEF r

(* What they find after add_entry to a full ring.                          *)
LEMMA FullVisits ==
  ASSUME NEW E, NEW b \in RingType(E), b.full, b.in_offs = b.out_offs, NEW e
  PROVE  LET r == aesd_circular_buffer_add_entry(b, e)
             n == MaxWriteOps
         IN  /\ aesd_circular_buffer_get_count(b) = n
             /\ aesd_circular_buffer_get_count(r) = n
             /\ \A k \in 0 .. n - 2 : r.entry[Slot(r, k)] = b.entry[Slot(b, k + 1)]
             /\ r.entry[Slot(r, n - 1)] = e
<1> DEFINE r == aesd_circular_buffer_add_entry(b, e)
           n == MaxWriteOps
           o == b.in_offs
<1>1. n \in Nat /\ n > 0 /\ Index = 0 .. n - 1
  BY MaxWriteOpsAssumption DEF Index
<1>2. o \in Index /\ b.out_offs = o /\ b.entry \in [Index -> E]
  BY DEF RingType
<1>3. /\ aesd_circular_buffer_get_count(b) = n
      /\ r = [entry    |-> [b.entry EXCEPT ![o] = e],
              in_offs  |-> (o + 1) % n,
              out_offs |-> (o + 1) % n,
              full     |-> b.full]
  BY AddWhenFull
<1> HIDE DEF r
<1>4. r.entry = [b.entry EXCEPT ![o] = e] /\ r.out_offs = (o + 1) % n /\ r.full
  BY <1>3
<1>5. r.out_offs \in Index /\ r.out_offs = IF o + 1 < n THEN o + 1 ELSE 0
  BY <1>2, <1>4, NextIndex
<1>6. aesd_circular_buffer_get_count(r) = n
  BY <1>4 DEF aesd_circular_buffer_get_count
<1>7. ASSUME NEW k \in 0 .. n - 2 PROVE r.entry[Slot(r, k)] = b.entry[Slot(b, k + 1)]
  <2>1. k \in Index /\ k + 1 \in Index
    BY <1>1
  <2>2. /\ Slot(r, k) \in Index
        /\ Slot(r, k) = IF r.out_offs + k < n THEN r.out_offs + k ELSE r.out_offs + k - n
    BY <1>5, <2>1, SlotWraps
  <2>3. Slot(b, k + 1) = IF o + (k + 1) < n THEN o + (k + 1) ELSE o + (k + 1) - n
    BY <1>2, <2>1, SlotWraps
  <2>4. Slot(r, k) = Slot(b, k + 1) /\ Slot(r, k) # o
    <3> DEFINE u == Slot(r, k)
               v == Slot(b, k + 1)
               w == r.out_offs
    <3>1. /\ n \in Nat /\ o \in 0 .. n - 1 /\ k \in 0 .. n - 2
          /\ w = IF o + 1 < n THEN o + 1 ELSE 0
          /\ u = IF w + k < n THEN w + k ELSE w + k - n
          /\ v = IF o + (k + 1) < n THEN o + (k + 1) ELSE o + (k + 1) - n
      BY <1>1, <1>2, <1>5, <2>2, <2>3
    <3> HIDE DEF u, v, w, o, n
    <3>2. u = v
      BY <3>1
    <3>3. u # o
      BY <3>1
    <3>4. QED
      BY <3>2, <3>3 DEF u, v
  <2>5. QED
    BY <1>2, <1>4, <2>2, <2>4
<1>8. r.entry[Slot(r, n - 1)] = e
  <2>1. n - 1 \in Index
    BY <1>1
  <2>2. Slot(r, n - 1) = IF r.out_offs + (n - 1) < n THEN r.out_offs + (n - 1)
                         ELSE r.out_offs + (n - 1) - n
    BY <1>5, <2>1, SlotWraps
  <2>3. Slot(r, n - 1) = o
    BY <1>1, <1>2, <1>5, <2>2
  <2>4. QED
    BY <1>2, <1>4, <2>3
<1>9. QED
  BY <1>3, <1>6, <1>7, <1>8 DEF r
=============================================================================
