------------------------ MODULE CircularBufferProofs ------------------------
(***************************************************************************)
(* The ring keeps its shape and implements the command log, for every      *)
(* capacity and every set of entries.                                      *)
(***************************************************************************)
EXTENDS CircularBuffer, RingTheorems

-----------------------------------------------------------------------------
(* The step in the two cases of the code: room left, or full.              *)

(* add_entry to a ring that is not full: the entry goes behind the others, *)
(* and the last free slot sets the flag.                                   *)
LEMMA AddToRoom ==
  ASSUME TypeOK, RingShape, ~buffer.full, NEW e \in Entries, AddEntry(e)
  PROVE  /\ aesd_circular_buffer_get_count(buffer) = buffer.in_offs
         /\ buffer' = [entry    |-> [buffer.entry EXCEPT ![buffer.in_offs] = e],
                       in_offs  |-> (buffer.in_offs + 1) % MaxWriteOps,
                       out_offs |-> 0,
                       full     |-> buffer.in_offs + 1 = MaxWriteOps]
  BY AddWithRoom DEF TypeOK, RingType, RingShape, AddEntry

(* add_entry to a full ring: the oldest entry is overwritten and the ring  *)
(* starts behind it.                                                       *)
LEMMA AddToFull ==
  ASSUME TypeOK, RingShape, buffer.full, NEW e \in Entries, AddEntry(e)
  PROVE  /\ aesd_circular_buffer_get_count(buffer) = MaxWriteOps
         /\ buffer' = [entry    |-> [buffer.entry EXCEPT ![buffer.in_offs] = e],
                       in_offs  |-> (buffer.in_offs + 1) % MaxWriteOps,
                       out_offs |-> (buffer.in_offs + 1) % MaxWriteOps,
                       full     |-> buffer.full]
  BY AddWhenFull DEF TypeOK, RingType, AddEntry
-----------------------------------------------------------------------------
(* The inductive invariant.                                                *)

Shape == TypeOK /\ RingShape

(* The ring has its shape when it is initialised.                          *)
LEMMA InitShape == Init => Shape
<1>1. MaxWriteOps \in Nat /\ MaxWriteOps > 0
  BY MaxWriteOpsAssumption
<1>2. QED
  BY <1>1 DEF Init, Shape, TypeOK, RingShape, aesd_circular_buffer_init, Index

(* add_entry keeps the types and the shape.                                *)
LEMMA NextShape == Shape /\ [Next]_buffer => Shape'
<1> SUFFICES ASSUME Shape, [Next]_buffer PROVE Shape'
  OBVIOUS
<1>1. TypeOK /\ RingShape /\ buffer.in_offs \in Index
  BY DEF Shape, TypeOK
<1>2. CASE UNCHANGED buffer
  BY <1>1, <1>2 DEF Shape, TypeOK, RingShape
<1>3. ASSUME NEW e \in Entries, AddEntry(e) PROVE Shape'
  <2>1. MaxWriteOps \in Nat /\ MaxWriteOps > 0 /\ 0 \in Index
    BY MaxWriteOpsAssumption DEF Index
  <2>2. [buffer.entry EXCEPT ![buffer.in_offs] = e] \in [Index -> Entries \cup {EmptyEntry}]
    BY <1>1 DEF TypeOK
  <2>3. /\ (buffer.in_offs + 1) % MaxWriteOps \in Index
        /\ buffer.in_offs + 1 = MaxWriteOps => (buffer.in_offs + 1) % MaxWriteOps = 0
        /\ buffer.in_offs + 1 # MaxWriteOps =>
             (buffer.in_offs + 1) % MaxWriteOps = buffer.in_offs + 1
    BY <1>1, <2>1, NextIndex DEF Index
  <2>4. CASE ~buffer.full
    <3>1. buffer' = [entry    |-> [buffer.entry EXCEPT ![buffer.in_offs] = e],
                     in_offs  |-> (buffer.in_offs + 1) % MaxWriteOps,
                     out_offs |-> 0,
                     full     |-> buffer.in_offs + 1 = MaxWriteOps]
      BY <1>1, <1>3, <2>4, AddToRoom
    <3>2. TypeOK'
      BY <2>1, <2>2, <2>3, <3>1 DEF TypeOK
    <3>3. CASE buffer.in_offs + 1 = MaxWriteOps
      BY <2>3, <3>1, <3>2, <3>3 DEF RingShape, Shape
    <3>4. CASE buffer.in_offs + 1 # MaxWriteOps
      <4>1. /\ ~buffer'.full /\ buffer'.out_offs = 0
            /\ buffer'.in_offs = buffer.in_offs + 1
            /\ buffer'.entry = [buffer.entry EXCEPT ![buffer.in_offs] = e]
        BY <2>3, <3>1, <3>4
      <4>2. ASSUME NEW i \in Index, i >= buffer'.in_offs
            PROVE  buffer'.entry[i] = EmptyEntry
        <5>1. i # buffer.in_offs /\ i >= buffer.in_offs
          BY <1>1, <2>1, <4>1, <4>2 DEF Index
        <5>2. buffer.entry[i] = EmptyEntry
          BY <1>1, <2>4, <5>1 DEF RingShape
        <5>3. QED
          BY <1>1, <4>1, <5>1, <5>2 DEF TypeOK
      <4>3. QED
        BY <3>2, <4>1, <4>2 DEF RingShape, Shape
    <3>5. QED
      BY <3>3, <3>4
  <2>5. CASE buffer.full
    <3>1. buffer' = [entry    |-> [buffer.entry EXCEPT ![buffer.in_offs] = e],
                     in_offs  |-> (buffer.in_offs + 1) % MaxWriteOps,
                     out_offs |-> (buffer.in_offs + 1) % MaxWriteOps,
                     full     |-> buffer.full]
      BY <1>1, <1>3, <2>5, AddToFull
    <3>2. TypeOK'
      BY <1>1, <2>2, <2>3, <3>1 DEF TypeOK
    <3>3. buffer'.full /\ buffer'.in_offs = buffer'.out_offs
      BY <2>5, <3>1
    <3>4. QED
      BY <3>2, <3>3 DEF RingShape, Shape
  <2>6. QED
    BY <2>4, <2>5
<1>4. QED
  BY <1>2, <1>3 DEF Next

(* The fields of the ring keep their types, whatever is added: in_offs and *)
(* out_offs always index the array.                                        *)
THEOREM TypeCorrect == Spec => []TypeOK
<1>1. Shape => TypeOK
  BY DEF Shape
<1>2. QED
  BY InitShape, NextShape, <1>1, PTL DEF Spec

(* The three bookkeeping fields hang together after any number of calls of *)
(* add_entry.                                                              *)
THEOREM ShapeCorrect == Spec => []RingShape
<1>1. Shape => RingShape
  BY DEF Shape
<1>2. QED
  BY InitShape, NextShape, <1>1, PTL DEF Spec
-----------------------------------------------------------------------------
(* The refinement.                                                         *)

(* The log of the ring is a sequence of entries, no longer than the ring.  *)
LEMMA LogIsSeq ==
  ASSUME Shape
  PROVE  /\ aesd_circular_buffer_get_count(buffer) \in 0 .. MaxWriteOps
         /\ LogOf(buffer) \in Seq(Entries \cup {EmptyEntry})
         /\ Len(LogOf(buffer)) = aesd_circular_buffer_get_count(buffer)
<1>1. MaxWriteOps \in Nat /\ MaxWriteOps > 0
  BY MaxWriteOpsAssumption
<1>2. buffer.in_offs \in Index /\ buffer.out_offs \in Index
  BY DEF Shape, TypeOK
<1> DEFINE count == aesd_circular_buffer_get_count(buffer)
<1>3. count \in 0 .. MaxWriteOps
  BY <1>1, <1>2 DEF Shape, RingShape, aesd_circular_buffer_get_count, Index
<1>4. ASSUME NEW k \in 1 .. count
      PROVE  buffer.entry[Slot(buffer, k - 1)] \in Entries \cup {EmptyEntry}
  <2>1. k - 1 \in Index
    BY <1>1, <1>3 DEF Index
  <2>2. Slot(buffer, k - 1) \in Index
    BY <1>2, <2>1, SlotWraps
  <2>3. QED
    BY <2>2 DEF Shape, TypeOK
<1> HIDE DEF count
<1>5. LogOf(buffer) = [k \in 1 .. count |-> buffer.entry[Slot(buffer, k - 1)]]
  BY DEF LogOf, count
<1>6. count \in Nat
  BY <1>1, <1>3
<1>7. LogOf(buffer) \in Seq(Entries \cup {EmptyEntry}) /\ Len(LogOf(buffer)) = count
  BY <1>4, <1>5, <1>6
<1>8. QED
  BY <1>3, <1>7 DEF count

(* add_entry to a ring with room appends to its log.                       *)
LEMMA RoomAppends ==
  ASSUME Shape, ~buffer.full, NEW e \in Entries, AddEntry(e)
  PROVE  LogOf(buffer') = Append(LogOf(buffer), e)
<1> DEFINE n == buffer.in_offs
<1>1. n \in Nat
  BY MaxWriteOpsAssumption DEF Shape, TypeOK, Index
<1>2. aesd_circular_buffer_get_count(buffer) = n
  BY AddToRoom DEF Shape
<1>3. /\ aesd_circular_buffer_get_count(buffer') = n + 1
      /\ \A k \in 0 .. n - 1 : buffer'.entry[Slot(buffer', k)] = buffer.entry[Slot(buffer, k)]
      /\ buffer'.entry[Slot(buffer', n)] = e
  <2>1. buffer \in RingType(Entries \cup {EmptyEntry}) /\ buffer.out_offs = 0
    BY DEF Shape, TypeOK, RingShape, RingType
  <2>2. buffer' = aesd_circular_buffer_add_entry(buffer, e)
    BY DEF AddEntry
  <2>3. QED
    BY <1>2, <2>1, <2>2, RoomVisits
<1>4. LogOf(buffer) \in Seq(Entries \cup {EmptyEntry}) /\ Len(LogOf(buffer)) = n
  BY <1>2, LogIsSeq
<1> HIDE DEF n
<1>5. ASSUME NEW k \in 1 .. n + 1
      PROVE  buffer'.entry[Slot(buffer', k - 1)] = IF k <= n THEN LogOf(buffer)[k] ELSE e
  <2>1. CASE k <= n
    <3>1. k - 1 \in 0 .. n - 1 /\ k \in 1 .. n
      BY <1>1, <2>1
    <3>2. LogOf(buffer)[k] = buffer.entry[Slot(buffer, k - 1)]
      BY <1>2, <3>1 DEF LogOf
    <3>3. QED
      BY <1>3, <2>1, <3>1, <3>2
  <2>2. CASE ~(k <= n)
    <3>1. k - 1 = n
      BY <1>1, <2>2
    <3>2. QED
      BY <1>3, <2>2, <3>1
  <2>3. QED
    BY <2>1, <2>2
<1>6. LogOf(buffer') = [k \in 1 .. n + 1 |-> IF k <= n THEN LogOf(buffer)[k] ELSE e]
  BY <1>3, <1>5 DEF LogOf
<1>7. QED
  <2> DEFINE S == Entries \cup {EmptyEntry}
             s == LogOf(buffer)
  <2>1. s \in Seq(S) /\ e \in S /\ Len(s) = n
    BY <1>4
  <2> HIDE DEF S, s
  <2>2. /\ Append(s, e) \in Seq(S)
        /\ Len(Append(s, e)) = n + 1
        /\ \A k \in 1 .. n : Append(s, e)[k] = s[k]
        /\ Append(s, e)[n + 1] = e
    BY <2>1, AppendProperties
  <2> DEFINE t == [k \in 1 .. n + 1 |-> IF k <= n THEN s[k] ELSE e]
  <2>3. t \in Seq(S) /\ Len(t) = n + 1
    BY <1>1, <2>1
  <2>4. \A k \in 1 .. n + 1 : t[k] = Append(s, e)[k]
    BY <1>1, <2>2
  <2>5. t = Append(s, e)
    <3> HIDE DEF t
    <3> QED BY <2>2, <2>3, <2>4, SeqEqual
  <2>6. QED
    BY <1>6, <2>5 DEF s

(* add_entry to a full ring appends and drops the oldest entry.            *)
LEMMA FullDropsOldest ==
  ASSUME Shape, buffer.full, NEW e \in Entries, AddEntry(e)
  PROVE  LogOf(buffer') = Tail(Append(LogOf(buffer), e))
<1> DEFINE n == MaxWriteOps
           S == Entries \cup {EmptyEntry}
           s == LogOf(buffer)
<1>1. n \in Nat /\ n > 0
  BY MaxWriteOpsAssumption
<1>2. /\ aesd_circular_buffer_get_count(buffer) = n
      /\ aesd_circular_buffer_get_count(buffer') = n
      /\ \A k \in 0 .. n - 2 : buffer'.entry[Slot(buffer', k)] = buffer.entry[Slot(buffer, k + 1)]
      /\ buffer'.entry[Slot(buffer', n - 1)] = e
  <2>1. buffer \in RingType(S) /\ buffer.in_offs = buffer.out_offs
    BY DEF Shape, TypeOK, RingShape, RingType
  <2>2. buffer' = aesd_circular_buffer_add_entry(buffer, e)
    BY DEF AddEntry
  <2> HIDE DEF S
  <2>3. QED
    BY <2>1, <2>2, FullVisits
<1>3. s \in Seq(S) /\ Len(s) = n /\ e \in S
  BY <1>2, LogIsSeq
<1>4. ASSUME NEW k \in 1 .. n
      PROVE  buffer'.entry[Slot(buffer', k - 1)] = IF k < n THEN s[k + 1] ELSE e
  <2>1. CASE k < n
    <3>1. k - 1 \in 0 .. n - 2 /\ (k - 1) + 1 = k /\ k + 1 \in 1 .. n /\ (k + 1) - 1 = k
      BY <1>1, <2>1
    <3>2. s[k + 1] = buffer.entry[Slot(buffer, (k + 1) - 1)]
      BY <1>2, <3>1 DEF LogOf
    <3>3. buffer'.entry[Slot(buffer', k - 1)] = buffer.entry[Slot(buffer, (k - 1) + 1)]
      BY <1>2, <3>1
    <3> HIDE DEF s
    <3>4. QED
      BY <2>1, <3>1, <3>2, <3>3
  <2>2. CASE ~(k < n)
    <3>1. k = n
      BY <1>1, <2>2
    <3>2. QED
      BY <1>2, <2>2, <3>1
  <2>3. QED
    BY <2>1, <2>2
<1>5. LogOf(buffer') = [k \in 1 .. n |-> IF k < n THEN s[k + 1] ELSE e]
  BY <1>2, <1>4 DEF LogOf
<1>6. QED
  <2> DEFINE t == [k \in 1 .. n |-> IF k < n THEN s[k + 1] ELSE e]
             u == Append(s, e)
  <2> HIDE DEF n, S, s
  <2>1. /\ u \in Seq(S) /\ u # <<>> /\ Len(u) = n + 1
        /\ \A k \in 1 .. n : u[k] = s[k]
        /\ u[n + 1] = e
    BY <1>3, AppendProperties
  <2>2. t \in Seq(S) /\ Len(t) = n
    BY <1>1, <1>3
  <2> HIDE DEF u
  <2>3. /\ Tail(u) \in Seq(S) /\ Len(Tail(u)) = n
        /\ \A k \in 1 .. n : Tail(u)[k] = u[k + 1]
    BY <1>1, <2>1, HeadTailProperties
  <2>4. \A k \in 1 .. n : t[k] = Tail(u)[k]
    BY <1>1, <2>1, <2>3
  <2>5. t = Tail(u)
    <3> HIDE DEF t
    <3> QED BY <2>2, <2>3, <2>4, SeqEqual
  <2>6. QED
    BY <1>5, <2>5 DEF s, u

(* A step of the ring is a step of the log.                                *)
LEMMA StepRefines ==
  ASSUME Shape, [Next]_buffer
  PROVE  [AbstractLog!Next]_(LogOf(buffer))
<1>1. CASE UNCHANGED buffer
  BY <1>1
<1>2. ASSUME NEW e \in Entries, AddEntry(e) PROVE AbstractLog!Add(e)
  <2>1. MaxWriteOps \in Nat /\ MaxWriteOps > 0
    BY MaxWriteOpsAssumption
  <2> DEFINE s == LogOf(buffer)
             c == aesd_circular_buffer_get_count(buffer)
  <2>2. s \in Seq(Entries \cup {EmptyEntry}) /\ Len(s) = c
    BY LogIsSeq
  <2>3. Len(Append(s, e)) = c + 1
    <3> HIDE DEF s, c
    <3> QED BY <2>2, AppendProperties
  <2>4. CASE ~buffer.full
    <3>1. c < MaxWriteOps
      BY <1>2, <2>1, <2>4, AddToRoom DEF Shape, TypeOK, Index
    <3>2. AbstractLog!Recent(Append(s, e)) = Append(s, e)
      BY <2>1, <2>3, <3>1, LogIsSeq DEF AbstractLog!Recent
    <3>3. QED
      BY <1>2, <2>4, <3>2, RoomAppends DEF AbstractLog!Add
  <2>5. CASE buffer.full
    <3>1. c = MaxWriteOps
      BY <2>5 DEF aesd_circular_buffer_get_count
    <3>2. AbstractLog!Recent(Append(s, e)) = Tail(Append(s, e))
      BY <2>1, <2>3, <3>1 DEF AbstractLog!Recent
    <3>3. QED
      BY <1>2, <2>5, <3>2, FullDropsOldest DEF AbstractLog!Add
  <2>6. QED
    BY <2>4, <2>5
<1>3. QED
  BY <1>1, <1>2 DEF Next, AbstractLog!Next

(* The ring implements the bounded log of commands: add_entry appends, and *)
(* drops the oldest entry of a full ring and nothing else.                 *)
THEOREM RingImplementsLog == Spec => ImplementsCommandLog
<1>1. Init => AbstractLog!Init
  <2>1. MaxWriteOps \in Nat /\ MaxWriteOps > 0
    BY MaxWriteOpsAssumption
  <2>2. aesd_circular_buffer_get_count(aesd_circular_buffer_init) = 0
    BY <2>1 DEF aesd_circular_buffer_get_count, aesd_circular_buffer_init
  <2>3. LogOf(aesd_circular_buffer_init) = <<>>
    BY <2>2 DEF LogOf
  <2>4. QED
    BY <2>3 DEF Init, AbstractLog!Init
<1>2. Shape /\ [Next]_buffer => [AbstractLog!Next]_(LogOf(buffer))
  BY StepRefines
<1>3. QED
  BY InitShape, NextShape, <1>1, <1>2, PTL DEF Spec, ImplementsCommandLog, AbstractLog!Spec

-----------------------------------------------------------------------------
(* The lookups.                                                            *)

(* The ring can be searched, its entries past the last command are empty,  *)
(* and the visits of its commands have the sizes the loops add up.         *)
LEMMA RingIsSearchable ==
  ASSUME Shape
  PROVE  /\ Searchable(buffer)
         /\ aesd_circular_buffer_get_count(buffer) \in 0 .. MaxWriteOps
         /\ \A k \in Index : k >= aesd_circular_buffer_get_count(buffer) =>
              buffer.entry[Slot(buffer, k)].size = 0
<1> DEFINE n == aesd_circular_buffer_get_count(buffer)
<1>1. MaxWriteOps \in Nat /\ MaxWriteOps > 0
  BY MaxWriteOpsAssumption
<1>2. buffer.in_offs \in Index /\ buffer.out_offs \in Index /\ n \in 0 .. MaxWriteOps
  BY LogIsSeq DEF Shape, TypeOK
<1>3. EmptyEntry.size = 0
  BY DEF EmptyEntry
<1>4. \A i \in Index : buffer.entry[i].size \in Nat
  BY <1>3, EntriesAssumption DEF Shape, TypeOK
<1>5. ASSUME NEW k \in Index, k >= n PROVE buffer.entry[Slot(buffer, k)].size = 0
  <2>1. CASE buffer.full
    BY <1>1, <1>5, <2>1 DEF aesd_circular_buffer_get_count, Index
  <2>2. CASE ~buffer.full
    <3>1. buffer.out_offs = 0 /\ n = buffer.in_offs
      BY <1>1, <1>2, <2>2 DEF Shape, RingShape, aesd_circular_buffer_get_count, Index
    <3>2. Slot(buffer, k) = k
      BY <1>1, <1>2, <3>1, SlotWraps DEF Index
    <3>3. buffer.entry[k] = EmptyEntry
      BY <1>5, <2>2, <3>1 DEF Shape, RingShape
    <3>4. QED
      BY <1>3, <3>2, <3>3
  <2>3. QED
    BY <2>1, <2>2
<1>6. QED
  BY <1>2, <1>4, <1>5 DEF Searchable

(* Where each byte of the log is in the concatenation.                     *)
LEMMA BytesAre ==
  ASSUME Shape
  PROVE  LET n == aesd_circular_buffer_get_count(buffer)
             B == BytesBefore(buffer)
         IN  /\ Len(Bytes) = B[n] /\ B[n] = B[MaxWriteOps]
             /\ \A j \in 0 .. n - 1 : \A x \in 1 .. buffer.entry[Slot(buffer, j)].size :
                  Bytes[B[j] + x] = <<Slot(buffer, j), x - 1>>
<1> DEFINE n == aesd_circular_buffer_get_count(buffer)
           B == BytesBefore(buffer)
           T == Index \X Nat
           c == [k \in Nat |-> Cells(k)]
           F == CHOOSE F : F = [k \in 0 .. n |-> IF k = 0 THEN <<>> ELSE F[k - 1] \o Cells(k)]
<1>1. MaxWriteOps \in Nat /\ MaxWriteOps > 0 /\ Index = 0 .. MaxWriteOps - 1
  BY MaxWriteOpsAssumption DEF Index
<1>2. Searchable(buffer) /\ n \in 0 .. MaxWriteOps /\ n \in Nat
  BY <1>1, RingIsSearchable
<1>3. B[n] = B[MaxWriteOps]
  BY <1>2, RingIsSearchable, EmptyTail
<1>4. Bytes = F[n]
  BY DEF Bytes
<1>5. \A k \in 1 .. n : c[k] = Cells(k)
  BY <1>2
<1>6. F = [k \in 0 .. n |-> IF k = 0 THEN <<>> ELSE F[k - 1] \o Cells(k)]
  <2>1. PICK f : IsConcat(f, n, c)
    BY <1>2, ConcatExists
  <2> HIDE DEF c, n
  <2>2. f = [k \in 0 .. n |-> IF k = 0 THEN <<>> ELSE f[k - 1] \o Cells(k)]
    <3>1. \A k \in 0 .. n : k # 0 => c[k] = Cells(k)
      BY <1>2, <1>5
    <3>2. QED
      BY <2>1, <3>1 DEF IsConcat
  <2>3. QED
    BY <2>2
<1>7. IsConcat(F, n, c)
  <2> HIDE DEF c, n, F
  <2>1. \A k \in 0 .. n : k # 0 => c[k] = Cells(k)
    BY <1>2, <1>5
  <2>2. QED
    BY <1>6, <2>1 DEF IsConcat
<1>8. ASSUME NEW k \in 1 .. n
      PROVE  /\ c[k] \in Seq(T) /\ Len(c[k]) = buffer.entry[Slot(buffer, k - 1)].size
             /\ \A x \in 1 .. Len(c[k]) : c[k][x] = <<Slot(buffer, k - 1), x - 1>>
             /\ B[k] = B[k - 1] + Len(c[k]) /\ B[k] \in Nat
  <2> DEFINE i == Slot(buffer, k - 1)
             z == buffer.entry[i].size
  <2>1. k - 1 \in Index /\ (k - 1) + 1 = k /\ k \in 0 .. MaxWriteOps
    BY <1>1, <1>2
  <2>2. i \in Index
    BY <1>2, <2>1, SlotWraps DEF Searchable
  <2>3. z \in Nat
    BY <1>2, <2>2 DEF Searchable
  <2>4. B[k] = B[k - 1] + z /\ B[k] \in Nat
    BY <1>2, <2>1, BytesBeforeGrows
  <2>5. c[k] = [j \in 1 .. z |-> <<i, j - 1>>]
    BY <1>5 DEF Cells
  <2> HIDE DEF i, z, c, B
  <2>6. c[k] \in Seq(T) /\ Len(c[k]) = z
    BY <2>2, <2>3, <2>5
  <2>7. \A x \in 1 .. Len(c[k]) : c[k][x] = <<i, x - 1>>
    BY <2>5, <2>6
  <2>8. QED
    BY <2>4, <2>6, <2>7 DEF i, z
<1>9. B[0] = 0 /\ \A k \in 0 .. n : B[k] \in Nat
  <2>1. \A k \in 0 .. n : k \in 0 .. MaxWriteOps
    BY <1>1, <1>2
  <2>2. QED
    BY <1>2, <2>1, BytesBeforeGrows
<1> HIDE DEF n, B, c, F, T
<1>10. ASSUME NEW j \in 0 .. n - 1
       PROVE  /\ j + 1 \in 1 .. n /\ B[j + 1] = B[j] + Len(c[j + 1])
              /\ Len(c[j + 1]) = buffer.entry[Slot(buffer, j)].size
              /\ \A x \in 1 .. Len(c[j + 1]) : c[j + 1][x] = <<Slot(buffer, j), x - 1>>
  <2>1. j + 1 \in 1 .. n /\ (j + 1) - 1 = j
    BY <1>2
  <2>2. QED
    BY <1>8, <2>1
<1>11. /\ Len(F[n]) = B[n]
       /\ \A j \in 0 .. n - 1 : \A x \in 1 .. Len(c[j + 1]) : F[n][B[j] + x] = c[j + 1][x]
  <2>1. n \in Nat /\ \A k \in 1 .. n : c[k] \in Seq(T)
    BY <1>2, <1>8
  <2>2. \A k \in 0 .. n - 1 : B[k + 1] = B[k] + Len(c[k + 1])
    BY <1>10
  <2>3. AreParts(c, n, B, T)
    BY <1>9, <2>1, <2>2, Zenon DEF AreParts
  <2>4. QED
    BY <1>7, <2>1, <2>3, ConcatIs
<1>12. QED
  BY <1>3, <1>4, <1>10, <1>11 DEF n, B

(* Every position before the end is a byte of one of the commands.         *)
LEMMA PositionOfByte ==
  ASSUME Shape, NEW x \in 0 .. Len(Bytes) - 1
  PROVE  \E k \in Index :
           /\ BytesBefore(buffer)[k] <= x
           /\ BytesBefore(buffer)[k] \in Nat
           /\ x - BytesBefore(buffer)[k] \in Nat
           /\ x - BytesBefore(buffer)[k] < buffer.entry[Slot(buffer, k)].size
           /\ x < BytesBefore(buffer)[k] + buffer.entry[Slot(buffer, k)].size
           /\ Bytes[x + 1] = <<Slot(buffer, k), x - BytesBefore(buffer)[k]>>
<1> DEFINE n == aesd_circular_buffer_get_count(buffer)
           B == BytesBefore(buffer)
           size(k) == buffer.entry[Slot(buffer, k)].size
<1>1. MaxWriteOps \in Nat /\ MaxWriteOps > 0 /\ Index = 0 .. MaxWriteOps - 1
  BY MaxWriteOpsAssumption DEF Index
<1>2. Searchable(buffer) /\ n \in 0 .. MaxWriteOps /\ n \in Nat
  BY <1>1, RingIsSearchable
<1>3. Len(Bytes) = B[MaxWriteOps] /\ B[MaxWriteOps] \in Nat
  BY <1>1, <1>2, BytesAre, BytesBeforeGrows
<1>4. x \in Nat /\ x < B[MaxWriteOps]
  <2> HIDE DEF B
  <2> QED BY <1>3
<1>5. PICK k \in Index : B[k] <= x /\ x < B[k] + size(k)
  BY <1>2, <1>4, PositionIsVisited
<1>6. B[k] \in Nat /\ size(k) \in Nat
  BY <1>1, <1>2, BytesBeforeGrows
<1>7. k < n
  <2>1. k >= n => size(k) = 0
    BY RingIsSearchable
  <2> HIDE DEF B, n, size
  <2>2. QED
    BY <1>1, <1>2, <1>4, <1>5, <1>6, <2>1
<1> DEFINE o == x - B[k]
<1>8. o \in Nat /\ o < size(k) /\ o + 1 \in 1 .. size(k) /\ B[k] + (o + 1) = x + 1
      /\ (o + 1) - 1 = o
  <2> HIDE DEF B, size
  <2> QED BY <1>4, <1>5, <1>6
<1>9. k \in 0 .. n - 1
  <2> HIDE DEF n
  <2> QED BY <1>1, <1>2, <1>7
<1>10. Bytes[B[k] + (o + 1)] = <<Slot(buffer, k), (o + 1) - 1>>
  <2>1. \A j \in 0 .. n - 1 : \A y \in 1 .. size(j) : Bytes[B[j] + y] = <<Slot(buffer, j), y - 1>>
    BY BytesAre
  <2> HIDE DEF B, n, o, size
  <2>2. QED
    BY <1>8, <1>9, <2>1
<1>11. Bytes[x + 1] = <<Slot(buffer, k), o>>
  <2> HIDE DEF B, o, size
  <2> QED BY <1>8, <1>10
<1>12. QED
  BY <1>5, <1>6, <1>8, <1>11

(* The lookup by position agrees with the concatenation of the commands,   *)
(* for every ring that calls of add_entry can produce.                     *)
THEOREM LookupIsConcatenation == Spec => []LookupMatchesConcatenation
<1>1. ASSUME Shape PROVE LookupMatchesConcatenation
  <2>1. MaxWriteOps \in Nat /\ Searchable(buffer)
    BY <1>1, RingIsSearchable, MaxWriteOpsAssumption
  <2>2. Len(Bytes) = BytesBefore(buffer)[MaxWriteOps] /\ BytesBefore(buffer)[MaxWriteOps] \in Nat
    BY <1>1, <2>1, BytesAre, BytesBeforeGrows
  <2>3. aesd_circular_buffer_get_size(buffer) = Len(Bytes)
    BY <2>2 DEF aesd_circular_buffer_get_size
  <2>4. aesd_circular_buffer_find_entry_offset_for_fpos(buffer, Len(Bytes)) = NotFound
    <3> DEFINE x == Len(Bytes)
    <3>1. x \in Nat /\ BytesBefore(buffer)[MaxWriteOps] <= x
      BY <2>2
    <3> HIDE DEF x
    <3>2. aesd_circular_buffer_find_entry_offset_for_fpos(buffer, x) = NotFound
      BY <2>1, <3>1, FindPastEnd
    <3>3. QED
      BY <3>2 DEF x
  <2>5. ASSUME NEW x \in 0 .. Len(Bytes) - 1
        PROVE  aesd_circular_buffer_find_entry_offset_for_fpos(buffer, x)
                 = [entry |-> Bytes[x + 1][1], offset |-> Bytes[x + 1][2]]
    <3>1. PICK k \in Index :
            /\ BytesBefore(buffer)[k] <= x
            /\ x < BytesBefore(buffer)[k] + buffer.entry[Slot(buffer, k)].size
            /\ Bytes[x + 1] = <<Slot(buffer, k), x - BytesBefore(buffer)[k]>>
      BY <1>1, PositionOfByte
    <3>2. x \in Nat
      BY <2>2
    <3>3. aesd_circular_buffer_find_entry_offset_for_fpos(buffer, x)
            = [entry |-> Slot(buffer, k), offset |-> x - BytesBefore(buffer)[k]]
      BY <2>1, <3>1, <3>2, FindInEntry
    <3>4. Bytes[x + 1][1] = Slot(buffer, k) /\ Bytes[x + 1][2] = x - BytesBefore(buffer)[k]
      BY <3>1
    <3>5. QED
      BY <3>3, <3>4
  <2>6. QED
    BY <2>3, <2>4, <2>5 DEF LookupMatchesConcatenation
<1>2. QED
  BY InitShape, NextShape, <1>1, PTL DEF Spec

(* The lookup by entry is the inverse of the lookup by position, and       *)
(* refuses an offset past the entry, for every such ring.                  *)
THEOREM SeekIsInverse == Spec => []SeekInvertsLookup
<1>1. ASSUME Shape PROVE SeekInvertsLookup
  <2>1. MaxWriteOps \in Nat /\ Searchable(buffer)
    BY <1>1, RingIsSearchable, MaxWriteOpsAssumption
  <2>2. ASSUME NEW x \in 0 .. Len(Bytes) - 1
        PROVE  aesd_circular_buffer_fpos_for_entry(buffer, Bytes[x + 1][1], Bytes[x + 1][2]) = x
    <3>1. PICK k \in Index :
            /\ BytesBefore(buffer)[k] \in Nat
            /\ x - BytesBefore(buffer)[k] \in Nat
            /\ x - BytesBefore(buffer)[k] < buffer.entry[Slot(buffer, k)].size
            /\ Bytes[x + 1] = <<Slot(buffer, k), x - BytesBefore(buffer)[k]>>
      BY <1>1, PositionOfByte
    <3> DEFINE o == x - BytesBefore(buffer)[k]
    <3>2. o \in Nat /\ o < buffer.entry[Slot(buffer, k)].size /\ BytesBefore(buffer)[k] + o = x
      <4> DEFINE B == BytesBefore(buffer)[k]
      <4>1. B \in Nat /\ x \in Int
        BY <3>1
      <4> HIDE DEF B
      <4>2. B + (x - B) = x
        BY <4>1
      <4>3. QED
        BY <3>1, <4>2 DEF B
    <3>3. Bytes[x + 1][1] = Slot(buffer, k) /\ Bytes[x + 1][2] = o
      BY <3>1
    <3> HIDE DEF o
    <3>4. aesd_circular_buffer_fpos_for_entry(buffer, Slot(buffer, k), o)
            = BytesBefore(buffer)[k] + o
      BY <2>1, <3>2, FposOfEntry
    <3>5. QED
      BY <3>2, <3>3, <3>4
  <2>3. ASSUME NEW i \in Index
        PROVE  aesd_circular_buffer_fpos_for_entry(buffer, i, buffer.entry[i].size) = -1
    <3>1. buffer.entry[i].size >= buffer.entry[i].size
      BY <2>1 DEF Searchable
    <3>2. QED
      BY <3>1 DEF aesd_circular_buffer_fpos_for_entry
  <2>4. QED
    BY <2>2, <2>3 DEF SeekInvertsLookup
<1>2. QED
  BY InitShape, NextShape, <1>1, PTL DEF Spec
=============================================================================
