----------------------------- MODULE CharDevice -----------------------------
(***************************************************************************)
(* What the driver promises to the processes that use it: a log of the     *)
(* last Capacity complete commands, the bytes of a command that has no     *)
(* newline yet, and a position per file.  Every operation is atomic.       *)
(***************************************************************************)
EXTENDS Integers, Sequences

CONSTANTS Capacity, Procs, Chunks, Counts, NL, Zero

VARIABLES log, partial, f_pos, got

vars == <<log, partial, f_pos, got>>

Recent(s) == IF Len(s) > Capacity THEN Tail(s) ELSE s

Init ==
  /\ log = <<>> /\ partial = <<>>
  /\ f_pos = [p \in Procs |-> 0]
  /\ got = [p \in Procs |-> <<>>]

\* Loading starts with an empty device, unloading drops what it holds.
Reset == log' = <<>> /\ partial' = <<>> /\ UNCHANGED <<f_pos, got>>

Close(p) ==
  /\ f_pos' = [f_pos EXCEPT ![p] = 0]
  /\ got' = [got EXCEPT ![p] = <<>>]
  /\ UNCHANGED <<log, partial>>

\* A chunk extends the pending command and, if it ends with a newline,
\* completes it.
Write(chunk) ==
  /\ IF chunk[Len(chunk)] = NL
     THEN log' = Recent(Append(log, partial \o chunk)) /\ partial' = <<>>
     ELSE partial' = partial \o chunk /\ UNCHANGED log
  /\ UNCHANGED <<f_pos, got>>

\* A write that fails completes no command: it damages the pending one, by
\* padding it or by dropping it.
FailedWrite(chunk) ==
  /\ \/ partial' = <<>>
     \/ \E n \in 0 .. Len(chunk) - 1 :
          partial' = partial \o [i \in DOMAIN chunk |-> IF i <= n THEN chunk[i] ELSE Zero]
  /\ UNCHANGED <<log, f_pos, got>>

\* The position of the first byte of command k.
Start(k) ==
  LET start[i \in 1 .. k] == IF i = 1 THEN 0 ELSE start[i - 1] + Len(log[i - 1])
  IN  start[k]

\* A read returns bytes of the command its position is in, as many as asked
\* for and there, and moves past them; it returns nothing past the last one.
Read(p, count) ==
  /\ \/ \E k \in DOMAIN log :
          LET from == f_pos[p] - Start(k)
              n    == IF count < Len(log[k]) - from THEN count ELSE Len(log[k]) - from
          IN  /\ from \in 0 .. Len(log[k]) - 1
              /\ got' = [got EXCEPT ![p] = SubSeq(log[k], from + 1, from + n)]
              /\ f_pos' = [f_pos EXCEPT ![p] = @ + n]
     \/ /\ \A k \in DOMAIN log : f_pos[p] >= Start(k) + Len(log[k])
        /\ got' = [got EXCEPT ![p] = <<>>]
        /\ UNCHANGED f_pos
  /\ UNCHANGED <<log, partial>>

\* A seek moves the position of one file and nothing else.
Seek(p) ==
  /\ f_pos'[p] \in Nat
  /\ f_pos' = [f_pos EXCEPT ![p] = f_pos'[p]]
  /\ UNCHANGED <<log, partial, got>>

\* A seek to byte o of command k, both counted from 0.
SeekTo(p, k, o) ==
  /\ k < Len(log) /\ o < Len(log[k + 1])
  /\ f_pos' = [f_pos EXCEPT ![p] = Start(k + 1) + o]
  /\ UNCHANGED <<log, partial, got>>

Next ==
  \/ Reset
  \/ \E c \in Chunks : Write(c) \/ FailedWrite(c)
  \/ \E p \in Procs : Close(p) \/ Seek(p) \/ \E n \in Counts : Read(p, n)

Spec == Init /\ [][Next]_vars
=============================================================================
