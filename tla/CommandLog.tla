----------------------------- MODULE CommandLog -----------------------------
(***************************************************************************)
(* What the ring promises: it keeps the most recent Capacity entries, in   *)
(* the order they were added; adding to a full log drops the oldest one    *)
(* (the comment above aesd_circular_buffer_add_entry).                     *)
(***************************************************************************)
EXTENDS Naturals, Sequences

CONSTANTS Capacity, Entries

VARIABLE log

Recent(s) == IF Len(s) > Capacity THEN Tail(s) ELSE s

Init == log = <<>>

Add(e) == log' = Recent(Append(log, e))

Next == \E e \in Entries : Add(e)

Spec == Init /\ [][Next]_log
=============================================================================
