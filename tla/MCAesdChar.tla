----------------------------- MODULE MCAesdChar -----------------------------
(***************************************************************************)
(* Small instances of the driver.                                          *)
(***************************************************************************)
EXTENDS AesdCharProperties, TLC

CONSTANT x  \* a byte other than the newline

MCBytes == {x, NL, Zero}

\* A byte without a newline, a newline, a command of two bytes.
MCChunks == {<<x>>, <<NL>>, <<x, NL>>}

\* Before, at and after the position; past the end of any log.
MCLseekOffsets == {-1, 0, 1, 7}

\* Blocks are interchangeable, and so are processes.
Symmetry == Permutations(Ptrs) \cup Permutations(Procs)
=============================================================================
