-------------------------- MODULE MCCircularBuffer --------------------------
(***************************************************************************)
(* The ring at the build's own size, with entries of two sizes (and two    *)
(* buffers, so that they can be told apart).                               *)
(***************************************************************************)
EXTENDS CircularBuffer

CONSTANTS p1, p2  \* two buffers

MCEntries == {[buffptr |-> p1, size |-> 1], [buffptr |-> p2, size |-> 2]}
=============================================================================
