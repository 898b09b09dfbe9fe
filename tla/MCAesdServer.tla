---------------------------- MODULE MCAesdServer ----------------------------
(***************************************************************************)
(* Small instances of the server.                                          *)
(***************************************************************************)
EXTENDS AesdServerProperties, TLC

\* Clients are interchangeable.
Symmetry == Permutations(Clients)
=============================================================================
