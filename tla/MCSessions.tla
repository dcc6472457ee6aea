----------------------------- MODULE MCSessions -----------------------------
(***************************************************************************)
(* Sessions for TLC.  The connections are interchangeable.                 *)
(***************************************************************************)
EXTENDS Sessions, TLC

Symmetry == Permutations(Conn)
=============================================================================
