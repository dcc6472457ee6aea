------------------------------ MODULE MCHandover ------------------------------
(* Handover for two connections, one of which may still be logging in. *)
EXTENDS Handover, TLC

CONSTANTS s1, s2

TwoSessions == {s1, s2}
FirstLoggedIn == {s1}
=============================================================================
