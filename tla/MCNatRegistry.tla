---------------------------- MODULE MCNatRegistry ----------------------------
(* Two hashes behind one address whose endpoints they may both register. *)
EXTENDS NatRegistry, TLC
CONSTANTS h1, h2, p1, p2, q1

MCSessionAddrs == h1 :> {p1, p2, q1} @@ h2 :> {p2, q1}
==============================================================================
