------------------------------ MODULE MCNatWake ------------------------------
(* Two requesters of one target, whose session has an IPv6 address. *)
EXTENDS NatWake, TLC
CONSTANTS first, second, target, r1, r2

OneTarget == {<<first, target>>, <<second, target>>}
TargetRegisters == {<<target, 4>>, <<target, 6>>}
==============================================================================
