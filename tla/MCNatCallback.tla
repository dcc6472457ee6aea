---------------------------- MODULE MCNatCallback ----------------------------
(* Instances of the callback for TLC.  Sessions, addresses and requesters are *)
(* interchangeable, so runs that check invariants use their permutations.     *)
EXTENDS NatCallback, TLC

Symmetry == Permutations(Client) \cup Permutations(IP) \cup Permutations(Requester)

=============================================================================
