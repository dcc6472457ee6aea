----------------------------- MODULE NatRegistry -----------------------------
(***************************************************************************)
(* The PR_NAT registry of ed2k/nattraversal.go: the candidate endpoints of *)
(* every user hash, one per address family, and the index by endpoint that *)
(* lets a keepalive, which carries no hash, find its entry.  Both are      *)
(* written under h.mu, so an operation is one step.  Time is the 32-bit    *)
(* millisecond tick a slot is stamped with, here modulo Wrap.              *)
(***************************************************************************)
EXTENDS Integers, FiniteSets

CONSTANTS Hash,          \* user hashes
          EP4, EP6,      \* UDP endpoints of the two families
          SessionAddrs,  \* the endpoints each hash's session address covers
          Version,       \* versions a REGISTER_EX may carry, 0 is none
          TTL,           \* registration lifetime, in ticks
          Wrap,          \* number of tick values, 2^32 in the code
          SweepEvery,    \* longest time between two cleanups
          None

Endpoint == EP4 \union EP6
Family == {4, 6}
FamilyOf(ep) == IF ep \in EP6 THEN 6 ELSE 4
Other(f) == IF f = 4 THEN 6 ELSE 4

ASSUME RegistryConstants ==
  /\ EP4 \cap EP6 = {}
  /\ None \notin Endpoint \union Hash
  /\ SessionAddrs \in [Hash -> SUBSET Endpoint]
  /\ Version \subseteq Nat /\ 0 \in Version
  /\ TTL \in Nat \ {0} /\ SweepEvery \in Nat \ {0}
  /\ Wrap \in Nat /\ TTL + SweepEvery + 1 < Wrap

VARIABLES slot,       \* slot[h][f]: the stored candidate of h in family f
          version,    \* the version of each entry
          byAddr,     \* the index: the hash each endpoint belongs to
          clock,      \* ticks since the handler was made, modulo Wrap
          age,        \* true time since each slot was last refreshed
          sinceSweep  \* true time since the last cleanup

vars == <<slot, version, byAddr, clock, age, sinceSweep>>

Slot == [ep : Endpoint \union {None}, seen : 0..(Wrap - 1)]
EmptySlot == [ep |-> None, seen |-> 0]

TypeOK ==
  /\ slot \in [Hash -> [Family -> Slot]]
  /\ version \in [Hash -> Version]
  /\ byAddr \in [Endpoint -> Hash \union {None}]
  /\ clock \in 0..(Wrap - 1)
  /\ age \in [Hash -> [Family -> Nat]]
  /\ sinceSweep \in 0..SweepEvery

Init ==
  /\ slot = [h \in Hash |-> [f \in Family |-> EmptySlot]]
  /\ version = [h \in Hash |-> 0]
  /\ byAddr = [ep \in Endpoint |-> None]
  /\ clock = 0
  /\ age = [h \in Hash |-> [f \in Family |-> 0]]
  /\ sinceSweep = 0

-----------------------------------------------------------------------------
\* A stamp is never 0, which marks the empty slot.
Tick == IF clock = 0 THEN 1 ELSE clock

NatAge(now, seen) == (now - seen) % Wrap

\* Faulty: an age that does not survive the wrap.
LiveSlot_NoWrap(s) == s.seen # 0 /\ Tick - s.seen < TTL

\* Every reader goes through this: a candidate expires at the TTL, not at the
\* next sweep.
LiveSlot(s) == s.seen # 0 /\ NatAge(Tick, s.seen) < TTL

\* A slot whose index entry is that of the hash is dropped from the index
\* when the slot is emptied or moves to another endpoint.
Owned(h, f) == slot[h][f].seen # 0 /\ byAddr[slot[h][f].ep] = h

\* Faulty: the older registration keeps the endpoint too.
SetSlot_KeepsOther(h, ep, v) ==
  LET f == FamilyOf(ep) IN
  /\ slot' = [slot EXCEPT ![h][f] = [ep |-> ep, seen |-> Tick]]
  /\ byAddr' = [e \in Endpoint |->
                  IF e = ep THEN h
                  ELSE IF Owned(h, f) /\ e = slot[h][f].ep THEN None ELSE byAddr[e]]
  /\ age' = [age EXCEPT ![h][f] = 0]
  /\ version' = [version EXCEPT ![h] = IF v > 0 THEN v ELSE @]

\* The endpoint becomes h's candidate and leaves the hash that held it; an
\* entry with no slot left is deleted, and its version with it.
SetSlot(h, ep, v) ==
  LET f == FamilyOf(ep)
      stale(g) == g # h /\ byAddr[ep] = g /\ slot[g][f].ep = ep
  IN  /\ slot' = [g \in Hash |-> [slot[g] EXCEPT ![f] =
                    IF g = h THEN [ep |-> ep, seen |-> Tick]
                    ELSE IF stale(g) THEN EmptySlot ELSE @]]
      /\ byAddr' = [e \in Endpoint |->
                      IF e = ep THEN h
                      ELSE IF Owned(h, f) /\ e = slot[h][f].ep THEN None ELSE byAddr[e]]
      /\ age' = [g \in Hash |-> [age[g] EXCEPT ![f] = IF g = h \/ stale(g) THEN 0 ELSE @]]
      /\ version' = [g \in Hash |->
                       IF g = h THEN IF v > 0 THEN v ELSE version[h]
                       ELSE IF stale(g) /\ slot[g][Other(f)].seen = 0 THEN 0
                       ELSE version[g]]

\* registerAllowed: only from an address of the session of that hash.
RegisterAllowed(h, ep) == ep \in SessionAddrs[h]

\* OP_NAT_REGISTER and OP_NAT_REGISTER_EX.
Register(h, ep, v) ==
  /\ RegisterAllowed(h, ep)
  /\ SetSlot(h, ep, v)
  /\ UNCHANGED <<clock, sinceSweep>>

\* OP_NAT_SYNC2 registers the requester when it has no live candidate in the
\* family of the datagram, and keeps the version of an earlier REGISTER_EX.
Sync2Register(h, ep) ==
  /\ ~LiveSlot(slot[h][FamilyOf(ep)])
  /\ RegisterAllowed(h, ep)
  /\ SetSlot(h, ep, 0)
  /\ UNCHANGED <<clock, sinceSweep>>

\* touchByAddr, for a keepalive of either form.
KeepAlive(ep) ==
  LET h == byAddr[ep] f == FamilyOf(ep) IN
  /\ h # None
  /\ LiveSlot(slot[h][f]) /\ slot[h][f].ep = ep
  /\ slot' = [slot EXCEPT ![h][f] = [ep |-> ep, seen |-> Tick]]
  /\ age' = [age EXCEPT ![h][f] = 0]
  /\ UNCHANGED <<version, byAddr, clock, sinceSweep>>

\* The periodic sweep.
Dead(h, f) == slot[h][f].seen # 0 /\ ~LiveSlot(slot[h][f])

\* Faulty: a sweep that trusts the index and removes nothing from the slots.
Cleanup_Skips ==
  /\ sinceSweep' = 0
  /\ UNCHANGED <<slot, version, byAddr, clock, age>>

Cleanup ==
  /\ slot' = [h \in Hash |-> [f \in Family |-> IF Dead(h, f) THEN EmptySlot ELSE slot[h][f]]]
  /\ byAddr' = [e \in Endpoint |->
                  IF \E h \in Hash, f \in Family :
                       Dead(h, f) /\ slot[h][f].ep = e /\ byAddr[e] = h
                  THEN None ELSE byAddr[e]]
  /\ version' = [h \in Hash |->
                   IF \A f \in Family : Dead(h, f) \/ slot[h][f].seen = 0 THEN 0 ELSE version[h]]
  /\ age' = [h \in Hash |-> [f \in Family |-> IF Dead(h, f) THEN 0 ELSE age[h][f]]]
  /\ sinceSweep' = 0
  /\ UNCHANGED clock

\* Time passes; the sweep's ticker keeps its interval.
Advance ==
  /\ sinceSweep < SweepEvery
  /\ sinceSweep' = sinceSweep + 1
  /\ clock' = (clock + 1) % Wrap
  /\ age' = [h \in Hash |-> [f \in Family |->
               IF slot[h][f].seen # 0 THEN age[h][f] + 1 ELSE 0]]
  /\ UNCHANGED <<slot, version, byAddr>>

Next ==
  \/ \E h \in Hash, ep \in Endpoint : (\E v \in Version : Register(h, ep, v)) \/ Sync2Register(h, ep)
  \/ \E ep \in Endpoint : KeepAlive(ep)
  \/ Cleanup
  \/ Advance

Spec == Init /\ [][Next]_vars

-----------------------------------------------------------------------------
\* The index and the slots are inverse to each other ("Every write to a slot's
\* endpoint goes through setSlot/clearSlot, which keep it in step"): a
\* keepalive finds the entry its endpoint is stored in, whichever hashes
\* registered it before, and no two hashes hold one endpoint.
IndexExact ==
  \A ep \in Endpoint, h \in Hash :
    byAddr[ep] = h <=> slot[h][FamilyOf(ep)].seen # 0 /\ slot[h][FamilyOf(ep)].ep = ep

\* A stored candidate is handed out until its lifetime is over and not after
\* it, to within the one tick the reserved 0 costs, also across the wrap of
\* the tick ("natAge is modular, and a candidate lives one TTL, so the wrap is
\* harmless").
ExpiresOnTime ==
  \A h \in Hash, f \in Family : slot[h][f].seen # 0 =>
    /\ LiveSlot(slot[h][f]) => age[h][f] <= TTL
    /\ age[h][f] + 1 < TTL => LiveSlot(slot[h][f])

\* An expired candidate comes back only by registering again: neither a late
\* keepalive nor the passing of time revives it (touchByAddr, liveSlot).
NoRevival ==
  [][\A h \in Hash, f \in Family :
       /\ slot[h][f].seen # 0 /\ ~LiveSlot(slot[h][f])
       /\ LiveSlot(slot[h][f])'
       => \E ep \in SessionAddrs[h] : FamilyOf(ep) = f /\ slot'[h][f] = [ep |-> ep, seen |-> Tick]]_vars
=============================================================================
