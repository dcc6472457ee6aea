---------------------------- MODULE NatWakeProofs ----------------------------
(***************************************************************************)
(* The waits of the TCP wake, for any number of hashes, SYNC2s and         *)
(* families, any natWakeMaxWaiters and any natWakeMaxPending: a SYNC2 that *)
(* was told to wait is in one wait, every wait has a timer, and only a     *)
(* REGISTER or that timer ends it.                                         *)
(*                                                                         *)
(* WaitsOnce becomes inductive once its places are told apart: a SYNC2 is  *)
(* in one wait of the table, or in one that has left it, never in both     *)
(* (Placed), and the waiters of a wait are finitely many (Bounded).        *)
(***************************************************************************)
EXTENDS NatWake, FiniteSetTheorems, TLAPS

\* A SYNC2 in the hands of a worker names two hashes.
Handled == {"decide", "wake", "write", "store"}
Named == \A r \in Request : pc[r] \in Handled => src[r] \in Hash /\ dst[r] \in Hash

\* The waiters on h, in the table.
Waiters(h) == IF pending[h] = None THEN {} ELSE pending[h].waiters

\* A SYNC2 waits exactly when it is in a wait, and it is in one only.
Placed ==
  \A r \in Request :
    /\ At(r, "waiting") <=> (\E h \in Hash : r \in Waiters(h)) \/ (\E e \in finished : r \in e.waiters)
    /\ \A g, h \in Hash : r \in Waiters(g) /\ r \in Waiters(h) => g = h
    /\ \A d, e \in finished : r \in d.waiters /\ r \in e.waiters => d = e
    /\ \A h \in Hash, e \in finished : ~(r \in Waiters(h) /\ r \in e.waiters)

\* A requester is in a wait with one SYNC2.
Single == \A h \in Hash : \A q, r \in Waiters(h) : src[q] = src[r] => q = r

Bounded == \A h \in Hash : IsFiniteSet(Waiters(h)) /\ Cardinality(Waiters(h)) <= MaxWaiters

WakeInv == TypeOK /\ Named /\ Placed /\ Single /\ Bounded /\ WaitWillEnd

-----------------------------------------------------------------------------
\* The types.

\* What adding a waiter changes.
LEMMA AddWaiterTypes ==
  ASSUME TypeOK, NEW t \in Hash, NEW r \in Request, NEW families \in SUBSET Family,
         pending[t] # None, AddWaiter(t, r, families)
  PROVE  /\ pending' \in [Hash -> Wait \union {None}] /\ pc' \in [Request -> Label]
         /\ pending'[t] # None /\ \A h \in Hash : h # t => pending'[h] = pending[h]
         /\ pending'[t].waiters = IF HasRoom(pending[t], r)
                                  THEN (pending[t].waiters \ Repeats(pending[t], r)) \union {r}
                                  ELSE pending[t].waiters
         /\ pending'[t].id = pending[t].id /\ pending'[t].armed = pending[t].armed
<1>1. pending[t] \in Wait
  BY DEF TypeOK
<1>2. Repeats(pending[t], r) \subseteq Request
  BY <1>1 DEF Repeats, Wait
<1>3. pc' \in [Request -> Label]
  BY DEF AddWaiter, TypeOK, Label, Answered
<1> DEFINE w == pending[t]
           S == IF HasRoom(w, r) THEN (w.waiters \ Repeats(w, r)) \union {r} ELSE w.waiters
           F == w.families \union families
           added == [w EXCEPT !.families = F, !.waiters = S]
<1>4. S \in SUBSET Request /\ F \in SUBSET Family
  BY <1>1 DEF Wait
<1>5. pending' = [pending EXCEPT ![t] = added]
  BY DEF AddWaiter
<1> HIDE DEF S, F
<1>6. added \in Wait /\ added.waiters = S /\ added.id = w.id /\ added.armed = w.armed
  BY <1>1, <1>4 DEF Wait
<1>7. added # None
  BY <1>6, WakeConstants
<1> HIDE DEF added
<1>8. /\ pending' \in [Hash -> Wait \union {None}] /\ pending'[t] = added
      /\ \A h \in Hash : h # t => pending'[h] = pending[h]
  BY <1>5, <1>6 DEF TypeOK
<1> QED BY Zenon, <1>3, <1>6, <1>7, <1>8 DEF S

\* A worker's SYNC2 has its target.
LEMMA Targeted ==
  ASSUME TypeOK, Named, NEW r \in Request, pc[r] \in Handled
  PROVE  /\ src[r] \in Hash /\ dst[r] \in Hash
         /\ WakeFamilies(r) \in SUBSET Family /\ fams[r] \in SUBSET Family
BY DEF Named, TypeOK, WakeFamilies

\* What ending a wait changes.
LEMMA EndWaitTypes ==
  ASSUME TypeOK, NEW h \in Hash, pending[h] # None, EndWait(h)
  PROVE  /\ pending' \in [Hash -> Wait \union {None}]
         /\ finished' \subseteq [target : Hash, waiters : SUBSET Request]
BY DEF TypeOK, EndWait, Wait

\* Every step keeps the types.
LEMMA TypeStep ==
  ASSUME TypeOK, Named, [Next]_vars
  PROVE  TypeOK' /\ Named'
<1>1. ASSUME NEW r \in Request, NEW p \in Pairs, NEW f \in Family, Sync2(r, p[1], p[2], f)
      PROVE  TypeOK' /\ Named'
  <2>1. p[1] \in Hash /\ p[2] \in Hash
    BY WakeConstants
  <2>2. cand' \in [Hash -> SUBSET Family]
    BY <1>1, <2>1 DEF Sync2, TypeOK
  <2>3. /\ fams' \in [Request -> SUBSET Family] /\ pc' \in [Request -> Label]
        /\ src' \in [Request -> Hash \union {None}] /\ dst' \in [Request -> Hash \union {None}]
    BY <1>1, <2>1, <2>2 DEF Sync2, Goto, TypeOK, Label
  <2>4. Named'
    BY <1>1, <2>1 DEF Sync2, Goto, At, Named, Handled, TypeOK
  <2> QED BY <1>1, <2>2, <2>3, <2>4 DEF Sync2, TypeOK
<1>2. ASSUME NEW r \in Request, Handle(r) PROVE TypeOK' /\ Named'
  <2>0. /\ pc[r] \in Handled /\ src[r] \in Hash /\ dst[r] \in Hash
        /\ WakeFamilies(r) \in SUBSET Family /\ fams[r] \in SUBSET Family
    BY <1>2, Targeted DEF Handle, Decide, JoinWait, StartWake, NoWake, WakeWrite, WakeWriteFails,
                          StoreWait, StoreJoins, At, Handled
  <2>1. /\ UNCHANGED <<member, cand, src, dst, expiring, regs, finished>>
        /\ fams' \in [Request -> SUBSET Family]
    BY <1>2, <2>0 DEF Handle, Decide, JoinWait, StartWake, NoWake, WakeWrite, WakeWriteFails,
                      StoreWait, StoreJoins, TypeOK
  <2>2. pending' \in [Hash -> Wait \union {None}] /\ pc' \in [Request -> Label]
    <3>1. CASE Decide(r) \/ StartWake(r) \/ NoWake(r) \/ WakeWrite(r) \/ WakeWriteFails(r)
      BY <3>1 DEF Decide, StartWake, NoWake, WakeWrite, WakeWriteFails, Goto, TypeOK, Label, Answered
    <3>2. CASE JoinWait(r) \/ StoreJoins(r)
      BY <2>0, <3>2, AddWaiterTypes DEF JoinWait, StoreJoins
    <3>3. CASE StoreWait(r)
      <4>1. [id |-> r, families |-> fams[r], waiters |-> {r}, graced |-> FALSE, armed |-> TRUE] \in Wait
        BY <2>0 DEF Wait
      <4> QED BY <3>3, <4>1 DEF StoreWait, Goto, TypeOK, Label
    <3> QED BY Zenon, <1>2, <3>1, <3>2, <3>3 DEF Handle
  <2>3. \A q \in Request : pc'[q] \in Handled => pc[q] \in Handled
    BY <1>2, <2>0 DEF Handle, Decide, JoinWait, StartWake, NoWake, WakeWrite, WakeWriteFails,
                      StoreWait, StoreJoins, AddWaiter, Goto, Handled, TypeOK
  <2> QED BY <2>1, <2>2, <2>3 DEF TypeOK, Named
<1>3. ASSUME NEW h \in Hash, NEW f \in Family, Register(h, f) \/ LoseCandidate(h, f)
      PROVE  TypeOK' /\ Named'
  <2>1. cand' \in [Hash -> SUBSET Family] /\ regs' \subseteq Hash \X Family
    BY <1>3 DEF Register, LoseCandidate, TypeOK
  <2>2. UNCHANGED <<member, request, pending, expiring, finished>>
    BY <1>3 DEF Register, LoseCandidate
  <2> QED BY <2>1, <2>2 DEF TypeOK, Named, request
<1>4. ASSUME NEW h \in Hash, NEW f \in Family, CompleteWake(h, f) PROVE TypeOK' /\ Named'
  <2>1. UNCHANGED <<member, cand, request, expiring>> /\ regs' \subseteq Hash \X Family
    BY <1>4 DEF CompleteWake, TypeOK
  <2>2. CASE UNCHANGED <<pending, finished>>
    BY <2>1, <2>2 DEF TypeOK, Named, request
  <2>3. CASE pending[h] # None /\ EndWait(h)
    BY <2>1, <2>3, EndWaitTypes DEF TypeOK, Named, request
  <2>4. CASE /\ pending[h] # None /\ UNCHANGED finished
             /\ pending' = [pending EXCEPT ![h] = [pending[h] EXCEPT !.graced = TRUE, !.armed = TRUE]]
    <3>1. pending[h] \in Wait /\ [pending[h] EXCEPT !.graced = TRUE, !.armed = TRUE] \in Wait
      BY <2>4 DEF TypeOK, Wait
    <3>2. pending' \in [Hash -> Wait \union {None}]
      BY <2>4, <3>1 DEF TypeOK
    <3> QED BY <2>1, <2>4, <3>2 DEF TypeOK, Named, request
  <2> QED BY Zenon, <1>4, <2>2, <2>3, <2>4 DEF CompleteWake
<1>5. ASSUME NEW h \in Hash, TimerFires(h) PROVE TypeOK' /\ Named'
  <2>1. pending[h] \in Wait /\ [pending[h] EXCEPT !.armed = FALSE] \in Wait /\ pending[h].id \in Request
    BY <1>5 DEF TimerFires, TypeOK, Wait
  <2>2. pending' \in [Hash -> Wait \union {None}] /\ expiring' \subseteq Hash \X Request
    BY <1>5, <2>1 DEF TimerFires, TypeOK
  <2> QED BY <1>5, <2>2 DEF TimerFires, TypeOK, Named, request
<1>6. ASSUME NEW h \in Hash, LogOut(h) PROVE TypeOK' /\ Named'
  BY <1>6 DEF LogOut, TypeOK, Named, request
<1>7. ASSUME NEW h \in Hash, NEW id \in Request, ExpireWake(h, id) PROVE TypeOK' /\ Named'
  <2>1. UNCHANGED <<member, cand, request, regs>> /\ expiring' \subseteq Hash \X Request
    BY <1>7 DEF ExpireWake, TypeOK
  <2>2. CASE UNCHANGED <<pending, finished>>
    BY <2>1, <2>2 DEF TypeOK, Named, request
  <2>3. CASE pending[h] # None /\ EndWait(h)
    BY <2>1, <2>3, EndWaitTypes DEF TypeOK, Named, request
  <2> QED BY Zenon, <1>7, <2>2, <2>3 DEF ExpireWake
<1>8. ASSUME NEW e \in finished, WakeOutbound(e) PROVE TypeOK' /\ Named'
  <2>1. pc' \in [Request -> Label] /\ \A q \in Request : pc'[q] \in Handled => pc[q] \in Handled
    BY <1>8 DEF WakeOutbound, TypeOK, Label, Answered, Handled
  <2> QED BY <1>8, <2>1 DEF WakeOutbound, TypeOK, Named
<1>9. CASE UNCHANGED vars
  BY <1>9 DEF vars, request, TypeOK, Named
<1> QED BY <1>1, <1>2, <1>3, <1>4, <1>5, <1>6, <1>7, <1>8, <1>9 DEF Next

-----------------------------------------------------------------------------
\* The places.

\* The waiters are requests.
LEMMA WaitersType ==
  ASSUME TypeOK, NEW h \in Hash
  PROVE  Waiters(h) \subseteq Request
BY DEF TypeOK, Waiters, Wait

\* Whoever waits on h is waiting.
LEMMA WaitersWait ==
  ASSUME TypeOK, Placed, NEW h \in Hash, NEW r \in Waiters(h)
  PROVE  r \in Request /\ pc[r] = "waiting"
BY WaitersType DEF Placed, At

\* A step that neither begins nor ends anybody's waiting.
LEMMA StillPlaced ==
  ASSUME TypeOK, Placed, Single, Bounded, finished' = finished,
         \A h \in Hash : Waiters(h)' = Waiters(h),
         \A r \in Request : pc'[r] = "waiting" <=> pc[r] = "waiting",
         \A r \in Request : pc[r] = "waiting" => src'[r] = src[r]
  PROVE  Placed' /\ Single' /\ Bounded'
<1>1. Placed'
  BY DEF Placed, At
<1>2. Single'
  BY Zenon, WaitersWait DEF Single
<1>3. Bounded'
  BY Zenon DEF Bounded
<1> QED BY <1>1, <1>2, <1>3

\* A requester joins a wait, in the place of its earlier SYNC2 if there is one.
LEMMA AddWaiterPlaced ==
  ASSUME TypeOK, Placed, Single, Bounded, NEW t \in Hash, NEW r \in Request,
         NEW families \in SUBSET Family, pending[t] # None, pc[r] \in Handled,
         AddWaiter(t, r, families), UNCHANGED <<src, finished>>
  PROVE  Placed' /\ Single' /\ Bounded'
<1> DEFINE W == pending[t].waiters
           R == Repeats(pending[t], r)
           room == HasRoom(pending[t], r)
<1>1. \A h \in Hash : Waiters(h)' = IF h = t /\ room THEN (W \ R) \union {r} ELSE Waiters(h)
  BY Zenon, AddWaiterTypes DEF Waiters
<1>2. \A q \in Request : pc'[q] = IF q = r THEN IF room THEN "waiting" ELSE "failed"
                                  ELSE IF room /\ q \in R THEN "superseded" ELSE pc[q]
  BY Zenon DEF AddWaiter
<1>3. Waiters(t) = W /\ W \subseteq Request /\ R = {q \in W : src[q] = src[r]}
  BY WaitersType DEF Waiters, Repeats
<1>4. /\ r \notin W /\ pc[r] # "waiting" /\ \A h \in Hash : r \notin Waiters(h)
      /\ \A e \in finished : r \notin e.waiters
  BY <1>3 DEF Placed, At, Handled
<1>5. \A q, s \in R : q = s
  BY <1>3 DEF Single
<1>6. IsFiniteSet(W) /\ Cardinality(W) \in Nat /\ Cardinality(W) <= MaxWaiters
  BY <1>3, FS_CardinalityType DEF Bounded
<1> HIDE DEF W, R, room
<1>7. CASE ~room
  <2>1. /\ \A h \in Hash : Waiters(h)' = Waiters(h)
        /\ \A q \in Request : pc'[q] = "waiting" <=> pc[q] = "waiting"
    BY Zenon, <1>1, <1>2, <1>4, <1>7
  <2> QED BY Zenon, <2>1, StillPlaced
<1>8. CASE room
  <2>1. Placed'
    <3> SUFFICES ASSUME NEW q \in Request
                 PROVE  /\ pc'[q] = "waiting" <=> (\E h \in Hash : q \in Waiters(h)')
                                                  \/ (\E e \in finished' : q \in e.waiters)
                        /\ \A g, h \in Hash : q \in Waiters(g)' /\ q \in Waiters(h)' => g = h
                        /\ \A d, e \in finished' : q \in d.waiters /\ q \in e.waiters => d = e
                        /\ \A h \in Hash, e \in finished' : ~(q \in Waiters(h)' /\ q \in e.waiters)
      BY Zenon DEF Placed, At
    <3>1. /\ pc[q] = "waiting" <=> (\E h \in Hash : q \in Waiters(h)) \/ (\E e \in finished : q \in e.waiters)
          /\ \A g, h \in Hash : q \in Waiters(g) /\ q \in Waiters(h) => g = h
          /\ \A d, e \in finished : q \in d.waiters /\ q \in e.waiters => d = e
          /\ \A h \in Hash, e \in finished : ~(q \in Waiters(h) /\ q \in e.waiters)
      BY Zenon DEF Placed, At
    <3>2. CASE q = r
      BY <1>1, <1>2, <1>4, <1>8, <3>2
    <3>3. CASE q # r /\ q \in R
      BY <1>1, <1>2, <1>3, <1>8, <3>1, <3>3
    <3>4. CASE q # r /\ q \notin R
      BY <1>1, <1>2, <1>3, <1>8, <3>1, <3>4
    <3> QED BY <3>2, <3>3, <3>4
  <2>2. Single'
    BY <1>1, <1>3, <1>8 DEF Single
  <2>3. Bounded'
    <3>1. IsFiniteSet((W \ R) \union {r}) /\ Cardinality((W \ R) \union {r}) <= MaxWaiters
      <4>1. CASE R = {}
        <5>1. (W \ R) \union {r} = W \union {r} /\ Cardinality(W) < MaxWaiters
          BY <1>8, <4>1 DEF room, HasRoom, R, W
        <5>2. IsFiniteSet(W \union {r}) /\ Cardinality(W \union {r}) = Cardinality(W) + 1
          BY Zenon, <1>4, <1>6, FS_AddElement
        <5>3. \A n \in Nat : n < MaxWaiters => n + 1 <= MaxWaiters
          BY WakeConstants
        <5> QED BY Zenon, <1>6, <5>1, <5>2, <5>3
      <4>2. CASE R # {}
        <5>1. PICK q \in R : R = {q}
          BY Zenon, <1>5, <4>2
        <5>2. W \ R = W \ {q} /\ q \in W /\ r \notin W \ {q}
          BY <1>3, <1>4, <5>1
        <5>3. IsFiniteSet(W \ {q}) /\ Cardinality(W \ {q}) = Cardinality(W) - 1
          BY Zenon, <1>6, <5>2, FS_RemoveElement
        <5>4. /\ IsFiniteSet((W \ {q}) \union {r})
              /\ Cardinality((W \ {q}) \union {r}) = Cardinality(W \ {q}) + 1
          BY Zenon, <5>2, <5>3, FS_AddElement
        <5>5. \A n \in Nat : (n - 1) + 1 = n
          OBVIOUS
        <5> QED BY Zenon, <1>6, <5>2, <5>3, <5>4, <5>5
      <4> QED BY <4>1, <4>2
    <3> QED BY Zenon, <1>1, <3>1 DEF Bounded
  <2> QED BY <2>1, <2>2, <2>3
<1> QED BY <1>7, <1>8

\* A wait leaves the table with its waiters.
LEMMA EndWaitPlaced ==
  ASSUME TypeOK, Placed, Single, Bounded, NEW h \in Hash, pending[h] # None, EndWait(h),
         UNCHANGED <<pc, src>>
  PROVE  Placed' /\ Single' /\ Bounded'
<1> DEFINE ended == [target |-> h, waiters |-> pending[h].waiters]
<1>1. \A g \in Hash : Waiters(g)' = IF g = h THEN {} ELSE Waiters(g)
  BY DEF EndWait, Waiters, TypeOK
<1>2. finished' = finished \union {ended} /\ ended.waiters = Waiters(h)
  BY DEF EndWait, Waiters
<1> HIDE DEF ended
<1>3. Placed'
  <2> SUFFICES ASSUME NEW q \in Request
               PROVE  /\ pc[q] = "waiting" <=> (\E g \in Hash : q \in Waiters(g)')
                                               \/ (\E e \in finished' : q \in e.waiters)
                      /\ \A f, g \in Hash : q \in Waiters(f)' /\ q \in Waiters(g)' => f = g
                      /\ \A d, e \in finished' : q \in d.waiters /\ q \in e.waiters => d = e
                      /\ \A g \in Hash, e \in finished' : ~(q \in Waiters(g)' /\ q \in e.waiters)
    BY Zenon DEF Placed, At
  <2>1. /\ pc[q] = "waiting" <=> (\E g \in Hash : q \in Waiters(g)) \/ (\E e \in finished : q \in e.waiters)
        /\ \A f, g \in Hash : q \in Waiters(f) /\ q \in Waiters(g) => f = g
        /\ \A d, e \in finished : q \in d.waiters /\ q \in e.waiters => d = e
        /\ \A g \in Hash, e \in finished : ~(q \in Waiters(g) /\ q \in e.waiters)
    BY Zenon DEF Placed, At
  <2>2. CASE q \in Waiters(h)
    BY <1>1, <1>2, <2>1, <2>2
  <2>3. CASE q \notin Waiters(h)
    BY <1>1, <1>2, <2>1, <2>3
  <2> QED BY <2>2, <2>3
<1>4. Single'
  BY <1>1 DEF Single
<1>5. Bounded'
  <2>1. IsFiniteSet({}) /\ Cardinality({}) = 0 /\ 0 <= MaxWaiters
    BY FS_EmptySet, WakeConstants
  <2> QED BY Zenon, <1>1, <2>1 DEF Bounded
<1> QED BY <1>3, <1>4, <1>5

\* The first SYNC2 of a wait.
LEMMA StoreWaitPlaced ==
  ASSUME TypeOK, Named, Placed, Single, Bounded, NEW r \in Request, StoreWait(r)
  PROVE  Placed' /\ Single' /\ Bounded'
<1> DEFINE t == dst[r]
           stored == [id |-> r, families |-> fams[r], waiters |-> {r}, graced |-> FALSE, armed |-> TRUE]
<1>1. /\ t \in Hash /\ pending[t] = None /\ pc[r] = "store" /\ UNCHANGED <<src, finished>>
      /\ \A q \in Request : pc'[q] = IF q = r THEN "waiting" ELSE pc[q]
  BY DEF StoreWait, Goto, At, Named, Handled, TypeOK
<1>2. stored \in Wait /\ stored.waiters = {r}
  BY DEF TypeOK, Wait
<1>3. \A h \in Hash : pending'[h] = IF h = t THEN stored ELSE pending[h]
  BY DEF StoreWait, TypeOK
<1> HIDE DEF stored, t
<1>4. \A h \in Hash : Waiters(h)' = IF h = t THEN {r} ELSE Waiters(h)
  BY <1>2, <1>3, WakeConstants DEF Waiters
<1>5. Waiters(t) = {} /\ (\A h \in Hash : r \notin Waiters(h)) /\ \A e \in finished : r \notin e.waiters
  BY <1>1 DEF Waiters, Placed, At
<1>6. Placed'
  BY <1>1, <1>4, <1>5 DEF Placed, At
<1>7. Single'
  BY <1>1, <1>4 DEF Single
<1>8. Bounded'
  <2>1. IsFiniteSet({r}) /\ Cardinality({r}) = 1
    BY Zenon, FS_Singleton
  <2>2. 1 <= MaxWaiters
    BY WakeConstants
  <2> QED BY Zenon, <1>4, <2>1, <2>2 DEF Bounded
<1> QED BY <1>6, <1>7, <1>8

\* The requesters of an ended wait are answered.
LEMMA OutboundPlaced ==
  ASSUME TypeOK, Placed, Single, Bounded, NEW e \in finished, WakeOutbound(e)
  PROVE  Placed' /\ Single' /\ Bounded'
<1>1. /\ UNCHANGED <<src, pending>> /\ finished' = finished \ {e}
      /\ \A h \in Hash : Waiters(h)' = Waiters(h)
  BY DEF WakeOutbound, Waiters
<1>2. \A q \in Request : pc'[q] = "waiting" <=> pc[q] = "waiting" /\ q \notin e.waiters
  BY DEF WakeOutbound
<1>3. Placed'
  BY <1>1, <1>2 DEF Placed, At
<1> QED BY Zenon, <1>1, <1>3 DEF Single, Bounded

\* Whatever the workers, the timers and the target do.
LEMMA PlacedStep ==
  ASSUME TypeOK, Named, Placed, Single, Bounded, [Next]_vars
  PROVE  Placed' /\ Single' /\ Bounded'
<1>1. ASSUME NEW r \in Request, NEW p \in Pairs, NEW f \in Family, Sync2(r, p[1], p[2], f)
      PROVE  Placed' /\ Single' /\ Bounded'
  <2>1. UNCHANGED <<pending, finished>>
    BY <1>1 DEF Sync2
  <2>2. \A q \in Request : /\ pc'[q] = "waiting" <=> pc[q] = "waiting"
                           /\ pc[q] = "waiting" => src'[q] = src[q]
    BY <1>1 DEF Sync2, Goto, At, TypeOK
  <2>3. \A h \in Hash : Waiters(h)' = Waiters(h)
    BY Zenon, <2>1 DEF Waiters
  <2> QED BY Zenon, <2>1, <2>2, <2>3, StillPlaced
<1>2. ASSUME NEW r \in Request, Handle(r) PROVE Placed' /\ Single' /\ Bounded'
  <2>0. /\ pc[r] \in Handled /\ src[r] \in Hash /\ dst[r] \in Hash
        /\ WakeFamilies(r) \in SUBSET Family /\ fams[r] \in SUBSET Family
    BY <1>2, Targeted DEF Handle, Decide, JoinWait, StartWake, NoWake, WakeWrite, WakeWriteFails,
                          StoreWait, StoreJoins, At, Handled
  <2>1. CASE Decide(r) \/ StartWake(r) \/ NoWake(r) \/ WakeWrite(r) \/ WakeWriteFails(r)
    <3>1. UNCHANGED <<src, pending, finished>>
      BY <2>1 DEF Decide, StartWake, NoWake, WakeWrite, WakeWriteFails
    <3>2. \A q \in Request : pc'[q] = "waiting" <=> pc[q] = "waiting"
      BY <2>0, <2>1 DEF Decide, StartWake, NoWake, WakeWrite, WakeWriteFails, Goto, Handled, TypeOK
    <3>3. \A h \in Hash : Waiters(h)' = Waiters(h)
      BY Zenon, <3>1 DEF Waiters
    <3> QED BY Zenon, <3>1, <3>2, <3>3, StillPlaced
  <2>2. CASE JoinWait(r) \/ StoreJoins(r)
    BY Zenon, <2>0, <2>2, AddWaiterPlaced DEF JoinWait, StoreJoins
  <2>3. CASE StoreWait(r)
    BY Zenon, <2>3, StoreWaitPlaced
  <2> QED BY Zenon, <1>2, <2>1, <2>2, <2>3 DEF Handle
<1>3. ASSUME UNCHANGED <<request, finished>>,
             \A h \in Hash : Waiters(h)' = Waiters(h)
      PROVE  Placed' /\ Single' /\ Bounded'
  BY Zenon, <1>3, StillPlaced DEF request
<1>4. ASSUME NEW h \in Hash, NEW f \in Family, Register(h, f) \/ LoseCandidate(h, f)
      PROVE  Placed' /\ Single' /\ Bounded'
  BY Zenon, <1>3, <1>4 DEF Register, LoseCandidate, Waiters
<1>5. ASSUME NEW h \in Hash, NEW f \in Family, CompleteWake(h, f)
      PROVE  Placed' /\ Single' /\ Bounded'
  <2>1. UNCHANGED request
    BY <1>5 DEF CompleteWake
  <2>2. CASE UNCHANGED <<pending, finished>>
    BY Zenon, <1>3, <2>1, <2>2 DEF Waiters
  <2>3. CASE pending[h] # None /\ EndWait(h)
    BY Zenon, <2>1, <2>3, EndWaitPlaced DEF request
  <2>4. CASE /\ pending[h] # None /\ UNCHANGED finished
             /\ pending' = [pending EXCEPT ![h] = [pending[h] EXCEPT !.graced = TRUE, !.armed = TRUE]]
    <3> DEFINE w == [pending[h] EXCEPT !.graced = TRUE, !.armed = TRUE]
    <3>1. w \in Wait /\ w.waiters = pending[h].waiters
      BY <2>4 DEF TypeOK, Wait
    <3>2. \A g \in Hash : pending'[g] = IF g = h THEN w ELSE pending[g]
      BY <2>4 DEF TypeOK
    <3> HIDE DEF w
    <3>3. \A g \in Hash : Waiters(g)' = Waiters(g)
      BY <2>4, <3>1, <3>2, WakeConstants DEF Waiters
    <3> QED BY Zenon, <1>3, <2>1, <2>4, <3>3
  <2> QED BY Zenon, <1>5, <2>2, <2>3, <2>4 DEF CompleteWake
<1>6. ASSUME NEW h \in Hash, TimerFires(h) PROVE Placed' /\ Single' /\ Bounded'
  <2> DEFINE w == [pending[h] EXCEPT !.armed = FALSE]
  <2>1. w \in Wait /\ w.waiters = pending[h].waiters /\ pending[h] # None
    BY <1>6 DEF TimerFires, TypeOK, Wait
  <2>2. \A g \in Hash : pending'[g] = IF g = h THEN w ELSE pending[g]
    BY <1>6 DEF TimerFires, TypeOK
  <2> HIDE DEF w
  <2>3. \A g \in Hash : Waiters(g)' = Waiters(g)
    BY <2>1, <2>2, WakeConstants DEF Waiters
  <2> QED BY Zenon, <1>3, <1>6, <2>3 DEF TimerFires
<1>7. ASSUME NEW h \in Hash, LogOut(h) PROVE Placed' /\ Single' /\ Bounded'
  BY Zenon, <1>3, <1>7 DEF LogOut, Waiters
<1>8. ASSUME NEW h \in Hash, NEW id \in Request, ExpireWake(h, id)
      PROVE  Placed' /\ Single' /\ Bounded'
  <2>1. UNCHANGED request
    BY <1>8 DEF ExpireWake
  <2>2. CASE UNCHANGED <<pending, finished>>
    BY Zenon, <1>3, <2>1, <2>2 DEF Waiters
  <2>3. CASE pending[h] # None /\ EndWait(h)
    BY Zenon, <2>1, <2>3, EndWaitPlaced DEF request
  <2> QED BY Zenon, <1>8, <2>2, <2>3 DEF ExpireWake
<1>9. CASE UNCHANGED vars
  BY Zenon, <1>3, <1>9 DEF vars, Waiters
<1> QED BY Zenon, <1>1, <1>2, <1>4, <1>5, <1>6, <1>7, <1>8, <1>9, OutboundPlaced DEF Next

-----------------------------------------------------------------------------
\* The timers.

\* A wait keeps its timer until the timer, or a REGISTER, ends it.
LEMMA WillEndStep ==
  ASSUME TypeOK, Named, WaitWillEnd, [Next]_vars
  PROVE  WaitWillEnd'
<1>1. CASE UNCHANGED <<pending, expiring>>
  BY Zenon, <1>1 DEF WaitWillEnd, Pending
<1>2. ASSUME NEW r \in Request, Handle(r) PROVE WaitWillEnd'
  <2>0. /\ pc[r] \in Handled /\ src[r] \in Hash /\ dst[r] \in Hash
        /\ WakeFamilies(r) \in SUBSET Family /\ fams[r] \in SUBSET Family
    BY <1>2, Targeted DEF Handle, Decide, JoinWait, StartWake, NoWake, WakeWrite, WakeWriteFails,
                          StoreWait, StoreJoins, At, Handled
  <2>1. CASE Decide(r) \/ StartWake(r) \/ NoWake(r) \/ WakeWrite(r) \/ WakeWriteFails(r)
    BY <1>1, <2>1 DEF Decide, StartWake, NoWake, WakeWrite, WakeWriteFails
  <2>2. CASE JoinWait(r) \/ StoreJoins(r)
    <3>1. PICK fs \in SUBSET Family : AddWaiter(dst[r], r, fs) /\ pending[dst[r]] # None
      BY Zenon, <2>0, <2>2 DEF JoinWait, StoreJoins
    <3>2. /\ pending'[dst[r]].id = pending[dst[r]].id /\ pending'[dst[r]].armed = pending[dst[r]].armed
          /\ \A h \in Hash : h # dst[r] => pending'[h] = pending[h]
      BY Zenon, <2>0, <3>1, AddWaiterTypes
    <3>3. expiring' = expiring
      BY <2>2 DEF JoinWait, StoreJoins
    <3> QED BY Zenon, <2>0, <3>1, <3>2, <3>3 DEF WaitWillEnd, Pending
  <2>3. CASE StoreWait(r)
    <3>1. expiring' = expiring /\ \A h \in Hash : h # dst[r] => pending'[h] = pending[h]
      BY <2>3 DEF StoreWait, TypeOK
    <3>2. pending'[dst[r]].armed
      BY <2>0, <2>3 DEF StoreWait, TypeOK
    <3> QED BY Zenon, <3>1, <3>2 DEF WaitWillEnd, Pending
  <2> QED BY Zenon, <1>2, <2>1, <2>2, <2>3 DEF Handle
<1>3. ASSUME NEW h \in Hash, NEW f \in Family, CompleteWake(h, f) PROVE WaitWillEnd'
  <2>1. /\ expiring' = expiring /\ \A g \in Hash : g # h => pending'[g] = pending[g]
        /\ pending'[h] = pending[h] \/ pending'[h] = None \/ pending'[h].armed
    <3>1. pending[h] = None \/ pending[h] \in Wait
      BY DEF TypeOK
    <3>2. pending[h] \in Wait => [pending[h] EXCEPT !.graced = TRUE, !.armed = TRUE].armed = TRUE
      BY DEF Wait
    <3> QED BY <1>3, <3>1, <3>2 DEF CompleteWake, EndWait, TypeOK
  <2> QED BY Zenon, <2>1 DEF WaitWillEnd, Pending
<1>4. ASSUME NEW h \in Hash, TimerFires(h) PROVE WaitWillEnd'
  <2>1. /\ expiring' = expiring \union {<<h, pending[h].id>>}
        /\ \A g \in Hash : g # h => pending'[g] = pending[g]
        /\ pending'[h] = [pending[h] EXCEPT !.armed = FALSE] /\ pending[h] \in Wait
    BY <1>4 DEF TimerFires, TypeOK
  <2>2. pending'[h].id = pending[h].id
    BY <2>1 DEF Wait
  <2> QED BY <2>1, <2>2 DEF WaitWillEnd, Pending
<1>5. ASSUME NEW h \in Hash, NEW id \in Request, ExpireWake(h, id) PROVE WaitWillEnd'
  <2>1. /\ expiring' = expiring \ {<<h, id>>}
        /\ \A g \in Hash : g # h => pending'[g] = pending[g]
        /\ IF pending[h] # None /\ pending[h].id = id THEN pending'[h] = None ELSE pending'[h] = pending[h]
    BY <1>5 DEF ExpireWake, EndWait, TypeOK
  <2>2. ASSUME NEW g \in Hash, pending'[g] # None
        PROVE  pending'[g].armed \/ <<g, pending'[g].id>> \in expiring'
    <3>1. pending'[g] = pending[g] /\ ~(g = h /\ pending[g].id = id)
      BY Zenon, <2>1, <2>2
    <3>2. pending[g].armed \/ <<g, pending[g].id>> \in expiring
      BY Zenon, <2>2, <3>1 DEF WaitWillEnd, Pending
    <3> QED BY <2>1, <3>1, <3>2
  <2> QED BY Zenon, <2>2 DEF WaitWillEnd, Pending
<1>6. ASSUME \/ \E r \in Request, p \in Pairs, f \in Family : Sync2(r, p[1], p[2], f)
             \/ \E h \in Hash, f \in Family : Register(h, f) \/ LoseCandidate(h, f)
             \/ \E h \in Hash : LogOut(h)
             \/ \E e \in finished : WakeOutbound(e)
             \/ UNCHANGED vars
      PROVE  UNCHANGED <<pending, expiring>>
  BY Zenon, <1>6 DEF Sync2, Register, LoseCandidate, LogOut, WakeOutbound, vars
<1> QED BY Zenon, <1>1, <1>2, <1>3, <1>4, <1>5, <1>6 DEF Next

-----------------------------------------------------------------------------
\* The invariant at the start.
LEMMA WakeInvInit ==
  ASSUME Init
  PROVE  WakeInv
<1>1. TypeOK /\ Named
  BY DEF Init, TypeOK, Named, Label, Handled
<1>2. \A h \in Hash : pending[h] = None /\ Waiters(h) = {}
  BY DEF Init, Waiters
<1>3. Placed /\ Single /\ WaitWillEnd
  BY <1>2 DEF Init, Placed, Single, At, WaitWillEnd, Pending
<1>4. IsFiniteSet({}) /\ Cardinality({}) = 0 /\ 0 <= MaxWaiters
  BY FS_EmptySet, WakeConstants
<1>5. Bounded
  BY Zenon, <1>2, <1>4 DEF Bounded
<1> QED BY Zenon, <1>1, <1>3, <1>5 DEF WakeInv

\* The invariant is inductive.
LEMMA WakeInvStep ==
  ASSUME WakeInv, [Next]_vars
  PROVE  WakeInv'
BY Zenon, TypeStep, PlacedStep, WillEndStep DEF WakeInv

\* One place of a waiting SYNC2, and none of any other.
LEMMA PlacedOnce ==
  ASSUME TypeOK, Placed, NEW r \in Request
  PROVE  IF At(r, "waiting") THEN Cardinality(Places(r)) = 1 ELSE Places(r) = {}
<1>1. /\ At(r, "waiting") <=> (\E h \in Hash : r \in Waiters(h)) \/ (\E e \in finished : r \in e.waiters)
      /\ \A g, h \in Hash : r \in Waiters(g) /\ r \in Waiters(h) => g = h
      /\ \A d, e \in finished : r \in d.waiters /\ r \in e.waiters => d = e
      /\ \A h \in Hash, e \in finished : ~(r \in Waiters(h) /\ r \in e.waiters)
  BY Zenon DEF Placed
<1>2. Places(r) = {h \in Hash : r \in Waiters(h)} \union {e \in finished : r \in e.waiters}
  BY DEF Places, Pending, Waiters
<1>3. CASE \E h \in Hash : r \in Waiters(h)
  <2>1. PICK h \in Hash : r \in Waiters(h)
    BY <1>3
  <2>2. Places(r) = {h}
    BY <1>1, <1>2, <2>1
  <2> QED BY Zenon, <1>1, <1>3, <2>2, FS_Singleton
<1>4. CASE \E e \in finished : r \in e.waiters
  <2>1. PICK e \in finished : r \in e.waiters
    BY <1>4
  <2>2. Places(r) = {e}
    BY <1>1, <1>2, <2>1
  <2> QED BY Zenon, <1>1, <1>4, <2>2, FS_Singleton
<1>5. CASE ~(\E h \in Hash : r \in Waiters(h)) /\ ~(\E e \in finished : r \in e.waiters)
  BY Zenon, <1>1, <1>2, <1>5
<1> QED BY Zenon, <1>3, <1>4, <1>5

\* A SYNC2 told to wait is in exactly one wait, one that was answered is in
\* none, a requester is in a wait once and no wait has more than
\* natWakeMaxWaiters, although wakeTarget gives up h.mu around the TCP write.
THEOREM WaitsOnceCorrect == Spec => []WaitsOnce
<1>1. WakeInv => WaitsOnce
  <2> SUFFICES ASSUME WakeInv PROVE WaitsOnce
    OBVIOUS
  <2> USE DEF WakeInv
  <2>1. \A r \in Request : IF At(r, "waiting") THEN Cardinality(Places(r)) = 1 ELSE Places(r) = {}
    BY Zenon, PlacedOnce
  <2>2. \A h \in Pending : h \in Hash /\ Waiters(h) = pending[h].waiters
    BY DEF Pending, Waiters
  <2>3. \A h \in Pending, q, r \in Request :
          {q, r} \subseteq pending[h].waiters /\ src[q] = src[r] => q = r
    BY <2>2 DEF Single
  <2>4. \A h \in Pending : Cardinality(pending[h].waiters) <= MaxWaiters
    BY Zenon, <2>2 DEF Bounded
  <2> QED BY Zenon, <2>1, <2>3, <2>4 DEF WaitsOnce
<1> QED BY <1>1, WakeInvInit, WakeInvStep, PTL DEF Spec

\* Every wait in the table has a timer that will end it: stopping it for the
\* grace period, firing it outside the lock and the next wait on the same
\* target leave none without.
THEOREM WaitWillEndCorrect == Spec => []WaitWillEnd
<1>1. WakeInv => WaitWillEnd
  BY DEF WakeInv
<1> QED BY <1>1, WakeInvInit, WakeInvStep, PTL DEF Spec

\* A wait leaves the table in completeWake, which takes a REGISTER, or in the
\* expireWake of its own timer.
THEOREM EndedByOwnCorrect == Spec => EndedByOwn
<1>1. ASSUME WakeInv, [Next]_vars, NEW h \in Pending, pending'[h] = None, regs' = regs
      PROVE  <<h, pending[h].id>> \in expiring
  <2>0. h \in Hash /\ pending[h] # None /\ pending[h] \in Wait /\ TypeOK /\ Named
    BY <1>1 DEF Pending, WakeInv, TypeOK
  <2>1. ASSUME NEW r \in Request, Handle(r) PROVE FALSE
    <3>1. pending'[h] # None
      <4>0. /\ pc[r] \in Handled /\ src[r] \in Hash /\ dst[r] \in Hash
            /\ WakeFamilies(r) \in SUBSET Family /\ fams[r] \in SUBSET Family
        BY <2>0, <2>1, Targeted DEF Handle, Decide, JoinWait, StartWake, NoWake, WakeWrite,
                                    WakeWriteFails, StoreWait, StoreJoins, At, Handled
      <4>1. CASE JoinWait(r) \/ StoreJoins(r)
        BY Zenon, <2>0, <4>0, <4>1, AddWaiterTypes DEF JoinWait, StoreJoins
      <4>2. CASE StoreWait(r)
        BY <2>0, <4>0, <4>2 DEF StoreWait, TypeOK
      <4>3. CASE Decide(r) \/ StartWake(r) \/ NoWake(r) \/ WakeWrite(r) \/ WakeWriteFails(r)
        BY <2>0, <4>3 DEF Decide, StartWake, NoWake, WakeWrite, WakeWriteFails
      <4> QED BY Zenon, <2>1, <4>1, <4>2, <4>3 DEF Handle
    <3> QED BY <1>1, <3>1
  <2>2. ASSUME NEW g \in Hash, NEW f \in Family, CompleteWake(g, f) PROVE FALSE
    BY <1>1, <2>2 DEF CompleteWake
  <2>3. ASSUME NEW g \in Hash, TimerFires(g) PROVE FALSE
    <3>1. pending[g] \in Wait /\ [pending[g] EXCEPT !.armed = FALSE] \in Wait
      BY <2>0, <2>3 DEF TimerFires, TypeOK, Wait
    <3> QED BY <1>1, <2>0, <2>3, <3>1, WakeConstants DEF TimerFires, TypeOK
  <2>4. ASSUME NEW g \in Hash, NEW id \in Request, ExpireWake(g, id)
        PROVE  <<h, pending[h].id>> \in expiring
    BY <1>1, <2>0, <2>4 DEF ExpireWake, EndWait, TypeOK
  <2>5. ASSUME pending' = pending PROVE FALSE
    BY <1>1, <2>0, <2>5
  <2>6. ASSUME \/ \E r \in Request, p \in Pairs, f \in Family : Sync2(r, p[1], p[2], f)
               \/ \E g \in Hash, f \in Family : Register(g, f) \/ LoseCandidate(g, f)
               \/ \E g \in Hash : LogOut(g)
               \/ \E e \in finished : WakeOutbound(e)
               \/ UNCHANGED vars
        PROVE  pending' = pending
    BY Zenon, <2>6 DEF Sync2, Register, LoseCandidate, LogOut, WakeOutbound, vars
  <2> QED BY Zenon, <1>1, <2>1, <2>2, <2>3, <2>4, <2>5, <2>6 DEF Next
<1>2. WakeInv /\ [Next]_vars =>
        [\A h \in Pending : pending'[h] = None /\ regs' = regs => <<h, pending[h].id>> \in expiring]_vars
  BY Zenon, <1>1
<1> QED BY <1>2, WakeInvInit, WakeInvStep, PTL DEF Spec, EndedByOwn
=============================================================================
