------------------------------- MODULE NatWake -------------------------------
(***************************************************************************)
(* Pairing two firewalled clients (ed2k/nattraversal.go, ed2k/natwake.go): *)
(* a SYNC2 whose target has no candidate the requester can use waits while *)
(* the target, woken over its TCP session, registers.  SYNC2s and          *)
(* REGISTERs run in a pool of UDP workers; the registry and the waits are  *)
(* guarded by h.mu, which is given up around the TCP write.  The registry  *)
(* is reduced to the families in which each hash has a live candidate; its *)
(* own working is the subject of NatRegistry.                              *)
(***************************************************************************)
EXTENDS Naturals, FiniteSets

CONSTANTS Hash,        \* user hashes
          Pairs,       \* the (requester, target) pairs SYNC2s are sent for
          Request,     \* SYNC2 datagrams, each handled once
          HasIPv6,     \* hashes whose session has a known IPv6
          Wakeable,    \* hashes whose session announced SrvCapNatWake
          Registers,   \* the (hash, family) pairs REGISTERs are sent for
          Fickle,      \* hashes that may log out or lose a candidate
          MaxWaiters,  \* natWakeMaxWaiters
          MaxPending,  \* natWakeMaxPending
          None

Family == {4, 6}

\* A wait is told from a later one on the same target by the SYNC2 that
\* started it, as the code tells them by pointer.
Wait == [id : Request, families : SUBSET Family, waiters : SUBSET Request,
         graced : BOOLEAN, armed : BOOLEAN]

ASSUME WakeConstants ==
  /\ Pairs \subseteq Hash \X Hash /\ HasIPv6 \subseteq Hash /\ Wakeable \subseteq Hash
  /\ Registers \subseteq Hash \X Family /\ Fickle \subseteq Hash
  /\ MaxWaiters \in Nat \ {0} /\ MaxPending \in Nat \ {0}
  /\ None \notin Hash \union Wait

VARIABLES member,    \* the hashes logged in here
          cand,      \* the families each hash has a live candidate in
          pc,        \* where the worker of each SYNC2 is, or how it was answered
          src, dst,  \* the two hashes a SYNC2 names
          fams,      \* the requester's candidates when its SYNC2 was read
          pending,   \* h.pending: the wait on each target
          expiring,  \* timers that have fired, their expireWake not yet run
          regs,      \* REGISTERs stored, their completeWake not yet run
          finished   \* waits taken out of pending, not yet answered

request == <<pc, src, dst, fams>>
vars == <<member, cand, request, pending, expiring, regs, finished>>

Answered == {"paired", "failed", "superseded"}
Label == {"new", "decide", "wake", "write", "store", "waiting"} \union Answered

TypeOK ==
  /\ member \subseteq Hash
  /\ cand \in [Hash -> SUBSET Family]
  /\ pc \in [Request -> Label]
  /\ src \in [Request -> Hash \union {None}]
  /\ dst \in [Request -> Hash \union {None}]
  /\ fams \in [Request -> SUBSET Family]
  /\ pending \in [Hash -> Wait \union {None}]
  /\ expiring \subseteq Hash \X Request
  /\ regs \subseteq Hash \X Family
  /\ finished \subseteq [target : Hash, waiters : SUBSET Request]

Init ==
  /\ member = Hash
  /\ cand = [h \in Hash |-> {}]
  /\ pc = [r \in Request |-> "new"]
  /\ src = [r \in Request |-> None]
  /\ dst = [r \in Request |-> None]
  /\ fams = [r \in Request |-> {}]
  /\ pending = [h \in Hash |-> None]
  /\ expiring = {} /\ regs = {} /\ finished = {}

-----------------------------------------------------------------------------
At(r, l) == pc[r] = l
Goto(r, l) == pc' = [pc EXCEPT ![r] = l]

\* registerAllowed: from an address of the session logged in under the hash.
RegisterAllowed(h, f) == h \in member /\ (f = 6 => h \in HasIPv6)

\* handleSync2 registers the requester over the family of the datagram and
\* takes a snapshot of its candidates.
Sync2(r, a, t, f) ==
  /\ At(r, "new")
  /\ cand' = [cand EXCEPT ![a] = IF RegisterAllowed(a, f) THEN @ \union {f} ELSE @]
  /\ fams' = [fams EXCEPT ![r] = cand'[a]]
  /\ src' = [src EXCEPT ![r] = a]
  /\ dst' = [dst EXCEPT ![r] = t]
  /\ Goto(r, "decide")
  /\ UNCHANGED <<member, pending, expiring, regs, finished>>

\* The rest of handleSync2: pair at once, refuse, or try to wake the target.
Decide(r) ==
  LET t == dst[r] IN
  /\ At(r, "decide")
  /\ Goto(r, IF cand[t] = {} THEN "wake"
             ELSE IF ~({src[r], t} \subseteq member) THEN "failed"
             ELSE IF fams[r] \cap cand[t] # {} THEN "paired" ELSE "wake")
  /\ UNCHANGED <<member, cand, src, dst, fams, pending, expiring, regs, finished>>

\* The families wakeTarget asks for: the requester's, without IPv6 when the
\* target's session has none.
WakeFamilies(r) ==
  fams[r] \ (IF dst[r] \in member \ HasIPv6 THEN {6} ELSE {})

\* addWaiter: a repeated SYNC2 of one requester takes the place of the
\* earlier one, else the wait must have room.
Repeats(w, r) == {q \in w.waiters : src[q] = src[r]}

HasRoom(w, r) == Repeats(w, r) # {} \/ Cardinality(w.waiters) < MaxWaiters

\* Faulty: every SYNC2 is a waiter of its own.
AddWaiter_Repeats(t, r, families) ==
  LET w == pending[t] IN
  /\ pending' = [pending EXCEPT ![t].families = @ \union families,
                                ![t].waiters = IF HasRoom(w, r) THEN @ \union {r} ELSE @]
  /\ Goto(r, IF HasRoom(w, r) THEN "waiting" ELSE "failed")

AddWaiter(t, r, families) ==
  LET w == pending[t] room == HasRoom(w, r) IN
  /\ pending' = [pending EXCEPT ![t] =
       [w EXCEPT !.families = @ \union families,
                 !.waiters = IF room THEN (@ \ Repeats(w, r)) \union {r} ELSE @]]
  /\ pc' = [q \in Request |->
              IF q = r THEN IF room THEN "waiting" ELSE "failed"
              ELSE IF room /\ q \in Repeats(w, r) THEN "superseded" ELSE pc[q]]

\* wakeTarget up to the first unlock.  A SYNC2 that joins a wait asks for the
\* families not yet asked for after the unlock, whatever comes of it.
JoinWait(r) ==
  LET t == dst[r] IN
  /\ At(r, "wake")
  /\ src[r] # t /\ WakeFamilies(r) # {} /\ src[r] \in member
  /\ pending[t] # None
  /\ AddWaiter(t, r, WakeFamilies(r))
  /\ UNCHANGED <<member, cand, src, dst, fams, expiring, regs, finished>>

Pending == {h \in Hash : pending[h] # None}

StartWake(r) ==
  LET t == dst[r] IN
  /\ At(r, "wake")
  /\ src[r] # t /\ WakeFamilies(r) # {} /\ src[r] \in member
  /\ pending[t] = None
  /\ Cardinality(Pending) < MaxPending
  /\ fams' = [fams EXCEPT ![r] = WakeFamilies(r)]
  /\ Goto(r, "write")
  /\ UNCHANGED <<member, cand, src, dst, pending, expiring, regs, finished>>

NoWake(r) ==
  /\ At(r, "wake")
  /\ \/ src[r] = dst[r] \/ WakeFamilies(r) = {} \/ src[r] \notin member
     \/ pending[dst[r]] = None /\ Cardinality(Pending) >= MaxPending
  /\ Goto(r, "failed")
  /\ UNCHANGED <<member, cand, src, dst, fams, pending, expiring, regs, finished>>

\* wakeNatSession: the OP_NAT_WAKE is written to the target's session.
WakeWrite(r) ==
  /\ At(r, "write")
  /\ dst[r] \in member \cap Wakeable
  /\ Goto(r, "store")
  /\ UNCHANGED <<member, cand, src, dst, fams, pending, expiring, regs, finished>>

\* There is no such session, or the write failed.
WakeWriteFails(r) ==
  /\ At(r, "write")
  /\ Goto(r, "failed")
  /\ UNCHANGED <<member, cand, src, dst, fams, pending, expiring, regs, finished>>

\* wakeTarget's second locked part, when nobody woke the target meanwhile.
StoreWait(r) ==
  LET t == dst[r] IN
  /\ At(r, "store")
  /\ pending[t] = None
  /\ pending' = [pending EXCEPT ![t] = [id |-> r, families |-> fams[r],
                                        waiters |-> {r}, graced |-> FALSE, armed |-> TRUE]]
  /\ Goto(r, "waiting")
  /\ UNCHANGED <<member, cand, src, dst, fams, expiring, regs, finished>>

\* And when somebody did: this SYNC2 has asked for its families as well.
StoreJoins(r) ==
  LET t == dst[r] IN
  /\ At(r, "store")
  /\ pending[t] # None
  /\ AddWaiter(t, r, fams[r])
  /\ UNCHANGED <<member, cand, src, dst, fams, expiring, regs, finished>>

\* handleRegister stores the candidate, then looks for waits on it.
Register(h, f) ==
  /\ <<h, f>> \in Registers
  /\ RegisterAllowed(h, f)
  /\ cand' = [cand EXCEPT ![h] = @ \union {f}]
  /\ regs' = regs \union {<<h, f>>}
  /\ UNCHANGED <<member, request, pending, expiring, finished>>

\* A wait leaves pending; its requesters are answered once the lock is free.
EndWait(h) ==
  /\ pending' = [pending EXCEPT ![h] = None]
  /\ finished' = finished \union {[target |-> h, waiters |-> pending[h].waiters]}

\* Faulty: the grace period stops the timer and does not start it again.
CompleteWake_StopsTimer(h, f) ==
  LET w == pending[h] IN
  /\ <<h, f>> \in regs
  /\ regs' = regs \ {<<h, f>>}
  /\ IF w = None \/ f \notin w.families \/ (f = 4 /\ 6 \in w.families /\ w.graced)
     THEN UNCHANGED <<pending, finished>>
     ELSE IF f = 4 /\ 6 \in w.families
     THEN /\ pending' = [pending EXCEPT ![h] = [w EXCEPT !.graced = TRUE, !.armed = FALSE]]
          /\ UNCHANGED finished
     ELSE EndWait(h)
  /\ UNCHANGED <<member, cand, request, expiring>>

\* completeWake: an IPv4 REGISTER leaves a wait that also asked for IPv6 a
\* grace period, any other requested one ends the wait.
CompleteWake(h, f) ==
  LET w == pending[h] IN
  /\ <<h, f>> \in regs
  /\ regs' = regs \ {<<h, f>>}
  /\ IF w = None \/ f \notin w.families \/ (f = 4 /\ 6 \in w.families /\ w.graced)
     THEN UNCHANGED <<pending, finished>>
     ELSE IF f = 4 /\ 6 \in w.families
     THEN /\ pending' = [pending EXCEPT ![h] = [w EXCEPT !.graced = TRUE, !.armed = TRUE]]
          /\ UNCHANGED finished
     ELSE EndWait(h)
  /\ UNCHANGED <<member, cand, request, expiring>>

\* The wait's timer runs out: expireWake is started in a goroutine of its own.
TimerFires(h) ==
  /\ pending[h] # None /\ pending[h].armed
  /\ pending' = [pending EXCEPT ![h] = [@ EXCEPT !.armed = FALSE]]
  /\ expiring' = expiring \union {<<h, pending[h].id>>}
  /\ UNCHANGED <<member, cand, request, regs, finished>>

\* Faulty: whatever waits on the target is ended.
ExpireWake_AnyWait(h, id) ==
  /\ <<h, id>> \in expiring
  /\ expiring' = expiring \ {<<h, id>>}
  /\ IF pending[h] # None THEN EndWait(h) ELSE UNCHANGED <<pending, finished>>
  /\ UNCHANGED <<member, cand, request, regs>>

\* expireWake: only the wait the timer was started for.
ExpireWake(h, id) ==
  /\ <<h, id>> \in expiring
  /\ expiring' = expiring \ {<<h, id>>}
  /\ IF pending[h] # None /\ pending[h].id = id
     THEN EndWait(h) ELSE UNCHANGED <<pending, finished>>
  /\ UNCHANGED <<member, cand, request, regs>>

\* Faulty: requesters the target shares no family with are forgotten.
WakeOutbound_OnlyPaired(e) ==
  /\ e \in finished
  /\ finished' = finished \ {e}
  /\ pc' = [r \in Request |->
              IF r \in e.waiters /\ cand[src[r]] \cap cand[e.target] # {} THEN "paired" ELSE pc[r]]
  /\ UNCHANGED <<member, cand, src, dst, fams, pending, expiring, regs>>

\* wakeOutbound: every waiting requester is paired on what is registered now,
\* or told that nothing is.
WakeOutbound(e) ==
  /\ e \in finished
  /\ finished' = finished \ {e}
  /\ pc' = [r \in Request |->
              IF r \notin e.waiters THEN pc[r]
              ELSE IF cand[src[r]] \cap cand[e.target] # {} THEN "paired" ELSE "failed"]
  /\ UNCHANGED <<member, cand, src, dst, fams, pending, expiring, regs>>

\* A candidate's lifetime ends, or another hash registers its endpoint.
LoseCandidate(h, f) ==
  /\ h \in Fickle
  /\ f \in cand[h]
  /\ cand' = [cand EXCEPT ![h] = @ \ {f}]
  /\ UNCHANGED <<member, request, pending, expiring, regs, finished>>

LogOut(h) ==
  /\ h \in member \cap Fickle
  /\ member' = member \ {h}
  /\ UNCHANGED <<cand, request, pending, expiring, regs, finished>>

Handle(r) ==
  \/ Decide(r) \/ JoinWait(r) \/ StartWake(r) \/ NoWake(r)
  \/ WakeWrite(r) \/ WakeWriteFails(r) \/ StoreWait(r) \/ StoreJoins(r)

Next ==
  \/ \E r \in Request, p \in Pairs, f \in Family : Sync2(r, p[1], p[2], f)
  \/ \E r \in Request : Handle(r)
  \/ \E h \in Hash, f \in Family : Register(h, f) \/ CompleteWake(h, f) \/ LoseCandidate(h, f)
  \/ \E h \in Hash : TimerFires(h) \/ LogOut(h)
  \/ \E h \in Hash, id \in Request : ExpireWake(h, id)
  \/ \E e \in finished : WakeOutbound(e)

Spec == Init /\ [][Next]_vars

\* The workers and timer goroutines are scheduled, timers run out and the TCP
\* write returns.  Nothing is asked of the target: it may never register.
FairSpec ==
  /\ Spec
  /\ \A r \in Request : WF_vars(Handle(r))
  /\ \A h \in Hash : WF_vars(TimerFires(h)) /\ \A f \in Family : WF_vars(CompleteWake(h, f))
  /\ \A h \in Hash, id \in Request : WF_vars(ExpireWake(h, id))
  /\ WF_vars(\E e \in finished : WakeOutbound(e))

-----------------------------------------------------------------------------
\* A SYNC2 that was told to wait is in exactly one wait, and a SYNC2 already
\* answered is in none: two workers waking one target, a REGISTER racing the
\* timer and a repeated SYNC2 neither lose a requester nor answer it twice
\* (wakeTarget: "the answer then comes from completeWake or expireWake");
\* and natWakeMaxWaiters holds although workers join after giving up the lock.
Places(r) ==
  {h \in Pending : r \in pending[h].waiters}
  \union {e \in finished : r \in e.waiters}

WaitsOnce ==
  /\ TypeOK
  /\ \A r \in Request : IF At(r, "waiting") THEN Cardinality(Places(r)) = 1 ELSE Places(r) = {}
  /\ \A h \in Pending, q, r \in Request :
       {q, r} \subseteq pending[h].waiters /\ src[q] = src[r] => q = r
  /\ \A h \in Pending : Cardinality(pending[h].waiters) <= MaxWaiters

\* A wait in the table always has a timer that will end it: it is armed or
\* its expireWake is on its way (the timer is stopped, reset and fired
\* outside the lock that guards the wait).
WaitWillEnd == \A h \in Pending : pending[h].armed \/ <<h, pending[h].id>> \in expiring

\* A late timer never ends the next wait on the same target: only a REGISTER
\* or the wait's own timer does (expireWake compares the pointer).
EndedByOwn ==
  [][\A h \in Pending : pending'[h] = None /\ regs' = regs => <<h, pending[h].id>> \in expiring]_vars

\* Every SYNC2 is answered, or replaced by a later one of the same requester
\* that is, although the target may stay silent, log out or lose what it
\* registered while the wait is being ended.
Sync2Answered == \A r \in Request : At(r, "decide") ~> pc[r] \in Answered
=============================================================================
