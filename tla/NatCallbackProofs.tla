-------------------------- MODULE NatCallbackProofs --------------------------
(***************************************************************************)
(* The callback between firewalled clients, for any sessions, LowIDs,      *)
(* addresses, workers and bounds.  A proof is believed once because the    *)
(* session's counter is at least every proof believed of it for as long as *)
(* it has its token, and the token is set once.  An endpoint told is the   *)
(* session's own because a checked keepalive carries its justification     *)
(* with it, through the store and past every other session's login.  A     *)
(* batch that waits has its timer because generations are never reused,    *)
(* and its requesters are in order because what expiry, repetition and     *)
(* displacement leave of a list are the elements at some of its positions. *)
(***************************************************************************)
EXTENDS NatCallback, FiniteSetTheorems, TLAPS

Job ==
  [st : {"check", "store", "take"}, c : Client, l : LowID, ip : IP, obf : BOOLEAN,
   proof : 0..MaxProof, proven : BOOLEAN]
Proof == [c : Client, ip : IP, proof : 1..MaxProof]
Stored == [ip : IP, at : 0..MaxTime, owner : Client, proven : BOOLEAN]

\* What the type invariant leaves out.
Shapes ==
  /\ id \in [Client -> LowID \union {None}] /\ ip \in [Client -> IP \union {None}]
  /\ work \in [Worker -> {Idle} \union Job]
  /\ proofs \in Seq(Proof)
  /\ keepalives \in [LowID -> {None} \union Stored]

\* A session known by its LowID, or whose keepalive is at work, has registered:
\* its address no longer changes.
Come ==
  /\ \A c \in Client : id[c] # None => login[c] # "new"
  /\ \A l \in LowID : holder[l] # None => login[holder[l]] # "new"
  /\ \A w \in Worker : work[w].st # "idle" => login[work[w].c] # "new"

\* The counter of a session with a token is at least every proof believed of it.
Counters ==
  /\ \A c \in Client : sessions[c].token => sessions[c].has /\ login[c] = "up"
  /\ \A k \in DOMAIN proofs :
       /\ login[proofs[k].c] = "up"
       /\ sessions[proofs[k].c].token => proofs[k].proof <= sessions[proofs[k].c].counter

Proven(c, a) == \E k \in DOMAIN proofs : proofs[k].c = c /\ proofs[k].ip = a

\* A keepalive that passed the check came from the session's address or was proven.
Endorsed ==
  /\ \A w \in Worker : work[w].st \in {"store", "take"} =>
       /\ work[w].ip = ip[work[w].c] \/ work[w].proven
       /\ work[w].proven => Proven(work[w].c, work[w].ip)
  /\ \A l \in LowID : keepalives[l] # None /\ keepalives[l].proven =>
       Proven(keepalives[l].owner, keepalives[l].ip)

SessionInv == TypeOK /\ Shapes /\ Come /\ Counters /\ ProofOnce /\ Endorsed /\ ToldOwnEndpoint

\* No timer and no batch has a generation that is still to come.
Batch(l) == [gen |-> foreign[l].gen, list |-> foreign[l].list]
IsTimer(t) ==
  t = [l |-> t.l, gen |-> t.gen, due |-> t.due, st |-> t.st, list |-> t.list, c |-> t.c] /\ t.l \in LowID
Generations ==
  /\ foreign = [l \in LowID |-> foreign[l]]
  /\ \A l \in LowID : foreign[l] # None => foreign[l] = Batch(l) /\ foreign[l].gen \in 1..foreignGen
  /\ \A t \in timers : IsTimer(t) /\ t.gen \in 1..foreignGen
  /\ foreignGen \in Nat

TimerInv == Generations /\ Timed

-----------------------------------------------------------------------------
(* The sessions: types, counters and endpoints *)

\* The invariant of the sessions at the start.
LEMMA SessionInit == ASSUME Init PROVE SessionInv
<1>1. /\ TypeOK
      /\ proofs = <<>> /\ told = {} /\ \A w \in Worker : work[w].st = "idle"
      /\ \A c \in Client : id[c] = None /\ ~sessions[c].token
      /\ \A l \in LowID : holder[l] = None /\ keepalives[l] = None
  <2>1. now \in 0..MaxTime /\ packets \in 0..MaxPackets /\ foreignGen \in 0..packets /\ 0 \in 0..MaxProof
    BY NatCallbackAssumption DEF Init
  <2> QED BY <2>1 DEF Init, TypeOK, NoState, Idle
<1>2. Shapes
  BY DEF Init, Shapes
<1>3. DOMAIN proofs = {}
  BY <1>1
<1>4. ProofOnce /\ ToldOwnEndpoint
  BY Zenon, <1>1, <1>3 DEF ProofOnce, ToldOwnEndpoint
<1>5. Come /\ Counters
  BY Zenon, <1>1, <1>3 DEF Come, Counters
<1>6. Endorsed
  BY <1>1 DEF Endorsed
<1> QED BY Zenon, <1>1, <1>2, <1>4, <1>5, <1>6 DEF SessionInv

\* A step that sends nothing tells nobody a wrong endpoint.
LEMMA TellNothing == ASSUME told' = {} PROVE ToldOwnEndpoint'
BY Zenon DEF ToldOwnEndpoint

\* A step that leaves the session tables, the tokens and the proofs alone, drops
\* keepalives or takes up new ones, and tells nothing wrong.
LEMMA SessionFrame ==
  ASSUME SessionInv, UNCHANGED <<login, rel, id, ip, holder, sessions, proofs>>,
         now' \in 0..MaxTime, packets' \in 0..MaxPackets, foreignGen' \in 0..packets',
         work' \in [Worker -> {Idle} \union Job],
         \A w \in Worker : \/ work'[w] = work[w]
                           \/ work'[w].st = "idle"
                           \/ work'[w].st = "check" /\ login[work'[w].c] # "new",
         keepalives' \in [LowID -> {None} \union Stored],
         \A l \in LowID : keepalives'[l] = keepalives[l] \/ keepalives'[l] = None,
         ToldOwnEndpoint'
  PROVE  SessionInv'
<1>1. TypeOK'
  BY Zenon DEF SessionInv, TypeOK
<1>2. Shapes'
  BY Zenon DEF SessionInv, Shapes
<1>3. Come'
  BY Zenon DEF SessionInv, Come
<1>4. Counters' /\ ProofOnce'
  BY Zenon DEF SessionInv, Counters, ProofOnce
<1>5. ASSUME NEW w \in Worker, work'[w].st \in {"store", "take"}
      PROVE  /\ work'[w].ip = ip'[work'[w].c] \/ work'[w].proven
             /\ work'[w].proven => Proven(work[w].c, work[w].ip)'
  <2>1. work'[w] = work[w]
    BY <1>5
  <2>2. /\ work[w].ip = ip[work[w].c] \/ work[w].proven
        /\ work[w].proven => Proven(work[w].c, work[w].ip)
    BY Zenon, <1>5, <2>1 DEF SessionInv, Endorsed
  <2> QED BY Zenon, <2>1, <2>2 DEF Proven
<1>6. ASSUME NEW l \in LowID, keepalives'[l] # None, keepalives'[l].proven
      PROVE  Proven(keepalives[l].owner, keepalives[l].ip)'
  <2>1. keepalives'[l] = keepalives[l]
    BY Zenon, <1>6
  <2>2. Proven(keepalives[l].owner, keepalives[l].ip)
    BY Zenon, <1>6, <2>1 DEF SessionInv, Endorsed
  <2> QED BY Zenon, <2>1, <2>2 DEF Proven
<1>7. Endorsed'
  BY Zenon, <1>5, <1>6 DEF Endorsed
<1> QED BY Zenon, <1>1, <1>2, <1>3, <1>4, <1>7 DEF SessionInv

\* The same for a step that also leaves the workers and the keepalives alone.
LEMMA SessionQuiet ==
  ASSUME SessionInv, UNCHANGED <<login, rel, id, ip, holder, sessions, proofs, work, keepalives>>,
         now' \in 0..MaxTime, packets' \in 0..MaxPackets, foreignGen' \in 0..packets',
         ToldOwnEndpoint'
  PROVE  SessionInv'
<1>1. /\ work' \in [Worker -> {Idle} \union Job] /\ keepalives' \in [LowID -> {None} \union Stored]
      /\ \A w \in Worker : work'[w] = work[w]
      /\ \A l \in LowID : keepalives'[l] = keepalives[l]
  BY Zenon DEF SessionInv, Shapes
<1> QED BY Zenon, <1>1, SessionFrame

\* The counts a datagram may change.
LEMMA PacketTypes ==
  ASSUME TypeOK, Packet, now' = now, foreignGen' \in foreignGen..(foreignGen + 1)
  PROVE  now' \in 0..MaxTime /\ packets' \in 0..MaxPackets /\ foreignGen' \in 0..packets'
BY NatCallbackAssumption DEF TypeOK, Packet

\* The sweep only removes keepalives.
LEMMA SweptTypes ==
  ASSUME SessionInv
  PROVE  /\ SweptKeepalives \in [LowID -> {None} \union Stored]
         /\ \A l \in LowID : SweptKeepalives[l] = keepalives[l] \/ SweptKeepalives[l] = None
BY Zenon DEF SweptKeepalives, SessionInv, Shapes

\* A packet arrives, and a worker takes it up.
LEMMA ArriveSession == ASSUME SessionInv, Arrive PROVE SessionInv'
<1>0. TypeOK
  BY DEF SessionInv
<1>1. ASSUME NEW c \in Client, Request(c) PROVE SessionInv'
  <2>1. UNCHANGED <<now, login, rel, id, ip, holder, foreignGen, keepalives, sessions, work, proofs>> /\ told' = {} /\ Packet
    BY <1>1 DEF Request, tables, waits, Silent
  <2>2. foreignGen' \in foreignGen..(foreignGen + 1)
    BY <1>0, <2>1, NatCallbackAssumption DEF TypeOK
  <2> QED BY Zenon, <1>0, <2>1, <2>2, PacketTypes, TellNothing, SessionQuiet
<1>2. ASSUME NEW r \in Requester, NEW l \in LowID, ForeignRequest(r, l) PROVE SessionInv'
  <2>1. /\ UNCHANGED <<now, login, rel, id, ip, holder, sessions, work, proofs>> /\ told' = {} /\ Packet
        /\ keepalives' = SweptKeepalives /\ AddForeign(r, l)
    BY <1>2 DEF ForeignRequest, tables, Silent
  <2>2. foreignGen' = foreignGen + 1 \/ foreignGen' = foreignGen
    BY <2>1 DEF AddForeign
  <2>3. foreignGen' \in foreignGen..(foreignGen + 1)
    BY <1>0, <2>2, NatCallbackAssumption DEF TypeOK
  <2>4. work' \in [Worker -> {Idle} \union Job] /\ \A w \in Worker : work'[w] = work[w]
    BY Zenon, <2>1 DEF SessionInv, Shapes
  <2> QED BY Zenon, <1>0, <2>1, <2>3, <2>4, PacketTypes, TellNothing, SweptTypes, SessionFrame
<1>3. ASSUME NEW w \in Worker, NEW c \in Client, NEW a \in IP, NEW obf \in BOOLEAN, NEW p \in 0..MaxProof,
             Receive(w, c, a, obf, p)
      PROVE  SessionInv'
  <2> DEFINE k == [st |-> "check", c |-> c, l |-> id[c], ip |-> a, obf |-> obf, proof |-> p, proven |-> FALSE]
  <2>1. /\ UNCHANGED <<now, login, rel, id, ip, holder, foreignGen, sessions, keepalives, proofs>> /\ told' = {} /\ Packet
        /\ id[c] # None /\ work' = [work EXCEPT ![w] = k]
    BY <1>3 DEF Receive, tables, waits, Silent
  <2>2. foreignGen' \in foreignGen..(foreignGen + 1)
    BY <1>0, <2>1, NatCallbackAssumption DEF TypeOK
  <2>3. k \in Job /\ k.st = "check" /\ login[k.c] # "new"
    BY <2>1 DEF Job, SessionInv, Shapes, Come
  <2> HIDE DEF k
  <2>4. work' \in [Worker -> {Idle} \union Job] /\ \A v \in Worker : work'[v] = IF v = w THEN k ELSE work[v]
    BY Zenon, <2>1, <2>3 DEF SessionInv, Shapes
  <2>5. keepalives' \in [LowID -> {None} \union Stored] /\ \A l \in LowID : keepalives'[l] = keepalives[l]
    BY Zenon, <2>1 DEF SessionInv, Shapes
  <2> QED BY Zenon, <1>0, <2>1, <2>2, <2>3, <2>4, <2>5, PacketTypes, TellNothing, SessionFrame
<1> QED BY Zenon, <1>1, <1>2, <1>3 DEF Arrive

\* A login or a release: the proofs and the keepalives stay, and no address of a
\* session that has registered changes.
LEMMA LoginFrame ==
  ASSUME SessionInv, UNCHANGED <<now, packets, foreignGen, work, proofs, keepalives>>, told' = {},
         TypeOK', Counters',
         id' \in [Client -> LowID \union {None}], ip' \in [Client -> IP \union {None}],
         \A c \in Client : login[c] # "new" => login'[c] # "new" /\ ip'[c] = ip[c],
         \A c \in Client : id'[c] # None => login'[c] # "new",
         \A l \in LowID : holder'[l] # None => login'[holder'[l]] # "new"
  PROVE  SessionInv'
<1>1. Shapes'
  BY Zenon DEF SessionInv, Shapes
<1>2. \A w \in Worker : work[w].st # "idle" => work[w].c \in Client /\ login[work[w].c] # "new"
  <2>1. ASSUME NEW w \in Worker, work[w].st # "idle" PROVE work[w].c \in Client
    BY <2>1 DEF SessionInv, Shapes, Job, Idle
  <2> QED BY Zenon, <2>1 DEF SessionInv, Come
<1>3. Come'
  BY Zenon, <1>2 DEF Come
<1>4. ProofOnce'
  BY Zenon DEF SessionInv, ProofOnce
<1>5. "idle" \notin {"store", "take"}
  OBVIOUS
<1>6. ASSUME NEW w \in Worker, work'[w].st \in {"store", "take"}
      PROVE  /\ work'[w].ip = ip'[work'[w].c] \/ work'[w].proven
             /\ work'[w].proven => Proven(work[w].c, work[w].ip)'
  <2>1. /\ work[w].ip = ip[work[w].c] \/ work[w].proven
        /\ work[w].proven => Proven(work[w].c, work[w].ip)
    BY Zenon, <1>6 DEF SessionInv, Endorsed
  <2>2. ip'[work[w].c] = ip[work[w].c]
    BY Zenon, <1>2, <1>5, <1>6
  <2> QED BY Zenon, <2>1, <2>2 DEF Proven
<1>7. Endorsed'
  BY Zenon, <1>6 DEF SessionInv, Endorsed, Proven
<1> QED BY Zenon, <1>1, <1>3, <1>4, <1>7, TellNothing DEF SessionInv

State == [has : BOOLEAN, token : BOOLEAN, counter : 0..MaxProof, obfuscated : BOOLEAN]

\* The session states a keepalive leads to are session states.
LEMMA StateTypes ==
  ASSUME NEW s \in State, NEW b \in BOOLEAN, NEW n \in 0..MaxProof
  PROVE  /\ [s EXCEPT !.has = TRUE, !.token = TRUE] \in State
         /\ [s EXCEPT !.has = TRUE, !.counter = n, !.obfuscated = @ \/ b] \in State
<1>1. [s EXCEPT !.has = TRUE, !.token = TRUE] \in State
  BY DEF State
<1>2. [s EXCEPT !.has = TRUE, !.counter = n, !.obfuscated = @ \/ b] \in State
  BY DEF State
<1> QED BY <1>1, <1>2

\* A proof accepted is a session's and a counter.
LEMMA ProofTypes ==
  ASSUME SessionInv, NEW k \in DOMAIN proofs
  PROVE  proofs[k] \in Proof /\ proofs[k].c \in Client /\ proofs[k].proof \in 1..MaxProof
<1>1. proofs \in Seq(Proof)
  BY Zenon DEF SessionInv, Shapes
<1>2. proofs[k] \in Proof
  BY <1>1
<1> QED BY <1>2 DEF Proof

\* The counters of the other sessions are as they were; one whose token is set or
\* dropped has none to keep.
LEMMA SessionCounters ==
  ASSUME SessionInv, NEW c \in Client, NEW s,
         sessions' = [sessions EXCEPT ![c] = s] \/ (sessions' = sessions /\ s = sessions[c]),
         UNCHANGED proofs,
         \A d \in Client : login[d] = "up" => login'[d] = "up",
         s = sessions[c] \/ ~s.token \/ (login[c] # "up" /\ login'[c] = "up" /\ s.has)
  PROVE  Counters'
<1>0. sessions = [d \in Client |-> sessions[d]]
  BY Zenon DEF SessionInv, TypeOK
<1>1. /\ sessions'[c] = s /\ \A d \in Client \ {c} : sessions'[d] = sessions[d]
  <2>1. CASE sessions' = [sessions EXCEPT ![c] = s]
    BY <1>0, <2>1
  <2>2. CASE sessions' = sessions /\ s = sessions[c]
    BY <2>2
  <2> QED BY <2>1, <2>2
<1>2. ASSUME NEW d \in Client, sessions'[d].token PROVE sessions'[d].has /\ login'[d] = "up"
  BY Zenon, <1>1, <1>2 DEF SessionInv, Counters
<1>3. ASSUME NEW k \in DOMAIN proofs
      PROVE  /\ login'[proofs[k].c] = "up"
             /\ sessions'[proofs[k].c].token => proofs[k].proof <= sessions'[proofs[k].c].counter
  <2>1. proofs[k].c \in Client
    BY Zenon, ProofTypes
  <2> QED BY Zenon, <1>1, <1>3, <2>1 DEF SessionInv, Counters
<1> QED BY Zenon, <1>2, <1>3 DEF Counters

\* A session logs in, is told its token, and leaves.
LEMMA SessionStepInv == ASSUME SessionInv, SessionStep PROVE SessionInv'
<1>0. TypeOK /\ Shapes /\ Come
  BY Zenon DEF SessionInv
<1>1. ASSUME NEW c \in Client, NEW l \in LowID, NEW a \in IP, Register(c, l, a) PROVE SessionInv'
  <2>1. /\ UNCHANGED <<now, packets, rel, foreignGen, keepalives, sessions, work, proofs>> /\ told' = {}
        /\ login[c] = "new" /\ holder[l] = None /\ login' = [login EXCEPT ![c] = "registered"]
        /\ id' = [id EXCEPT ![c] = l] /\ ip' = [ip EXCEPT ![c] = a] /\ holder' = [holder EXCEPT ![l] = c]
    BY Zenon, <1>1 DEF Register, waits, Silent
  <2>2. /\ login' \in [Client -> {"new", "registered", "token", "up"}]
        /\ holder' \in [LowID -> Client \union {None}]
        /\ id' \in [Client -> LowID \union {None}] /\ ip' \in [Client -> IP \union {None}]
    BY <1>0, <2>1 DEF TypeOK, Shapes
  <2>3. \A k \in LowID : holder[k] # c
    BY <1>0, <2>1, NatCallbackAssumption DEF Come
  <2>4. /\ id'[c] = l /\ login'[c] = "registered" /\ holder'[l] = c
        /\ \A d \in Client \ {c} : id'[d] = id[d] /\ login'[d] = login[d] /\ ip'[d] = ip[d]
        /\ \A k \in LowID \ {l} : holder'[k] = holder[k]
    BY Zenon, <1>0, <2>1 DEF TypeOK, Shapes
  <2>5. \A k \in LowID : holder'[k] # None => id'[holder'[k]] = k /\ login'[holder'[k]] # "new"
    <3> SUFFICES ASSUME NEW k \in LowID, holder'[k] # None PROVE id'[holder'[k]] = k /\ login'[holder'[k]] # "new"
      OBVIOUS
    <3>1. CASE k = l
      BY <2>4, <3>1
    <3>2. CASE k # l
      <4>1. holder'[k] = holder[k]
        BY Zenon, <2>4, <3>2
      <4>2. holder[k] \in Client /\ holder[k] # c
        BY <1>0, <2>3, <4>1 DEF TypeOK
      <4>3. id[holder[k]] = k /\ login[holder[k]] # "new"
        BY Zenon, <1>0, <4>1 DEF TypeOK, Come
      <4> QED BY <2>4, <4>1, <4>2, <4>3
    <3> QED BY <3>1, <3>2
  <2>6. TypeOK'
    BY Zenon, <1>0, <2>1, <2>2, <2>5 DEF TypeOK
  <2>7. Counters'
    <3>1. \A d \in Client : login[d] = "up" => login'[d] = "up"
      BY <2>1, <2>4
    <3> QED BY Zenon, <2>1, <3>1, SessionCounters
  <2>8. \A d \in Client : (login[d] # "new" => login'[d] # "new" /\ ip'[d] = ip[d]) /\ (id'[d] # None => login'[d] # "new")
    BY <1>0, <2>1, <2>4 DEF Come
  <2> QED BY Zenon, <2>1, <2>2, <2>5, <2>6, <2>7, <2>8, LoginFrame
<1>2. ASSUME NEW c \in Client, NEW v \in {"token", "up"}, NEW s, UNCHANGED <<now, packets, rel, id, ip, holder, foreignGen, keepalives, work, proofs>>,
             told' = {}, login[c] \notin {"new", "up"}, login' = [login EXCEPT ![c] = v],
             sessions' = [sessions EXCEPT ![c] = s] \/ (sessions' = sessions /\ s = sessions[c]),
             sessions' \in [Client -> [has : BOOLEAN, token : BOOLEAN, counter : 0..MaxProof, obfuscated : BOOLEAN]],
             s = sessions[c] \/ (v = "up" /\ s.has)
      PROVE  SessionInv'
  <2>1. login'[c] = v /\ (\A d \in Client \ {c} : login'[d] = login[d])
        /\ login' \in [Client -> {"new", "registered", "token", "up"}]
    BY <1>0, <1>2 DEF TypeOK
  <2>2. TypeOK'
    BY Zenon, <1>0, <1>2, <2>1 DEF TypeOK
  <2>3. \A d \in Client : (login[d] = "up" => login'[d] = "up") /\ (login[d] # "new" => login'[d] # "new")
    BY <1>2, <2>1
  <2>4. Counters'
    <3>1. s = sessions[c] \/ (login[c] # "up" /\ login'[c] = "up" /\ s.has)
      BY <1>2, <2>1
    <3> QED BY Zenon, <1>2, <2>3, <3>1, SessionCounters
  <2>5. id' \in [Client -> LowID \union {None}] /\ ip' \in [Client -> IP \union {None}]
    BY Zenon, <1>0, <1>2 DEF Shapes
  <2>6. \A l \in LowID : holder'[l] # None => login'[holder'[l]] # "new"
    BY Zenon, <1>0, <1>2, <2>3 DEF TypeOK, Come
  <2> QED BY Zenon, <1>0, <1>2, <2>2, <2>3, <2>4, <2>5, <2>6, LoginFrame DEF Come
<1>3. ASSUME NEW c \in Client, WantToken(c) PROVE SessionInv'
  <2>1. /\ UNCHANGED <<now, packets, rel, id, ip, holder, foreignGen, keepalives, sessions, work, proofs>>
        /\ told' = {} /\ login[c] = "registered" /\ login' = [login EXCEPT ![c] = "token"]
    BY Zenon, <1>3 DEF WantToken, waits, Silent
  <2>2. login[c] \notin {"new", "up"} /\ "token" \in {"token", "up"}
    BY <2>1
  <2>3. sessions' \in [Client -> [has : BOOLEAN, token : BOOLEAN, counter : 0..MaxProof, obfuscated : BOOLEAN]]
    BY Zenon, <1>0, <2>1 DEF TypeOK
  <2> QED BY Zenon, <1>2, <2>1, <2>2, <2>3
<1>4. ASSUME NEW c \in Client, SetToken(c) PROVE SessionInv'
  <2> DEFINE s == [NoState EXCEPT !.has = TRUE, !.token = TRUE]
  <2>1. /\ UNCHANGED <<now, packets, rel, id, ip, holder, foreignGen, keepalives, work, proofs>>
        /\ told' = {} /\ login[c] = "token" /\ login' = [login EXCEPT ![c] = "up"]
        /\ sessions' = [sessions EXCEPT ![c] = s]
    BY Zenon, <1>4 DEF SetToken, waits, Silent
  <2>2. login[c] \notin {"new", "up"} /\ "up" \in {"token", "up"} /\ s.has
    BY <2>1 DEF NoState
  <2>3. s \in [has : BOOLEAN, token : BOOLEAN, counter : 0..MaxProof, obfuscated : BOOLEAN]
    <3>1. NoState \in State
      BY NatCallbackAssumption DEF NoState, State
    <3> QED BY Zenon, <3>1, StateTypes DEF State
  <2> HIDE DEF s
  <2>4. sessions' \in [Client -> [has : BOOLEAN, token : BOOLEAN, counter : 0..MaxProof, obfuscated : BOOLEAN]]
    BY Zenon, <1>0, <2>1, <2>3 DEF TypeOK
  <2> QED BY Zenon, <1>2, <2>1, <2>2, <2>4
<1>5. ASSUME NEW c \in Client, DropSession(c) PROVE SessionInv'
  <2>1. /\ UNCHANGED <<now, packets, login, id, ip, holder, foreignGen, keepalives, work, proofs>>
        /\ told' = {} /\ rel' = [rel EXCEPT ![c] = "dropped"] /\ sessions' = [sessions EXCEPT ![c] = NoState]
    BY Zenon, <1>5 DEF DropSession, waits, Silent
  <2>2. NoState \in [has : BOOLEAN, token : BOOLEAN, counter : 0..MaxProof, obfuscated : BOOLEAN] /\ ~NoState.token
    BY NatCallbackAssumption DEF NoState
  <2>3. "dropped" \in {"no", "dropped", "done"}
    OBVIOUS
  <2>4. TypeOK'
    BY Zenon, <1>0, <2>1, <2>2, <2>3 DEF TypeOK
  <2>5. Counters'
    BY Zenon, <2>1, <2>2, SessionCounters
  <2> QED BY Zenon, <1>0, <2>1, <2>4, <2>5, LoginFrame DEF Come, Shapes
<1>6. ASSUME NEW c \in Client, Unregister(c) PROVE SessionInv'
  <2>1. /\ UNCHANGED <<now, packets, login, id, ip, foreignGen, keepalives, sessions, work, proofs>>
        /\ told' = {} /\ rel' = [rel EXCEPT ![c] = "done"] /\ holder' = [holder EXCEPT ![id[c]] = None]
    BY Zenon, <1>6 DEF Unregister, waits, Silent
  <2>2. /\ holder' \in [LowID -> Client \union {None}]
        /\ \A l \in LowID : holder'[l] = None \/ holder'[l] = holder[l]
    BY Zenon, <1>0, <2>1 DEF TypeOK
  <2>3. "done" \in {"no", "dropped", "done"}
    OBVIOUS
  <2>4. TypeOK'
    BY Zenon, <1>0, <2>1, <2>2, <2>3 DEF TypeOK
  <2>5. Counters'
    BY Zenon, <2>1 DEF SessionInv, Counters
  <2>6. \A l \in LowID : holder'[l] # None => login'[holder'[l]] # "new"
    BY Zenon, <1>0, <2>1, <2>2 DEF Come
  <2> QED BY Zenon, <1>0, <2>1, <2>4, <2>5, <2>6, LoginFrame DEF Come, Shapes
<1> QED BY Zenon, <1>1, <1>3, <1>4, <1>5, <1>6 DEF SessionStep

\* A keepalive is believed: its proof, if it carries one, is new to the session.
LEMMA CheckSession == ASSUME SessionInv, NEW w \in Worker, CheckKeepalive(w) PROVE SessionInv'
<1> DEFINE k == work[w]
           s == sessions[k.c]
<1>0. TypeOK /\ Shapes /\ Come /\ Counters /\ Endorsed /\ ProofOnce
  BY Zenon DEF SessionInv
<1>1. /\ UNCHANGED <<now, packets, login, rel, id, ip, holder, foreignGen, keepalives>> /\ told' = {}
      /\ k.st = "check"
  BY Zenon DEF CheckKeepalive, tables, waits, Silent
<1>2. k \in Job /\ k.c \in Client /\ k.proof \in 0..MaxProof /\ k.obf \in BOOLEAN /\ k.l \in LowID /\ k.ip \in IP
  <2>1. k \in Job
    BY <1>0, <1>1 DEF Shapes, Idle
  <2> QED BY <2>1 DEF Job
<1>3. s \in State /\ login[k.c] # "new"
  <2>1. k.st # "idle"
    BY <1>1
  <2> QED BY Zenon, <1>0, <1>2, <2>1 DEF TypeOK, State, Come
<1>4. CASE Ignored(w)
  <2>1. work' = [work EXCEPT ![w] = Idle] /\ UNCHANGED <<sessions, proofs>>
    BY Zenon, <1>4 DEF CheckKeepalive
  <2>2. work' \in [Worker -> {Idle} \union Job] /\ \A v \in Worker : work'[v] = work[v] \/ work'[v] = Idle
    BY Zenon, <1>0, <2>1 DEF Shapes
  <2>3. \A v \in Worker : work'[v] = work[v] \/ work'[v].st = "idle"
    BY <2>2 DEF Idle
  <2>4. now' \in 0..MaxTime /\ packets' \in 0..MaxPackets /\ foreignGen' \in 0..packets'
    BY Zenon, <1>0, <1>1 DEF TypeOK
  <2>5. keepalives' \in [LowID -> {None} \union Stored] /\ \A l \in LowID : keepalives'[l] = keepalives[l]
    BY Zenon, <1>0, <1>1 DEF Shapes
  <2> QED BY Zenon, <1>1, <2>1, <2>2, <2>3, <2>4, <2>5, TellNothing, SessionFrame
<1>5. CASE ~Ignored(w)
  <2> DEFINE n == IF k.proof > 0 THEN k.proof ELSE s.counter
             new == IF ~s.has /\ ~k.obf THEN s
                    ELSE [s EXCEPT !.has = TRUE, !.counter = n, !.obfuscated = @ \/ k.obf]
             p == [c |-> k.c, ip |-> k.ip, proof |-> k.proof]
  <2>1. /\ sessions' = [sessions EXCEPT ![k.c] = new]
        /\ work' = [work EXCEPT ![w].st = "store", ![w].proven = k.proof > 0 /\ k.ip # ip[k.c]]
        /\ proofs' = IF k.proof = 0 THEN proofs ELSE Append(proofs, p)
    BY <1>5 DEF CheckKeepalive
  <2>2. /\ k.proof > 0 => s.token /\ k.proof > s.counter
        /\ k.proof = 0 => k.ip = ip[k.c]
    BY <1>2, <1>3, <1>5 DEF Ignored, State
  <2>3. /\ new \in State /\ new.token = s.token
        /\ s.has => new.has
        /\ s.has => new.counter = n
    <3>1. n \in 0..MaxProof /\ s.has \in BOOLEAN /\ s.token \in BOOLEAN
      BY <1>2, <1>3 DEF State
    <3> HIDE DEF n
    <3>2. CASE ~s.has /\ ~k.obf
      BY <1>3, <3>2
    <3>3. CASE s.has \/ k.obf
      <4>1. new = [s EXCEPT !.has = TRUE, !.counter = n, !.obfuscated = @ \/ k.obf]
        BY <3>3
      <4>2. new \in State
        BY Zenon, <1>2, <1>3, <3>1, <4>1, StateTypes
      <4>3. new.token = s.token /\ new.has = TRUE /\ new.counter = n
        BY <1>3, <4>1 DEF State
      <4> QED BY <4>2, <4>3
    <3> QED BY <3>2, <3>3
  <2> HIDE DEF new
  <2>4. /\ sessions'[k.c] = new /\ (\A c \in Client \ {k.c} : sessions'[c] = sessions[c])
        /\ sessions' \in [Client -> State]
    BY <1>0, <1>2, <2>1, <2>3 DEF TypeOK, State
  <2>5. TypeOK'
    BY Zenon, <1>0, <1>1, <2>4 DEF TypeOK, State
  <2> DEFINE j == work'[w]
  <2>6. /\ j = [k EXCEPT !.st = "store", !.proven = k.proof > 0 /\ k.ip # ip[k.c]]
        /\ \A v \in Worker \ {w} : work'[v] = work[v]
    BY <1>0, <2>1 DEF Shapes
  <2>7. /\ j \in Job /\ j.st = "store" /\ j.c = k.c /\ j.ip = k.ip
        /\ j.proven <=> (k.proof > 0 /\ k.ip # ip[k.c])
    BY <1>2, <2>6 DEF Job
  <2>8. work' \in [Worker -> {Idle} \union Job]
    <3>1. work' = [v \in Worker |-> work'[v]]
      BY <1>0, <2>1 DEF Shapes
    <3> HIDE DEF j
    <3>2. \A v \in Worker : work'[v] \in {Idle} \union Job
      BY Zenon, <1>0, <2>6, <2>7 DEF Shapes, j
    <3> QED BY Zenon, <3>1, <3>2
  <2> DEFINE Old == DOMAIN proofs
  <2>9. /\ proofs' \in Seq(Proof) /\ Old \subseteq DOMAIN proofs'
        /\ \A i \in Old : proofs'[i] = proofs[i]
        /\ \A i \in DOMAIN proofs' \ Old : proofs'[i] = p /\ k.proof > 0 /\ \A o \in DOMAIN proofs' : o <= i
        /\ k.proof > 0 => \E i \in DOMAIN proofs' : proofs'[i] = p
        /\ \A i \in DOMAIN proofs' : i \in Nat
    <3>1. CASE k.proof = 0
      BY <1>0, <2>1, <3>1 DEF Shapes
    <3>2. CASE k.proof > 0
      <4>1. p \in Proof
        BY <1>2, <3>2 DEF Proof
      <4>2. proofs \in Seq(Proof) /\ proofs' = Append(proofs, p)
        BY <1>0, <1>2, <2>1, <3>2 DEF Shapes
      <4> HIDE DEF p
      <4>3. /\ proofs' \in Seq(Proof) /\ Len(proofs) \in Nat /\ Len(proofs') = Len(proofs) + 1
            /\ DOMAIN proofs = 1..Len(proofs) /\ DOMAIN proofs' = 1..(Len(proofs) + 1)
            /\ \A i \in 1..Len(proofs) : proofs'[i] = proofs[i]
            /\ proofs'[Len(proofs) + 1] = p
        BY <4>1, <4>2
      <4> QED BY <3>2, <4>3
    <3> QED BY <1>2, <3>1, <3>2
  <2> HIDE DEF j
  <2>10. Shapes'
    BY Zenon, <1>0, <1>1, <2>8, <2>9 DEF Shapes
  <2>11. Come'
    <3>1. ASSUME NEW v \in Worker, work'[v].st # "idle" PROVE login'[work'[v].c] # "new"
      <4>1. CASE v = w
        BY Zenon, <1>1, <1>3, <2>7, <4>1 DEF j
      <4>2. CASE v # w
        <5>1. work'[v] = work[v]
          BY Zenon, <2>6, <4>2
        <5> QED BY Zenon, <1>0, <1>1, <3>1, <5>1 DEF Come
      <4> QED BY <4>1, <4>2
    <3> QED BY Zenon, <1>0, <1>1, <3>1 DEF Come
  <2>12. Counters'
    <3>1. ASSUME NEW c \in Client, sessions'[c].token PROVE sessions'[c].has /\ login'[c] = "up"
      BY Zenon, <1>0, <1>1, <2>3, <2>4, <3>1 DEF Counters
    <3>2. ASSUME NEW i \in DOMAIN proofs'
          PROVE  /\ login'[proofs'[i].c] = "up"
                 /\ sessions'[proofs'[i].c].token => proofs'[i].proof <= sessions'[proofs'[i].c].counter
      <4>1. CASE i \in Old
        <5>0. proofs'[i] = proofs[i] /\ login' = login
          BY Zenon, <1>1, <2>9, <4>1
        <5>1. /\ proofs[i].c \in Client /\ proofs[i].proof \in 1..MaxProof /\ login[proofs[i].c] = "up"
              /\ sessions[proofs[i].c].token => proofs[i].proof <= sessions[proofs[i].c].counter
          BY Zenon, <1>0, <4>1, ProofTypes DEF Counters
        <5>2. CASE proofs[i].c = k.c
          <6>1. s.token => s.has /\ proofs[i].proof <= s.counter
            BY Zenon, <1>0, <1>2, <5>1, <5>2 DEF Counters
          <6>2. s.token => proofs[i].proof <= n
            BY <1>2, <1>3, <2>2, <5>1, <6>1 DEF State
          <6>3. sessions'[k.c].token = s.token /\ (s.token => sessions'[k.c].counter = n)
            BY Zenon, <2>3, <2>4, <6>1
          <6> HIDE DEF n
          <6>4. sessions'[k.c].token => proofs[i].proof <= sessions'[k.c].counter
            BY Zenon, <6>2, <6>3
          <6> QED BY Zenon, <5>0, <5>1, <5>2, <6>4
        <5>3. CASE proofs[i].c # k.c
          <6>1. sessions'[proofs[i].c] = sessions[proofs[i].c]
            BY Zenon, <2>4, <5>1, <5>3
          <6> QED BY Zenon, <5>0, <5>1, <6>1
        <5> QED BY <5>2, <5>3
      <4>2. CASE i \notin Old
        <5>1. proofs'[i].c = k.c /\ proofs'[i].proof = k.proof /\ k.proof > 0
          BY <2>9, <4>2, <3>2
        <5>2. s.token /\ s.has /\ login[k.c] = "up"
          BY Zenon, <1>0, <1>2, <2>2, <5>1 DEF Counters
        <5>3. sessions'[k.c].counter = k.proof
          BY Zenon, <2>3, <2>4, <5>1, <5>2
        <5>4. k.proof <= k.proof
          BY <1>2
        <5> QED BY Zenon, <1>1, <5>1, <5>2, <5>3, <5>4
      <4> QED BY <4>1, <4>2
    <3> QED BY Zenon, <3>1, <3>2 DEF Counters
  <2>13. ProofOnce'
    <3> SUFFICES ASSUME NEW a \in DOMAIN proofs', NEW b \in DOMAIN proofs', a < b, proofs'[a].c = proofs'[b].c
                 PROVE  proofs'[a].proof < proofs'[b].proof
      BY Zenon DEF ProofOnce
    <3>1. a \in Old
      BY <2>9
    <3>2. CASE b \in Old
      BY Zenon, <1>0, <2>9, <3>1, <3>2 DEF ProofOnce
    <3>3. CASE b \notin Old
      <4>1. proofs'[b].c = k.c /\ proofs'[b].proof = k.proof /\ k.proof > 0
        BY <2>9, <3>3
      <4>2. proofs[a].c = k.c /\ s.token
        BY Zenon, <2>2, <2>9, <3>1, <4>1
      <4>3. proofs[a].proof <= s.counter /\ proofs[a].proof \in 1..MaxProof
        BY Zenon, <1>0, <3>1, <4>2, ProofTypes DEF Counters
      <4>4. proofs[a].proof < k.proof
        BY <1>2, <1>3, <2>2, <4>1, <4>3 DEF State
      <4> QED BY Zenon, <2>9, <3>1, <4>1, <4>4
    <3> QED BY <3>2, <3>3
  <2> DEFINE Later(c, a) == \E i \in DOMAIN proofs' : proofs'[i].c = c /\ proofs'[i].ip = a
  <2>14. \A c, a : Proven(c, a) => Later(c, a)
    BY Zenon, <2>9 DEF Proven
  <2>15. k.proof > 0 => Later(k.c, k.ip)
    <3>1. p.c = k.c /\ p.ip = k.ip
      OBVIOUS
    <3> QED BY Zenon, <2>9, <3>1
  <2> HIDE DEF Later
  <2>16. Endorsed'
    <3>1. ASSUME NEW v \in Worker, work'[v].st \in {"store", "take"}
          PROVE  /\ work'[v].ip = ip'[work'[v].c] \/ work'[v].proven
                 /\ work'[v].proven => Later(work'[v].c, work'[v].ip)
      <4>1. CASE v = w
        <5>1. j.ip = ip[j.c] \/ j.proven
          BY <1>2, <2>2, <2>7
        <5> QED BY Zenon, <1>1, <2>7, <2>15, <4>1, <5>1 DEF j
      <4>2. CASE v # w
        <5>1. work'[v] = work[v] /\ ip' = ip
          BY Zenon, <1>1, <2>6, <4>2
        <5>2. /\ work[v].ip = ip[work[v].c] \/ work[v].proven
              /\ work[v].proven => Proven(work[v].c, work[v].ip)
          BY Zenon, <1>0, <3>1, <5>1 DEF Endorsed
        <5> QED BY Zenon, <2>14, <5>1, <5>2
      <4> QED BY <4>1, <4>2
    <3>2. ASSUME NEW l \in LowID, keepalives'[l] # None, keepalives'[l].proven
          PROVE  Later(keepalives'[l].owner, keepalives'[l].ip)
      <4>1. keepalives' = keepalives
        BY Zenon, <1>1
      <4>2. Proven(keepalives[l].owner, keepalives[l].ip)
        BY Zenon, <1>0, <3>2, <4>1 DEF Endorsed
      <4> QED BY Zenon, <2>14, <4>1, <4>2
    <3> QED BY Zenon, <3>1, <3>2 DEF Endorsed, Proven, Later
  <2> QED BY Zenon, <1>1, <2>5, <2>10, <2>11, <2>12, <2>13, <2>16, TellNothing DEF SessionInv
<1> QED BY <1>4, <1>5

\* The checked keepalive is stored with what justifies it.
LEMMA RememberSession == ASSUME SessionInv, NEW w \in Worker, RememberKeepalive(w) PROVE SessionInv'
<1> DEFINE k == work[w]
           e == [ip |-> k.ip, at |-> now, owner |-> k.c, proven |-> k.proven]
<1>0. TypeOK /\ Shapes /\ Come /\ Endorsed
  BY Zenon DEF SessionInv
<1>1. /\ UNCHANGED <<now, packets, login, rel, id, ip, holder, foreignGen, sessions, proofs>> /\ told' = {}
      /\ k.st = "store" /\ keepalives' = [SweptKeepalives EXCEPT ![k.l] = e]
      /\ work' = [work EXCEPT ![w].st = "take"]
  BY Zenon DEF RememberKeepalive, tables, Silent
<1>2. k \in Job
  BY <1>0, <1>1 DEF Shapes, Idle
<1>3. k.l \in LowID /\ e \in Stored /\ e.ip = k.ip /\ e.owner = k.c /\ e.proven = k.proven
  BY <1>0, <1>2 DEF Job, Stored, TypeOK
<1>4. /\ work'[w] = [k EXCEPT !.st = "take"] /\ \A v \in Worker \ {w} : work'[v] = work[v]
      /\ work' = [v \in Worker |-> work'[v]]
  BY <1>0, <1>1 DEF Shapes
<1>5. /\ work'[w] \in Job /\ work'[w].st = "take" /\ work'[w].c = k.c /\ work'[w].ip = k.ip
      /\ work'[w].proven = k.proven
  BY <1>2, <1>4 DEF Job
<1>6. work' \in [Worker -> {Idle} \union Job]
  <2>1. \A v \in Worker : work'[v] \in {Idle} \union Job
    BY Zenon, <1>0, <1>4, <1>5 DEF Shapes
  <2> QED BY Zenon, <1>4, <2>1
<1> HIDE DEF e
<1>7. /\ keepalives' \in [LowID -> {None} \union Stored] /\ keepalives'[k.l] = e
      /\ \A l \in LowID \ {k.l} : keepalives'[l] = keepalives[l] \/ keepalives'[l] = None
  BY Zenon, <1>1, <1>3, SweptTypes
<1>8. /\ k.ip = ip[k.c] \/ k.proven
      /\ k.proven => Proven(k.c, k.ip)
      /\ login[k.c] # "new"
  <2>1. k.st \in {"store", "take"} /\ k.st # "idle"
    BY <1>1
  <2> QED BY Zenon, <1>0, <2>1 DEF Endorsed, Come
<1>9. TypeOK'
  BY Zenon, <1>0, <1>1 DEF TypeOK
<1>10. Shapes'
  BY Zenon, <1>0, <1>1, <1>6, <1>7 DEF Shapes
<1>11. Come'
  <2>1. ASSUME NEW v \in Worker, work'[v].st # "idle" PROVE login'[work'[v].c] # "new"
    <3>1. CASE v = w
      BY Zenon, <1>1, <1>5, <1>8, <3>1
    <3>2. CASE v # w
      <4>1. work'[v] = work[v]
        BY Zenon, <1>4, <3>2
      <4> QED BY Zenon, <1>0, <1>1, <2>1, <4>1 DEF Come
    <3> QED BY <3>1, <3>2
  <2> QED BY Zenon, <1>0, <1>1, <2>1 DEF Come
<1>12. Counters' /\ ProofOnce'
  BY Zenon, <1>1 DEF SessionInv, Counters, ProofOnce
<1> DEFINE Later(c, a) == \E i \in DOMAIN proofs' : proofs'[i].c = c /\ proofs'[i].ip = a
<1>13. \A c, a : Proven(c, a) => Later(c, a)
  BY Zenon, <1>1 DEF Proven
<1> HIDE DEF Later
<1>14. Endorsed'
  <2>1. ASSUME NEW v \in Worker, work'[v].st \in {"store", "take"}
        PROVE  /\ work'[v].ip = ip'[work'[v].c] \/ work'[v].proven
               /\ work'[v].proven => Later(work'[v].c, work'[v].ip)
    <3>1. CASE v = w
      BY Zenon, <1>1, <1>5, <1>8, <1>13, <3>1
    <3>2. CASE v # w
      <4>1. work'[v] = work[v] /\ ip' = ip
        BY Zenon, <1>1, <1>4, <3>2
      <4>2. /\ work[v].ip = ip[work[v].c] \/ work[v].proven
            /\ work[v].proven => Proven(work[v].c, work[v].ip)
        BY Zenon, <1>0, <2>1, <4>1 DEF Endorsed
      <4> QED BY Zenon, <1>13, <4>1, <4>2
    <3> QED BY <3>1, <3>2
  <2>2. ASSUME NEW l \in LowID, keepalives'[l] # None, keepalives'[l].proven
        PROVE  Later(keepalives'[l].owner, keepalives'[l].ip)
    <3>1. CASE l = k.l
      <4>1. keepalives'[l] = e
        BY Zenon, <1>7, <3>1
      <4> QED BY Zenon, <1>3, <1>8, <1>13, <2>2, <4>1
    <3>2. CASE l # k.l
      <4>1. keepalives'[l] = keepalives[l]
        BY Zenon, <1>7, <2>2, <3>2
      <4>2. Proven(keepalives[l].owner, keepalives[l].ip)
        BY Zenon, <1>0, <2>2, <4>1 DEF Endorsed
      <4> QED BY Zenon, <1>13, <4>1, <4>2
    <3> QED BY <3>1, <3>2
  <2> QED BY Zenon, <2>1, <2>2 DEF Endorsed, Proven, Later
<1> QED BY Zenon, <1>1, <1>9, <1>10, <1>11, <1>12, <1>14, TellNothing DEF SessionInv

\* A notice names the session's own address, or one that it proved.
LEMMA TellSound ==
  ASSUME NEW l, NEW list, NEW c, NEW e, Tell(l, list, c, e), UNCHANGED <<ip, proofs>>,
         e.ip = ip[c] \/ (e.proven /\ Proven(c, e.ip))
  PROVE  ToldOwnEndpoint'
<1> SUFFICES ASSUME NEW n \in told'
             PROVE  \/ n.ip = ip'[n.c]
                    \/ n.proven /\ \E k \in DOMAIN proofs' : proofs'[k].c = n.c /\ proofs'[k].ip = n.ip
  BY Zenon DEF ToldOwnEndpoint
<1>1. PICK k \in DOMAIN list : n = [r |-> list[k].r, l |-> l, c |-> c, ip |-> e.ip, proven |-> e.proven]
  BY Zenon DEF Tell
<1>2. n.c = c /\ n.ip = e.ip /\ n.proven = e.proven
  BY <1>1
<1> QED BY Zenon, <1>2 DEF Proven

\* A keepalive answers the requests that wait for its sender.
LEMMA TakeSession == ASSUME SessionInv, NEW w \in Worker, TakeForeign(w) PROVE SessionInv'
<1> DEFINE k == work[w]
<1>0. TypeOK /\ Shapes /\ Endorsed
  BY Zenon DEF SessionInv
<1>1. /\ UNCHANGED <<now, packets, login, rel, id, ip, holder, foreignGen, keepalives, sessions, proofs>>
      /\ k.st = "take" /\ work' = [work EXCEPT ![w] = Idle]
  BY Zenon DEF TakeForeign, tables
<1>2. k.st \in {"store", "take"}
  BY <1>1
<1>3. k.ip = ip[k.c] \/ (k.proven /\ Proven(k.c, k.ip))
  BY Zenon, <1>0, <1>2 DEF Endorsed
<1>4. ToldOwnEndpoint'
  <2>1. PICK list : Tell(k.l, list, k.c, k)
    BY Zenon DEF TakeForeign
  <2> HIDE DEF k
  <2> QED BY Zenon, <1>1, <1>3, <2>1, TellSound
<1>5. work' \in [Worker -> {Idle} \union Job] /\ \A v \in Worker : work'[v] = work[v] \/ work'[v] = Idle
  BY Zenon, <1>0, <1>1 DEF Shapes
<1>6. \A v \in Worker : work'[v] = work[v] \/ work'[v].st = "idle"
  BY <1>5 DEF Idle
<1>7. now' \in 0..MaxTime /\ packets' \in 0..MaxPackets /\ foreignGen' \in 0..packets'
  BY Zenon, <1>0, <1>1 DEF TypeOK
<1>8. keepalives' \in [LowID -> {None} \union Stored] /\ \A l \in LowID : keepalives'[l] = keepalives[l]
  BY Zenon, <1>0, <1>1 DEF Shapes
<1> QED BY Zenon, <1>1, <1>4, <1>5, <1>6, <1>7, <1>8, SessionFrame

\* The fallback timer answers them instead.
LEMMA TimerSession ==
  ASSUME SessionInv, NEW t \in timers, t.l \in LowID, TakeForeignGen(t) \/ ViewTarget(t) \/ FallbackSend(t)
  PROVE  SessionInv'
<1>0. TypeOK /\ Shapes /\ Endorsed
  BY Zenon DEF SessionInv
<1>1. UNCHANGED <<now, packets, login, rel, id, ip, holder, foreignGen, keepalives, sessions, work, proofs>>
  BY Zenon DEF TakeForeignGen, ViewTarget, FallbackSend, tables
<1>2. now' \in 0..MaxTime /\ packets' \in 0..MaxPackets /\ foreignGen' \in 0..packets'
  BY Zenon, <1>0, <1>1 DEF TypeOK
<1>3. CASE TakeForeignGen(t) \/ ViewTarget(t)
  <2>1. told' = {}
    BY Zenon, <1>3 DEF TakeForeignGen, ViewTarget, Silent
  <2> QED BY Zenon, <1>1, <1>2, <2>1, TellNothing, SessionQuiet
<1>4. CASE FallbackSend(t)
  <2>1. ToldOwnEndpoint'
    <3> DEFINE e == [ip |-> recent[t.l].ip, proven |-> FALSE]
    <3>1. \/ Recent(t.l, t.c) /\ Tell(t.l, t.list, t.c, e)
          \/ Kept(t.l, t.c) /\ Tell(t.l, t.list, t.c, keepalives[t.l])
          \/ told' = {}
      BY <1>4 DEF FallbackSend, Silent
    <3>2. CASE Recent(t.l, t.c) /\ Tell(t.l, t.list, t.c, e)
      <4>1. e.ip = ip[t.c]
        BY <3>2 DEF Recent
      <4> HIDE DEF e
      <4> QED BY Zenon, <1>1, <3>2, <4>1, TellSound
    <3>3. CASE Kept(t.l, t.c) /\ Tell(t.l, t.list, t.c, keepalives[t.l])
      <4>1. keepalives[t.l].ip = ip[t.c] \/ (keepalives[t.l].proven /\ Proven(t.c, keepalives[t.l].ip))
        BY Zenon, <1>0, <3>3 DEF Kept, Endorsed
      <4> QED BY Zenon, <1>1, <3>3, <4>1, TellSound
    <3> QED BY <3>1, <3>2, <3>3, TellNothing
  <2> QED BY Zenon, <1>1, <1>2, <2>1, SessionQuiet
<1> QED BY <1>3, <1>4

\* Time passes, or nothing does.
LEMMA TickSession == ASSUME SessionInv, Tick \/ UNCHANGED vars PROVE SessionInv'
<1>0. TypeOK
  BY Zenon DEF SessionInv
<1>1. UNCHANGED <<packets, login, rel, id, ip, holder, foreignGen, keepalives, sessions, work, proofs>>
  BY Zenon DEF Tick, vars, tables, waits
<1>2. now' \in 0..MaxTime
  BY <1>0, NatCallbackAssumption DEF TypeOK, Tick, vars
<1>3. packets' \in 0..MaxPackets /\ foreignGen' \in 0..packets'
  BY Zenon, <1>0, <1>1 DEF TypeOK
<1>4. ToldOwnEndpoint'
  <2>1. CASE Tick
    BY Zenon, <2>1, TellNothing DEF Tick, Silent
  <2>2. CASE UNCHANGED vars
    BY Zenon, <2>2 DEF vars, tables, SessionInv, ToldOwnEndpoint
  <2> QED BY <2>1, <2>2
<1> QED BY Zenon, <1>1, <1>2, <1>3, <1>4, SessionQuiet

-----------------------------------------------------------------------------
(* The timers of the batches *)

Armed(l, gen) == {t \in timers : t.l = l /\ t.gen = gen /\ t.st = "armed"}

\* No batch and no timer at the start.
LEMMA TimerInit == ASSUME Init PROVE TimerInv
<1>1. foreign = [l \in LowID |-> None] /\ timers = {} /\ foreignGen = 0
  BY Zenon DEF Init
<1>2. \A l \in LowID : foreign[l] = None
  BY Zenon, <1>1
<1>3. Generations
  BY <1>1, <1>2 DEF Generations
<1> QED BY Zenon, <1>2, <1>3 DEF TimerInv, Timed

\* Batches go or stay under their generation, and no timer of one that stays is
\* armed or spent.
LEMMA TimerFrame ==
  ASSUME TimerInv, foreignGen' = foreignGen, foreign' = [l \in LowID |-> foreign'[l]],
         \A l \in LowID : foreign'[l] # None =>
           /\ foreign[l] # None /\ foreign'[l] = Batch(l)' /\ foreign'[l].gen = foreign[l].gen
           /\ Armed(l, foreign[l].gen)' = Armed(l, foreign[l].gen),
         \A t \in timers' : IsTimer(t) /\ t.gen \in 1..foreignGen
  PROVE  TimerInv'
<1>1. Generations'
  <2>1. \A l \in LowID : foreign'[l] # None => foreign'[l].gen \in 1..foreignGen'
    BY Zenon DEF TimerInv, Generations
  <2>2. foreignGen' \in Nat /\ \A t \in timers' : IsTimer(t) /\ t.gen \in 1..foreignGen'
    BY Zenon DEF TimerInv, Generations
  <2>3. \A t : IsTimer(t)' <=> IsTimer(t)
    BY Zenon DEF IsTimer
  <2> QED BY Zenon, <2>1, <2>2, <2>3 DEF Generations, IsTimer
<1>2. Timed'
  <2> SUFFICES ASSUME NEW l \in LowID, foreign'[l] # None
               PROVE  Cardinality(Armed(l, foreign[l].gen)') = 1
    BY Zenon DEF Timed, Armed
  <2>1. Cardinality(Armed(l, foreign[l].gen)) = 1
    BY Zenon DEF TimerInv, Timed, Armed
  <2> QED BY Zenon, <2>1
<1> QED BY Zenon, <1>1, <1>2 DEF TimerInv

\* The sweep drops a batch or keeps its generation.
LEMMA SweptBatches ==
  ASSUME TimerInv
  PROVE  /\ SweptForeign = [l \in LowID |-> SweptForeign[l]]
         /\ \A l \in LowID : SweptForeign[l] # None =>
              /\ foreign[l] # None
              /\ SweptForeign[l] = [gen |-> foreign[l].gen, list |-> SweptForeign[l].list]
<1>1. SweptForeign = [l \in LowID |-> SweptForeign[l]]
  BY Zenon DEF SweptForeign
<1>2. ASSUME NEW l \in LowID, SweptForeign[l] # None
      PROVE  /\ foreign[l] # None
             /\ SweptForeign[l] = [gen |-> foreign[l].gen, list |-> SweptForeign[l].list]
  <2> DEFINE live == IF foreign[l] = None THEN <<>> ELSE LiveForeign(foreign[l].list)
  <2>1. SweptForeign[l] = IF ~SweepDue THEN foreign[l]
                          ELSE IF live = <<>> THEN None ELSE [foreign[l] EXCEPT !.list = live]
    BY Zenon DEF SweptForeign
  <2>2. foreign[l] # None
    BY <1>2, <2>1
  <2>3. foreign[l] = [gen |-> foreign[l].gen, list |-> foreign[l].list]
    BY Zenon, <2>2 DEF TimerInv, Generations, Batch
  <2>4. CASE ~SweepDue
    BY Zenon, <2>1, <2>2, <2>3, <2>4
  <2>5. CASE SweepDue
    <3>1. SweptForeign[l] = [foreign[l] EXCEPT !.list = live]
      BY <1>2, <2>1, <2>5
    <3> HIDE DEF live
    <3>2. [foreign[l] EXCEPT !.list = live] = [gen |-> foreign[l].gen, list |-> live]
      BY <2>3
    <3>3. SweptForeign[l].list = live
      BY <3>1, <3>2
    <3> QED BY Zenon, <2>2, <3>1, <3>2, <3>3
  <2> QED BY <2>4, <2>5
<1> QED BY Zenon, <1>1, <1>2

\* A request joins a batch that has its timer, or opens one with a timer of its own.
LEMMA AddTimer == ASSUME TimerInv, NEW r, NEW l \in LowID, AddForeign(r, l) PROVE TimerInv'
<1> DEFINE w == SweptForeign[l]
           live == IF w = None THEN <<>> ELSE LiveForeign(w.list)
           first == live = <<>>
           gen == IF first THEN foreignGen + 1 ELSE w.gen
           T == Timer(l, gen)
<1>0. Generations /\ Timed
  BY Zenon DEF TimerInv
<1>1. PICK x : foreign' = [SweptForeign EXCEPT ![l] = [gen |-> gen, list |-> x]]
  BY Zenon DEF AddForeign
<1>2. /\ foreignGen' = IF first THEN gen ELSE foreignGen
      /\ timers' = IF first THEN timers \union {T} ELSE timers
  BY Zenon DEF AddForeign
<1>3. /\ foreign' = [m \in LowID |-> foreign'[m]] /\ foreign'[l] = [gen |-> gen, list |-> x]
      /\ \A m \in LowID \ {l} : foreign'[m] = SweptForeign[m]
  BY <1>1, SweptBatches
<1>4. foreign'[l].gen = gen /\ foreign'[l].list = x
  BY <1>3
<1>5. ASSUME NEW m \in LowID \ {l}, foreign'[m] # None
      PROVE  foreign[m] # None /\ foreign'[m] = Batch(m)' /\ foreign'[m].gen = foreign[m].gen
  <2>1. foreign[m] # None /\ foreign'[m] = [gen |-> foreign[m].gen, list |-> foreign'[m].list]
    BY Zenon, <1>3, <1>5, SweptBatches
  <2>2. foreign'[m].gen = foreign[m].gen
    BY <2>1
  <2> QED BY Zenon, <2>1, <2>2 DEF Batch
<1>6. foreign'[l] = Batch(l)'
  BY Zenon, <1>3, <1>4 DEF Batch
<1>7. CASE first
  <2>1. gen = foreignGen + 1 /\ foreignGen' = gen /\ timers' = timers \union {T} /\ foreignGen \in Nat
    BY <1>0, <1>2, <1>7 DEF Generations
  <2> HIDE DEF first, gen
  <2>2. IsTimer(T) /\ T.l = l /\ T.gen = gen /\ T.st = "armed"
    BY DEF Timer, IsTimer
  <2> HIDE DEF T
  <2>3. gen \in 1..gen /\ \A n : n \in 1..foreignGen => n \in 1..gen /\ n # gen
    BY <2>1
  <2>4. Generations'
    <3>1. \A t \in timers' : IsTimer(t) /\ t.gen \in 1..foreignGen'
      BY Zenon, <1>0, <2>1, <2>2, <2>3 DEF Generations
    <3>2. \A m \in LowID : foreign'[m] # None => foreign'[m] = Batch(m)' /\ foreign'[m].gen \in 1..foreignGen'
      <4>1. \A m \in LowID : foreign[m] # None => foreign[m].gen \in 1..gen
        BY Zenon, <1>0, <2>3 DEF Generations
      <4> QED BY Zenon, <1>4, <1>5, <1>6, <2>1, <2>3, <4>1
    <3>3. foreignGen' \in Nat
      BY <2>1
    <3> QED BY Zenon, <1>3, <3>1, <3>2, <3>3 DEF Generations, IsTimer
  <2>5. Timed'
    <3> SUFFICES ASSUME NEW m \in LowID, foreign'[m] # None
                 PROVE  Cardinality(Armed(m, foreign[m].gen)') = 1
      BY Zenon DEF Timed, Armed
    <3>1. CASE m = l
      <4>1. Armed(m, foreign[m].gen)' = {t \in timers \union {T} : t.l = l /\ t.gen = gen /\ t.st = "armed"}
        BY Zenon, <1>4, <2>1, <3>1 DEF Armed
      <4>2. \A t \in timers : t.gen # gen
        BY Zenon, <1>0, <2>3 DEF Generations
      <4>3. {t \in timers \union {T} : t.l = l /\ t.gen = gen /\ t.st = "armed"} = {T}
        BY Zenon, <2>2, <4>2
      <4> QED BY Zenon, <4>1, <4>3, FS_Singleton
    <3>2. CASE m # l
      <4>1. Cardinality(Armed(m, foreign[m].gen)) = 1
        BY Zenon, <1>0, <1>5, <3>2 DEF Timed, Armed
      <4>2. Armed(m, foreign[m].gen)' = Armed(m, foreign[m].gen)
        BY Zenon, <1>5, <2>1, <2>2, <3>2 DEF Armed
      <4> QED BY Zenon, <4>1, <4>2
    <3> QED BY <3>1, <3>2
  <2> QED BY Zenon, <2>4, <2>5 DEF TimerInv
<1>8. CASE ~first
  <2>1. w # None /\ gen = w.gen /\ timers' = timers /\ foreignGen' = foreignGen
    BY <1>2, <1>8
  <2>2. foreign[l] # None /\ w.gen = foreign[l].gen
    <3>1. foreign[l] # None /\ w = [gen |-> foreign[l].gen, list |-> w.list]
      BY Zenon, <2>1, SweptBatches
    <3> QED BY <3>1
  <2> HIDE DEF first, gen, w
  <2>3. \A m \in LowID : foreign'[m] # None =>
           /\ foreign[m] # None /\ foreign'[m] = Batch(m)' /\ foreign'[m].gen = foreign[m].gen
    BY Zenon, <1>4, <1>5, <1>6, <2>1, <2>2
  <2>4. \A m \in LowID : foreign'[m] # None => Armed(m, foreign[m].gen)' = Armed(m, foreign[m].gen)
    BY Zenon, <2>1, <2>3 DEF Armed
  <2>5. \A t \in timers' : IsTimer(t) /\ t.gen \in 1..foreignGen
    BY Zenon, <1>0, <2>1 DEF Generations
  <2> QED BY Zenon, <1>3, <2>1, <2>3, <2>4, <2>5, TimerFrame
<1> QED BY <1>7, <1>8

\* A timer that has taken its batch is a timer of the same batch.
LEMMA TakenTimer ==
  ASSUME NEW t, IsTimer(t), NEW x, NEW u, u = [t EXCEPT !.st = "taken", !.list = x]
  PROVE  IsTimer(u) /\ u.l = t.l /\ u.gen = t.gen /\ u.st # "armed"
BY DEF IsTimer

\* So is one that has looked its target up.
LEMMA ViewedTimer ==
  ASSUME NEW t, IsTimer(t), NEW x, NEW u, u = [t EXCEPT !.st = "viewed", !.c = x]
  PROVE  IsTimer(u) /\ u.l = t.l /\ u.gen = t.gen /\ u.st # "armed"
BY DEF IsTimer

\* The fallback of a batch takes that batch with its timer, and no other.
LEMMA FallbackTimer ==
  ASSUME TimerInv, NEW t \in timers, TakeForeignGen(t) \/ ViewTarget(t) \/ FallbackSend(t)
  PROVE  TimerInv'
<1>0. Generations /\ Timed
  BY Zenon DEF TimerInv
<1>1. IsTimer(t) /\ t.gen \in 1..foreignGen /\ t.l \in LowID
  BY Zenon, <1>0 DEF Generations, IsTimer
<1>2. foreignGen' = foreignGen
  BY Zenon DEF TakeForeignGen, ViewTarget, FallbackSend
<1>3. ASSUME NEW u, IsTimer(u), u.l = t.l, u.gen = t.gen, u.st # "armed", NEW S \in {{}, {u}}, Retime(t, S),
             foreign' = [l \in LowID |-> foreign'[l]],
             \A l \in LowID : foreign'[l] # None => foreign'[l] = foreign[l],
             t.st = "armed" => foreign'[t.l] = None \/ foreign[t.l].gen # t.gen
      PROVE  TimerInv'
  <2>1. \A v \in timers' : v \in timers \/ v = u
    BY Zenon, <1>3 DEF Retime
  <2>2. \A v \in timers' : IsTimer(v) /\ v.gen \in 1..foreignGen
    BY Zenon, <1>0, <1>1, <1>3, <2>1 DEF Generations
  <2>3. ASSUME NEW l \in LowID, foreign'[l] # None
        PROVE  /\ foreign[l] # None /\ foreign'[l] = Batch(l)' /\ foreign'[l].gen = foreign[l].gen
               /\ Armed(l, foreign[l].gen)' = Armed(l, foreign[l].gen)
    <3>1. foreign'[l] = foreign[l] /\ foreign[l] = Batch(l)
      BY Zenon, <1>0, <1>3, <2>3 DEF Generations
    <3>2. ~(t.l = l /\ t.gen = foreign[l].gen /\ t.st = "armed")
      BY Zenon, <1>3, <2>3
    <3>3. \A v : v \in timers' /\ v.st = "armed" => v \in timers
      BY Zenon, <1>3, <2>1
    <3>4. \A v \in timers : v = t \/ v \in timers'
      BY Zenon, <1>3 DEF Retime
    <3>5. Armed(l, foreign[l].gen)' = Armed(l, foreign[l].gen)
      BY Zenon, <3>1, <3>2, <3>3, <3>4 DEF Armed
    <3> QED BY Zenon, <2>3, <3>1, <3>5 DEF Batch
  <2> QED BY Zenon, <1>2, <1>3, <2>2, <2>3, TimerFrame
<1>4. CASE TakeForeignGen(t)
  <2> DEFINE u == [t EXCEPT !.st = "taken", !.list = LiveForeign(foreign[t.l].list)]
  <2>1. IsTimer(u) /\ u.l = t.l /\ u.gen = t.gen /\ u.st # "armed"
    BY Zenon, <1>1, TakenTimer
  <2>2. CASE foreign[t.l] # None /\ foreign[t.l].gen = t.gen
    <3>1. Retime(t, {u}) /\ foreign' = [foreign EXCEPT ![t.l] = None]
      BY Zenon, <1>4, <2>2 DEF TakeForeignGen
    <3> HIDE DEF u
    <3>2. /\ foreign' = [l \in LowID |-> foreign'[l]] /\ foreign'[t.l] = None
          /\ \A l \in LowID : foreign'[l] # None => foreign'[l] = foreign[l]
      BY <1>0, <1>1, <3>1 DEF Generations
    <3> QED BY Zenon, <1>3, <2>1, <3>1, <3>2
  <2>3. CASE ~(foreign[t.l] # None /\ foreign[t.l].gen = t.gen)
    <3>1. Retime(t, {}) /\ foreign' = foreign
      BY Zenon, <1>4, <2>3 DEF TakeForeignGen
    <3> HIDE DEF u
    <3>2. foreign' = [l \in LowID |-> foreign'[l]] /\ \A l \in LowID : foreign'[l] = foreign[l]
      BY Zenon, <1>0, <3>1 DEF Generations
    <3>3. foreign'[t.l] = None \/ foreign[t.l].gen # t.gen
      BY Zenon, <2>3, <3>1
    <3> QED BY Zenon, <1>3, <2>1, <3>1, <3>2, <3>3
  <2> QED BY <2>2, <2>3
<1>5. CASE ViewTarget(t) \/ FallbackSend(t)
  <2> DEFINE u == [t EXCEPT !.st = "viewed", !.c = holder[t.l]]
  <2>1. IsTimer(u) /\ u.l = t.l /\ u.gen = t.gen /\ u.st # "armed"
    BY Zenon, <1>1, ViewedTimer
  <2>2. t.st # "armed"
    BY <1>5 DEF ViewTarget, FallbackSend
  <2> HIDE DEF u
  <2>3. (Retime(t, {}) \/ Retime(t, {u})) /\ foreign' = foreign
    BY Zenon, <1>5 DEF ViewTarget, FallbackSend, u
  <2>4. foreign' = [l \in LowID |-> foreign'[l]] /\ \A l \in LowID : foreign'[l] = foreign[l]
    BY Zenon, <1>0, <2>3 DEF Generations
  <2> QED BY Zenon, <1>3, <2>1, <2>2, <2>3, <2>4
<1> QED BY <1>4, <1>5

\* A step that leaves the timers alone and drops batches or keeps them.
LEMMA TimerQuiet ==
  ASSUME TimerInv, UNCHANGED <<foreignGen, timers>>, foreign' = [l \in LowID |-> foreign'[l]],
         \A l \in LowID : foreign'[l] # None =>
           foreign[l] # None /\ foreign'[l] = [gen |-> foreign[l].gen, list |-> foreign'[l].list]
  PROVE  TimerInv'
<1>1. \A l \in LowID : foreign'[l] # None => foreign'[l].gen = foreign[l].gen
  <2> SUFFICES ASSUME NEW l \in LowID, foreign'[l] # None PROVE foreign'[l].gen = foreign[l].gen
    OBVIOUS
  <2>1. foreign'[l] = [gen |-> foreign[l].gen, list |-> foreign'[l].list]
    BY Zenon
  <2> QED BY <2>1
<1>2. \A l \in LowID : foreign'[l] # None => foreign'[l] = Batch(l)'
  BY Zenon, <1>1 DEF Batch
<1>3. \A l \in LowID : foreign'[l] # None => Armed(l, foreign[l].gen)' = Armed(l, foreign[l].gen)
  BY Zenon, <1>1 DEF Armed
<1>4. \A t \in timers' : IsTimer(t) /\ t.gen \in 1..foreignGen
  BY Zenon DEF TimerInv, Generations
<1> QED BY Zenon, <1>1, <1>2, <1>3, <1>4, TimerFrame

-----------------------------------------------------------------------------
(* The parts of a list *)

\* The members of a set of positions have places 1, 2 and so on, in their order.
LEMMA Places ==
    ASSUME NEW n \in Nat, NEW I \in SUBSET (1..n)
    PROVE  /\ IsFiniteSet(I) /\ Cardinality(I) \in 0..n
           /\ \A i \in I : Place(I, i) \in 1..Cardinality(I)
           /\ \A i, j \in I : i < j => Place(I, i) < Place(I, j)
           /\ \A k \in 1..Cardinality(I) : Member(I, k) \in I /\ Place(I, Member(I, k)) = k
<1> DEFINE Upto(i) == {m \in I : m <= i}
           c == Cardinality(I)
<1>1. IsFiniteSet(I) /\ c \in 0..n
  <2>1. IsFiniteSet(1..n) /\ Cardinality(1..n) = n
    BY FS_Interval
  <2>2. IsFiniteSet(I) /\ c <= Cardinality(1..n)
    BY <2>1, FS_Subset
  <2>3. c \in Nat
    BY <2>2, FS_CardinalityType
  <2> QED
    BY <2>1, <2>2, <2>3
<1>2. \A i \in I : IsFiniteSet(Upto(i)) /\ Place(I, i) \in 1..c
  <2> SUFFICES ASSUME NEW i \in I
               PROVE  IsFiniteSet(Upto(i)) /\ Cardinality(Upto(i)) \in 1..c
    BY DEF Place
  <2>1. Upto(i) \in SUBSET I /\ i \in Upto(i)
    OBVIOUS
  <2> HIDE DEF Upto
  <2>2. IsFiniteSet(Upto(i)) /\ Cardinality(Upto(i)) <= c
    BY <1>1, <2>1, FS_Subset
  <2>3. Cardinality(Upto(i)) \in Nat
    BY <2>2, FS_CardinalityType
  <2>4. Cardinality(Upto(i)) # 0
    BY <2>1, <2>2, FS_EmptySet
  <2> QED
    BY <1>1, <2>2, <2>3, <2>4
<1>3. \A i, j \in I : i < j => Place(I, i) < Place(I, j)
  <2> SUFFICES ASSUME NEW i \in I, NEW j \in I, i < j
               PROVE  Place(I, i) < Place(I, j)
    OBVIOUS
  <2>1. i \in Nat /\ j \in Nat /\ \A m \in I : m \in Nat
    OBVIOUS
  <2>2. j \in Upto(j) /\ j \notin Upto(i) /\ \A m \in Upto(i) : m \in Upto(j)
    BY <2>1
  <2>3. IsFiniteSet(Upto(j)) /\ Place(I, j) \in 1..c /\ Place(I, i) \in 1..c
    BY <1>2
  <2>4. Place(I, j) \in Nat /\ Place(I, i) \in Nat
    BY <1>1, <2>3
  <2>5. Place(I, i) = Cardinality(Upto(i)) /\ Place(I, j) = Cardinality(Upto(j))
    BY DEF Place
  <2> HIDE DEF Upto
  <2>6. Place(I, i) <= Place(I, j) /\ Place(I, i) # Place(I, j)
    BY <2>2, <2>3, <2>5, FS_Subset
  <2> QED
    BY <2>4, <2>6
<1> HIDE DEF c
<1>4. \A k \in 1..c : \E i \in I : Place(I, i) = k
  <2> DEFINE p == [i \in I |-> Place(I, i)]
  <2>1. p \in [I -> 1..c]
    BY <1>2
  <2>2. \A i, j \in I : Place(I, i) = Place(I, j) => i = j
    <3> SUFFICES ASSUME NEW i \in I, NEW j \in I, Place(I, i) = Place(I, j)
                 PROVE  i = j
      OBVIOUS
    <3>1. Place(I, i) \in 1..c
      BY <1>2
    <3>2. i \in Nat /\ j \in Nat /\ Place(I, i) \in Nat
      BY <1>1, <3>1
    <3> QED
      BY <1>3, <3>2
  <2>3. c \in Nat /\ IsFiniteSet(1..c) /\ Cardinality(1..c) = c
    BY <1>1, FS_Interval
  <2>4. p \in Injection(I, 1..c)
    BY <2>1, <2>2 DEF Injection, IsInjective
  <2> HIDE DEF p
  <2>5. p \in Surjection(I, 1..c)
    BY <1>1, <2>3, <2>4, FS_Injection DEF c
  <2>6. \A k \in 1..c : \E i \in I : p[i] = k
    BY <2>5 DEF Surjection
  <2> QED
    BY <2>6 DEF p
<1>5. \A k \in 1..c : Member(I, k) \in I /\ Place(I, Member(I, k)) = k
  BY <1>4 DEF Member
<1> QED
  BY <1>1, <1>2, <1>3, <1>5 DEF c

\* A part of a list has the elements at the positions kept, in their order, and
\* no others.
LEMMA SublistEmbeds ==
    ASSUME NEW S, NEW list \in Seq(S), NEW I \in SUBSET DOMAIN list
    PROVE  /\ Sublist(list, I) \in Seq(S) /\ Len(Sublist(list, I)) = Cardinality(I)
           /\ Cardinality(I) \in 0..Len(list)
           /\ \A k \in 1..Cardinality(I) : Member(I, k) \in I /\ Sublist(list, I)[k] = list[Member(I, k)]
           /\ \A j, k \in 1..Cardinality(I) : j < k => Member(I, j) < Member(I, k)
           /\ \A i \in I : Place(I, i) \in 1..Cardinality(I) /\ Sublist(list, I)[Place(I, i)] = list[i]
<1>1. Len(list) \in Nat /\ I \in SUBSET (1..Len(list))
  OBVIOUS
<1> DEFINE c == Cardinality(I)
<1>2. /\ c \in 0..Len(list)
      /\ \A i \in I : Place(I, i) \in 1..c
      /\ \A i, j \in I : i < j => Place(I, i) < Place(I, j)
      /\ \A k \in 1..c : Member(I, k) \in I /\ Place(I, Member(I, k)) = k
  BY <1>1, Places
<1>3. \A j, k \in 1..c : j < k => Member(I, j) < Member(I, k)
  <2> SUFFICES ASSUME NEW j \in 1..c, NEW k \in 1..c, j < k
               PROVE  Member(I, j) < Member(I, k)
    OBVIOUS
  <2>1. Member(I, j) \in 1..Len(list) /\ Member(I, k) \in 1..Len(list)
    BY <1>1, <1>2
  <2> QED
    BY <1>1, <1>2, <2>1
<1>4. \A i \in I : Member(I, Place(I, i)) = i
  <2> SUFFICES ASSUME NEW i \in I
               PROVE  Member(I, Place(I, i)) = i
    OBVIOUS
  <2>1. Member(I, Place(I, i)) \in I /\ Place(I, Member(I, Place(I, i))) = Place(I, i)
    BY <1>2
  <2>2. i \in Nat /\ Member(I, Place(I, i)) \in Nat /\ Place(I, i) \in Nat
    BY <1>1, <1>2, <2>1
  <2> QED
    BY <1>2, <2>1, <2>2
<1>5. c \in Nat /\ \A k \in 1..c : list[Member(I, k)] \in S
  BY <1>1, <1>2
<1> HIDE DEF c
<1>6. Sublist(list, I) = [k \in 1..c |-> list[Member(I, k)]]
  BY DEF Sublist, c
<1>7. Sublist(list, I) \in Seq(S) /\ Len(Sublist(list, I)) = c
  BY <1>5, <1>6
<1>8. \A i \in I : Sublist(list, I)[Place(I, i)] = list[i]
  BY <1>2, <1>4, <1>6
<1>9. \A k \in 1..c : Sublist(list, I)[k] = list[Member(I, k)]
  BY <1>6
<1> QED
  BY <1>2, <1>3, <1>7, <1>8, <1>9 DEF c

-----------------------------------------------------------------------------
(* The requesters of a batch *)

Entry == [r : Requester, at : Nat]

\* A batch's list within its limit, each requester once, in the order of their
\* requests, none of them after t.
Orderly(list, t) ==
  /\ list \in Seq(Entry) /\ Len(list) <= MaxPending
  /\ \A j, k \in DOMAIN list : j < k => list[j].r # list[k].r /\ list[j].at <= list[k].at
  /\ \A k \in DOMAIN list : list[k].at <= t

Batches == \A l \in LowID : Orderly(Waiting(l), now)

\* An empty list is orderly.
LEMMA EmptyOrderly == \A t : Orderly(<<>>, t)
BY NatCallbackAssumption DEF Orderly

\* Every part of an orderly list is orderly.
LEMMA SublistOrderly ==
  ASSUME NEW t, NEW list, Orderly(list, t), NEW I \in SUBSET DOMAIN list
  PROVE  Orderly(Sublist(list, I), t)
<1> DEFINE c == Cardinality(I)
           sub == Sublist(list, I)
<1>1. list \in Seq(Entry) /\ Len(list) <= MaxPending /\ MaxPending \in Nat
  BY NatCallbackAssumption DEF Orderly
<1>2. /\ sub \in Seq(Entry) /\ Len(sub) = c /\ c \in 0..Len(list)
      /\ \A k \in 1..c : Member(I, k) \in I /\ sub[k] = list[Member(I, k)]
      /\ \A j, k \in 1..c : j < k => Member(I, j) < Member(I, k)
  BY Zenon, <1>1, SublistEmbeds
<1> HIDE DEF sub, c
<1>3. Len(sub) <= MaxPending /\ DOMAIN sub = 1..c
  BY <1>1, <1>2
<1>4. \A j, k \in 1..c : j < k => sub[j].r # sub[k].r /\ sub[j].at <= sub[k].at
  <2> SUFFICES ASSUME NEW j \in 1..c, NEW k \in 1..c, j < k
               PROVE  sub[j].r # sub[k].r /\ sub[j].at <= sub[k].at
    OBVIOUS
  <2>1. /\ Member(I, j) \in DOMAIN list /\ Member(I, k) \in DOMAIN list
        /\ Member(I, j) < Member(I, k)
    BY <1>2
  <2>2. /\ list[Member(I, j)].r # list[Member(I, k)].r
        /\ list[Member(I, j)].at <= list[Member(I, k)].at
    BY Zenon, <2>1 DEF Orderly
  <2> QED BY Zenon, <1>2, <2>2
<1>5. \A k \in 1..c : sub[k].at <= t
  BY Zenon, <1>2 DEF Orderly
<1> QED BY Zenon, <1>2, <1>3, <1>4, <1>5 DEF Orderly, sub

\* Time passing keeps a list orderly.
LEMMA LaterOrderly ==
  ASSUME NEW t \in Nat, NEW u \in Nat, t <= u, NEW list, Orderly(list, t)
  PROVE  Orderly(list, u)
<1>1. \A k \in DOMAIN list : list[k].at <= t /\ list[k] \in Entry
  BY DEF Orderly
<1>2. \A k \in DOMAIN list : list[k].at <= t /\ list[k].at \in Nat
  BY Zenon, <1>1 DEF Entry
<1>3. \A k \in DOMAIN list : list[k].at <= u
  BY <1>2
<1> QED BY Zenon, <1>3 DEF Orderly

\* A requester is removed with its first entry, which is its only one.
LEMMA WithoutGone ==
  ASSUME NEW t, NEW list, Orderly(list, t), NEW r
  PROVE  Orderly(Without(list, r), t) /\ \A k \in DOMAIN Without(list, r) : Without(list, r)[k].r # r
<1> DEFINE K == {k \in DOMAIN list : list[k].r = r}
           I == {k \in DOMAIN list : k \in K => \E j \in K : j < k}
           c == Cardinality(I)
           sub == Sublist(list, I)
<1>1. list \in Seq(Entry) /\ I \in SUBSET DOMAIN list
  BY Zenon DEF Orderly
<1>2. \A k \in I : list[k].r # r
  BY Zenon DEF Orderly
<1>3. Without(list, r) = sub
  BY Zenon DEF Without, DropFirst
<1> HIDE DEF I
<1>4. /\ sub \in Seq(Entry) /\ Len(sub) = c
      /\ \A k \in 1..c : Member(I, k) \in I /\ sub[k] = list[Member(I, k)]
  BY Zenon, <1>1, SublistEmbeds
<1>5. Orderly(sub, t)
  BY Zenon, <1>1, SublistOrderly
<1> HIDE DEF sub, c
<1>6. DOMAIN sub = 1..c
  BY <1>4
<1> QED BY Zenon, <1>2, <1>3, <1>4, <1>5, <1>6

\* The youngest of an orderly list, and a requester that is not among them.
LEMMA JoinOrderly ==
  ASSUME now \in Nat, NEW list, Orderly(list, now), NEW r \in Requester,
         \A k \in DOMAIN list : list[k].r # r
  PROVE  Orderly(Append(IF Len(list) >= MaxPending
                        THEN SubSeq(list, Len(list) - MaxPending + 2, Len(list)) ELSE list,
                        [r |-> r, at |-> now]), now)
<1> DEFINE from == IF Len(list) >= MaxPending THEN Len(list) - MaxPending + 2 ELSE 1
           room == IF Len(list) >= MaxPending
                   THEN SubSeq(list, Len(list) - MaxPending + 2, Len(list)) ELSE list
           e == [r |-> r, at |-> now]
           all == Append(room, e)
<1>1. list \in Seq(Entry) /\ Len(list) <= MaxPending /\ MaxPending \in Nat \ {0}
  BY NatCallbackAssumption DEF Orderly
<1>2. Len(list) \in Nat /\ from \in Nat \ {0} /\ from <= Len(list) + 1 /\ Len(list) - from + 1 < MaxPending
  <2>1. Len(list) \in Nat
    BY <1>1
  <2>2. CASE Len(list) >= MaxPending
    <3>1. Len(list) = MaxPending /\ from = 2
      BY <1>1, <2>1, <2>2
    <3> QED BY <1>1, <2>1, <3>1
  <2>3. CASE ~(Len(list) >= MaxPending)
    <3>1. from = 1 /\ Len(list) < MaxPending
      BY <1>1, <2>1, <2>3
    <3> HIDE DEF from
    <3> QED BY <1>1, <2>1, <3>1
  <2> QED BY <2>2, <2>3
<1>3. e \in Entry /\ e.r = r /\ e.at = now
  BY DEF Entry
<1> DEFINE n == Len(list) - from + 1
<1>4. room \in Seq(Entry) /\ Len(room) = n /\ \A k \in 1..n : room[k] = list[from + k - 1]
  <2>1. CASE Len(list) >= MaxPending
    BY <1>1, <1>2, <2>1
  <2>2. CASE ~(Len(list) >= MaxPending)
    BY <1>1, <1>2, <2>2
  <2> QED BY <2>1, <2>2
<1>5. n \in Nat /\ n + 1 <= MaxPending
  BY <1>1, <1>2
<1>6. \A k \in 1..n : from + k - 1 \in DOMAIN list
  BY <1>1, <1>2
<1> HIDE DEF from, room, e
<1>7. /\ all \in Seq(Entry) /\ Len(all) = n + 1
      /\ \A k \in 1..n : all[k] = list[from + k - 1]
      /\ all[n + 1] = e
  BY <1>3, <1>4, <1>5
<1> HIDE DEF all
<1>8. \A k \in DOMAIN list : list[k].at <= now /\ list[k].at \in Nat
  <2>1. \A k \in DOMAIN list : list[k].at <= now /\ list[k] \in Entry
    BY DEF Orderly
  <2> QED BY Zenon, <2>1 DEF Entry
<1>9. \A j, k \in DOMAIN all : j < k => all[j].r # all[k].r /\ all[j].at <= all[k].at
  <2> SUFFICES ASSUME NEW j \in DOMAIN all, NEW k \in DOMAIN all, j < k
               PROVE  all[j].r # all[k].r /\ all[j].at <= all[k].at
    OBVIOUS
  <2>1. j \in 1..n /\ (k \in 1..n \/ k = n + 1)
    BY <1>5, <1>7
  <2>2. CASE k \in 1..n
    <3>1. from + j - 1 \in DOMAIN list /\ from + k - 1 \in DOMAIN list /\ from + j - 1 < from + k - 1
      BY <1>2, <1>5, <1>6, <2>1, <2>2
    <3>2. /\ list[from + j - 1].r # list[from + k - 1].r
          /\ list[from + j - 1].at <= list[from + k - 1].at
      BY Zenon, <3>1 DEF Orderly
    <3> QED BY Zenon, <1>7, <2>1, <2>2, <3>2
  <2>3. CASE k = n + 1
    BY Zenon, <1>3, <1>6, <1>7, <1>8, <2>1, <2>3
  <2> QED BY <2>1, <2>2, <2>3
<1>10. \A k \in DOMAIN all : all[k].at <= now
  <2>1. \A k \in DOMAIN all : k \in 1..n \/ k = n + 1
    BY <1>5, <1>7
  <2>2. now <= now
    OBVIOUS
  <2> QED BY Zenon, <1>3, <1>6, <1>7, <1>8, <2>1, <2>2
<1>11. Len(all) <= MaxPending
  BY <1>1, <1>5, <1>7
<1>12. Orderly(all, now)
  BY Zenon, <1>7, <1>9, <1>10, <1>11 DEF Orderly
<1> QED BY Zenon, <1>12 DEF all, room, e

\* The entries within the window of an orderly list are orderly.
LEMMA LiveOrderly ==
  ASSUME NEW t, NEW list, Orderly(list, t)
  PROVE  Orderly(LiveForeign(list), t)
BY Zenon, SublistOrderly DEF LiveForeign

\* The sweep leaves orderly batches.
LEMMA SweptOrderly ==
  ASSUME TimerInv, Batches, NEW l \in LowID
  PROVE  Orderly(IF SweptForeign[l] = None THEN <<>> ELSE SweptForeign[l].list, now)
<1> DEFINE live == IF foreign[l] = None THEN <<>> ELSE LiveForeign(foreign[l].list)
<1>1. SweptForeign[l] = IF ~SweepDue THEN foreign[l]
                        ELSE IF live = <<>> THEN None ELSE [foreign[l] EXCEPT !.list = live]
  BY Zenon DEF SweptForeign
<1>2. Orderly(Waiting(l), now) /\ Orderly(<<>>, now)
  BY Zenon, EmptyOrderly DEF Batches
<1>3. CASE ~SweepDue
  BY Zenon, <1>1, <1>2, <1>3 DEF Waiting
<1>4. CASE SweepDue /\ SweptForeign[l] = None
  BY Zenon, <1>2, <1>4
<1>5. CASE SweepDue /\ SweptForeign[l] # None
  <2>1. SweptForeign[l] = [foreign[l] EXCEPT !.list = live] /\ foreign[l] # None
    BY <1>1, <1>5
  <2>2. foreign[l] = Batch(l)
    BY Zenon, <2>1 DEF TimerInv, Generations
  <2>3. live = LiveForeign(foreign[l].list) /\ Waiting(l) = foreign[l].list
    BY Zenon, <2>1 DEF Waiting
  <2>4. Orderly(live, now)
    BY Zenon, <1>2, <2>3, LiveOrderly
  <2> HIDE DEF live
  <2>5. SweptForeign[l].list = live
    BY <2>1, <2>2 DEF Batch
  <2> QED BY Zenon, <1>5, <2>4, <2>5
<1> QED BY <1>3, <1>4, <1>5

\* A request leaves its target's batch orderly, and the others as the sweep does.
LEMMA AddOrderly ==
  ASSUME TimerInv, Batches, now \in Nat, NEW r \in Requester, NEW l \in LowID, AddForeign(r, l)
  PROVE  \A m \in LowID : Orderly(Waiting(m)', now)
<1> DEFINE w == SweptForeign[l]
           live == IF w = None THEN <<>> ELSE LiveForeign(w.list)
           kept == Without(live, r)
           room == IF Len(kept) >= MaxPending
                   THEN SubSeq(kept, Len(kept) - MaxPending + 2, Len(kept)) ELSE kept
           all == Append(room, [r |-> r, at |-> now])
<1>1. PICK g : foreign' = [SweptForeign EXCEPT ![l] = [gen |-> g, list |-> all]]
  BY Zenon DEF AddForeign
<1>2. Orderly(live, now)
  BY Zenon, SweptOrderly, LiveOrderly, EmptyOrderly
<1> HIDE DEF live
<1>3. Orderly(kept, now) /\ \A k \in DOMAIN kept : kept[k].r # r
  BY Zenon, <1>2, WithoutGone
<1> HIDE DEF kept
<1>4. Orderly(all, now)
  BY Zenon, <1>3, JoinOrderly
<1> HIDE DEF all
<1>5. foreign'[l] = [gen |-> g, list |-> all] /\ \A m \in LowID \ {l} : foreign'[m] = SweptForeign[m]
  BY <1>1, SweptBatches
<1>6. foreign'[l].list = all
  BY <1>5
<1>7. Waiting(l)' \in {<<>>, all}
  BY Zenon, <1>6 DEF Waiting
<1>8. Orderly(Waiting(l)', now)
  BY Zenon, <1>4, <1>7, EmptyOrderly
<1>9. \A m \in LowID \ {l} : Orderly(Waiting(m)', now)
  BY Zenon, <1>5, SweptOrderly DEF Waiting
<1> QED BY Zenon, <1>8, <1>9

\* Every step leaves the batches orderly.
LEMMA BatchesStep ==
  ASSUME SessionInv, TimerInv, Batches, [Next]_vars
  PROVE  Batches'
<1>0. now \in Nat /\ Generations
  <2>1. now \in 0..MaxTime
    BY Zenon DEF SessionInv, TypeOK
  <2> QED BY <2>1, NatCallbackAssumption DEF TimerInv
<1>1. ASSUME NEW l \in LowID PROVE Orderly(Waiting(l), now) /\ Orderly(<<>>, now)
  BY Zenon, EmptyOrderly DEF Batches
<1>2. ASSUME foreign' = foreign, now' = now PROVE Batches'
  BY Zenon, <1>1, <1>2 DEF Batches, Waiting
<1>3. ASSUME NEW m, foreign' = [foreign EXCEPT ![m] = None], now' = now PROVE Batches'
  <2>1. \A l \in LowID : foreign'[l] \in {None, foreign[l]}
    BY <1>0, <1>3 DEF Generations
  <2> QED BY Zenon, <1>1, <1>3, <2>1 DEF Batches, Waiting
<1>4. CASE Tick
  <2>1. now' = now + 1 /\ foreign' = foreign
    BY Zenon, <1>4 DEF Tick, waits
  <2>2. now' \in Nat /\ now <= now'
    BY <1>0, <2>1
  <2>3. \A l \in LowID : Orderly(Waiting(l), now')
    BY Zenon, <1>0, <1>1, <2>2, LaterOrderly
  <2> QED BY Zenon, <2>1, <2>3 DEF Batches, Waiting
<1>5. CASE UNCHANGED vars
  BY Zenon, <1>2, <1>5 DEF vars, waits
<1>6. CASE SessionStep
  <2>1. foreign' = foreign /\ now' = now
    BY Zenon, <1>6 DEF SessionStep, Register, WantToken, SetToken, DropSession, Unregister, waits
  <2> QED BY Zenon, <1>2, <2>1
<1>7. CASE Arrive
  <2>1. ASSUME NEW r \in Requester, NEW l \in LowID, ForeignRequest(r, l) PROVE Batches'
    <3>1. AddForeign(r, l) /\ now' = now
      BY Zenon, <2>1 DEF ForeignRequest
    <3> QED BY Zenon, <1>0, <3>1, AddOrderly DEF Batches
  <2>2. ASSUME NEW c \in Client, Request(c) PROVE Batches'
    BY Zenon, <1>2, <2>2 DEF Request, waits
  <2>3. ASSUME NEW w \in Worker, NEW c \in Client, NEW a \in IP, NEW obf \in BOOLEAN, NEW p \in 0..MaxProof,
               Receive(w, c, a, obf, p)
        PROVE  Batches'
    BY Zenon, <1>2, <2>3 DEF Receive, waits
  <2> QED BY Zenon, <1>7, <2>1, <2>2, <2>3 DEF Arrive
<1>8. CASE TimerStep
  <2> PICK t \in timers : TakeForeignGen(t) \/ ViewTarget(t) \/ FallbackSend(t)
    BY Zenon, <1>8 DEF TimerStep
  <2>1. now' = now /\ (foreign' = foreign \/ foreign' = [foreign EXCEPT ![t.l] = None])
    BY Zenon DEF TakeForeignGen, ViewTarget, FallbackSend
  <2> QED BY Zenon, <1>2, <1>3, <2>1
<1>9. ASSUME NEW w \in Worker, WorkerStep(w) PROVE Batches'
  <2>1. CASE CheckKeepalive(w)
    BY Zenon, <1>2, <2>1 DEF CheckKeepalive, waits
  <2>2. CASE RememberKeepalive(w)
    <3>1. foreign' = SweptForeign /\ now' = now
      BY Zenon, <2>2 DEF RememberKeepalive
    <3> QED BY Zenon, <3>1, SweptOrderly DEF Batches, Waiting
  <2>3. CASE TakeForeign(w)
    BY Zenon, <1>3, <2>3 DEF TakeForeign
  <2> QED BY Zenon, <1>9, <2>1, <2>2, <2>3 DEF WorkerStep
<1> QED BY Zenon, <1>4, <1>5, <1>6, <1>7, <1>8, <1>9 DEF Next

\* Both invariants together.
CallbackInv == SessionInv /\ TimerInv

\* The whole invariant is inductive.
LEMMA CallbackStep == ASSUME CallbackInv, [Next]_vars PROVE CallbackInv'
<1>0. SessionInv /\ TimerInv /\ Generations
  BY Zenon DEF CallbackInv, TimerInv
<1>1. ASSUME UNCHANGED waits PROVE TimerInv'
  <2>1. UNCHANGED <<foreign, foreignGen, timers>>
    BY Zenon, <1>1 DEF waits
  <2> QED BY Zenon, <1>0, <2>1, TimerQuiet DEF Generations, Batch
<1>2. CASE Tick \/ UNCHANGED vars
  <2>1. UNCHANGED waits
    BY Zenon, <1>2 DEF Tick, vars
  <2> QED BY Zenon, <1>0, <1>1, <1>2, <2>1, TickSession DEF CallbackInv
<1>3. CASE SessionStep
  <2>1. UNCHANGED waits
    BY Zenon, <1>3 DEF SessionStep, Register, WantToken, SetToken, DropSession, Unregister
  <2> QED BY Zenon, <1>0, <1>1, <1>3, <2>1, SessionStepInv DEF CallbackInv
<1>4. CASE Arrive
  <2>1. ASSUME NEW r \in Requester, NEW l \in LowID, ForeignRequest(r, l) PROVE TimerInv'
    BY Zenon, <1>0, <2>1, AddTimer DEF ForeignRequest
  <2>2. TimerInv'
    BY Zenon, <1>1, <1>4, <2>1 DEF Arrive, Request, Receive
  <2> QED BY Zenon, <1>0, <1>4, <2>2, ArriveSession DEF CallbackInv
<1>5. ASSUME NEW t \in timers, TakeForeignGen(t) \/ ViewTarget(t) \/ FallbackSend(t) PROVE CallbackInv'
  <2>1. t.l \in LowID
    BY Zenon, <1>0 DEF Generations, IsTimer
  <2> QED BY Zenon, <1>0, <1>5, <2>1, TimerSession, FallbackTimer DEF CallbackInv
<1>6. ASSUME NEW w \in Worker, CheckKeepalive(w) PROVE CallbackInv'
  <2>1. UNCHANGED waits
    BY Zenon, <1>6 DEF CheckKeepalive
  <2> QED BY Zenon, <1>0, <1>1, <1>6, <2>1, CheckSession DEF CallbackInv
<1>7. ASSUME NEW w \in Worker, RememberKeepalive(w) PROVE CallbackInv'
  <2>1. foreign' = SweptForeign /\ UNCHANGED <<foreignGen, timers>>
    BY Zenon, <1>7 DEF RememberKeepalive
  <2>2. TimerInv'
    BY Zenon, <1>0, <2>1, SweptBatches, TimerQuiet
  <2> QED BY Zenon, <1>0, <1>7, <2>2, RememberSession DEF CallbackInv
<1>8. ASSUME NEW w \in Worker, TakeForeign(w) PROVE CallbackInv'
  <2>1. foreign' = [foreign EXCEPT ![work[w].l] = None] /\ UNCHANGED <<foreignGen, timers>>
    BY Zenon, <1>8 DEF TakeForeign
  <2>2. /\ foreign' = [l \in LowID |-> foreign'[l]]
        /\ \A l \in LowID : foreign'[l] # None => foreign'[l] = foreign[l]
    BY <1>0, <2>1 DEF Generations
  <2>3. TimerInv'
    BY Zenon, <1>0, <2>1, <2>2, TimerQuiet DEF Generations, Batch
  <2> QED BY Zenon, <1>0, <1>8, <2>3, TakeSession DEF CallbackInv
<1> QED BY Zenon, <1>2, <1>3, <1>4, <1>5, <1>6, <1>7, <1>8 DEF Next, TimerStep, WorkerStep

-----------------------------------------------------------------------------
\* A proof is believed once, however the network copies or reorders keepalives,
\* also while the session is released or gets its token after its release.
THEOREM ProofOnceCorrect == Spec => []ProofOnce
<1>1. Init => CallbackInv
  BY Zenon, SessionInit, TimerInit DEF CallbackInv
<1>2. CallbackInv /\ [Next]_vars => CallbackInv'
  BY Zenon, CallbackStep
<1>3. CallbackInv => ProofOnce
  BY Zenon DEF CallbackInv, SessionInv
<1> QED BY <1>1, <1>2, <1>3, PTL DEF Spec

\* Whoever is told an endpoint, by a keepalive or by a fallback, is told the address
\* the session connected from or one its token proved, whichever session held
\* the LowID before.
THEOREM ToldOwnEndpointCorrect == Spec => []ToldOwnEndpoint
<1>1. Init => CallbackInv
  BY Zenon, SessionInit, TimerInit DEF CallbackInv
<1>2. CallbackInv /\ [Next]_vars => CallbackInv'
  BY Zenon, CallbackStep
<1>3. CallbackInv => ToldOwnEndpoint
  BY Zenon DEF CallbackInv, SessionInv
<1> QED BY <1>1, <1>2, <1>3, PTL DEF Spec

\* No requester is left waiting on nothing: the types hold, a batch that waits has
\* exactly one timer to fire, whatever answers, repeats, expiries and fallbacks came
\* before, and it holds at most MaxPending requesters, each once, in the order of
\* their last request.
THEOREM BatchesSoundCorrect == Spec => []BatchesSound
<1> DEFINE Inv == CallbackInv /\ Batches
<1>1. Init => Inv
  <2> SUFFICES ASSUME Init PROVE Inv
    OBVIOUS
  <2>1. \A l \in LowID : Waiting(l) = <<>>
    BY Zenon DEF Init, Waiting
  <2> QED BY Zenon, <2>1, SessionInit, TimerInit, EmptyOrderly DEF CallbackInv, Batches
<1>2. Inv /\ [Next]_vars => Inv'
  BY Zenon, CallbackStep, BatchesStep DEF CallbackInv
<1>3. Inv => BatchesSound
  BY Zenon DEF CallbackInv, SessionInv, TimerInv, Batches, Orderly, BatchesSound
<1> QED BY <1>1, <1>2, <1>3, PTL DEF Spec
==============================================================================
