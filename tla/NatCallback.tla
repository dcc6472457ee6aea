----------------------------- MODULE NatCallback -----------------------------
(***************************************************************************)
(* The callback between firewalled clients (ed2k/natcallback.go): the      *)
(* requests of clients that are not logged in here ("foreign"), their wait *)
(* for the target's keepalive, the fallback timer of each batch of waiting *)
(* requesters, the keepalives with their token proofs, and the state of a  *)
(* session that login creates and release drops.                           *)
(*                                                                         *)
(* Keepalives are handled by the UDP workers, logins and releases by the   *)
(* connections' goroutines and fallbacks by timers, all concurrently; a    *)
(* step is what runs under natCallbackState.mu, or one look at the session *)
(* tables.  Every session has the extension.  The rate limits only refuse, *)
(* which is a request that does not happen.  A port is left out: an        *)
(* endpoint is an address.                                                 *)
(***************************************************************************)
EXTENDS Integers, Sequences, FiniteSets, Sublists

CONSTANTS Client,     \* sessions (tcpClient)
          LowID,
          IP,         \* addresses sessions connect from and keepalives come from
          Requester,  \* foreign requesters: an address and a port
          Worker,     \* UDP workers
          None,
          MaxPending, \* natForeignMaxPerTarget
          Fallback,   \* natForeignFallback
          Window,     \* natCallbackWindow
          TTL,        \* natKeepaliveTTL
          MaxTime,    \* bound: the clock
          MaxPackets, \* bound: datagrams that arrive
          MaxProof    \* bound: the proof counters a client uses

ASSUME NatCallbackAssumption ==
    /\ MaxPending \in Nat \ {0} /\ Fallback \in Nat /\ Window \in Nat /\ TTL \in Nat
    /\ MaxTime \in Nat /\ MaxPackets \in Nat /\ MaxProof \in Nat
    /\ None \notin Client

VARIABLES now,
          login,     \* where each session's login stands
          rel,       \* where its release stands
          id,        \* its LowID
          ip,        \* the address it connected from
          holder,    \* LowIDs: the session each LowID belongs to
          recent,    \* the last accepted request of a LowID's own
          lastSweep, \* when recent was last swept
          foreign,   \* the requesters waiting for a LowID
          foreignGen,
          foreignSweep, \* when foreign and keepalives were last swept
          timers,    \* the fallback timers
          keepalives,\* the last stored keepalive of a LowID
          sessions,  \* natSessionState of the sessions that have one
          work,      \* the keepalive each worker is handling
          packets,   \* the datagrams that have arrived
          proofs,    \* history: the proofs believed, in order
          told       \* the notices of the last step
tables == <<login, rel, id, ip, holder>>
asked == <<recent, lastSweep>>
waits == <<foreign, foreignGen, foreignSweep, timers>>
vars == <<now, packets, tables, asked, waits, keepalives, sessions, work, proofs, told>>

Idle == [st |-> "idle"]
NoState == [has |-> FALSE, token |-> FALSE, counter |-> 0, obfuscated |-> FALSE]

Silent == told' = {}

\* Bound: one more datagram.
Packet == packets < MaxPackets /\ packets' = packets + 1

Init ==
    /\ now = 0 /\ packets = 0
    /\ login = [c \in Client |-> "new"] /\ rel = [c \in Client |-> "no"]
    /\ id = [c \in Client |-> None] /\ ip = [c \in Client |-> None]
    /\ holder = [l \in LowID |-> None]
    /\ recent = [l \in LowID |-> None] /\ lastSweep = -Window /\ foreignSweep = -Window
    /\ foreign = [l \in LowID |-> None] /\ foreignGen = 0 /\ timers = {}
    /\ keepalives = [l \in LowID |-> None]
    /\ sessions = [c \in Client |-> NoState]
    /\ work = [w \in Worker |-> Idle]
    /\ proofs = <<>> /\ told = {}

\* Bound: time that nothing kept depends on is not counted.
Tick ==
    /\ now < MaxTime /\ now' = now + 1
    /\ \E l \in LowID : recent[l] # None \/ foreign[l] # None \/ keepalives[l] # None
    /\ UNCHANGED <<packets, tables, asked, waits, keepalives, sessions, work, proofs>> /\ Silent

----------------------------------------------------------------------------
(* Login and release *)

\* A session holds its LowID, is logged in and is indexed by its hash.
Register(c, l, a) ==
    /\ login[c] = "new" /\ holder[l] = None
    /\ login' = [login EXCEPT ![c] = "registered"]
    /\ id' = [id EXCEPT ![c] = l] /\ ip' = [ip EXCEPT ![c] = a]
    /\ holder' = [holder EXCEPT ![l] = c]
    /\ UNCHANGED <<now, packets, rel, asked, waits, keepalives, sessions, work, proofs>> /\ Silent

\* issueNatToken has read under infoMu that the session wants a token.
WantToken(c) ==
    /\ login[c] = "registered"
    /\ login' = [login EXCEPT ![c] = "token"]
    /\ UNCHANGED <<now, packets, rel, id, ip, holder, asked, waits, keepalives, sessions, work,
                   proofs>> /\ Silent

SetToken(c) ==
    /\ login[c] = "token"
    /\ login' = [login EXCEPT ![c] = "up"]
    /\ sessions' = [sessions EXCEPT ![c] = [NoState EXCEPT !.has = TRUE, !.token = TRUE]]
    /\ UNCHANGED <<now, packets, rel, id, ip, holder, asked, waits, keepalives, work, proofs>> /\ Silent

\* releaseSession, by the session's own goroutine or by one that replaces it: the
\* 0x9F state goes first, the LowID and the hash index after it.
DropSession(c) ==
    /\ login[c] # "new" /\ rel[c] = "no"
    /\ rel' = [rel EXCEPT ![c] = "dropped"]
    /\ sessions' = [sessions EXCEPT ![c] = NoState]
    /\ UNCHANGED <<now, packets, login, id, ip, holder, asked, waits, keepalives, work, proofs>> /\ Silent

Unregister(c) ==
    /\ rel[c] = "dropped"
    /\ rel' = [rel EXCEPT ![c] = "done"]
    /\ holder' = [holder EXCEPT ![id[c]] = None]
    /\ UNCHANGED <<now, packets, login, id, ip, asked, waits, keepalives, sessions, work, proofs>> /\ Silent

----------------------------------------------------------------------------
(* Requests *)

\* A logged-in client's own request is remembered as its UDP endpoint; what it is
\* told itself depends on nothing kept here.
Request(c) ==
    LET due == now - lastSweep >= Window
        old == [l \in LowID |-> IF due /\ recent[l] # None /\ now - recent[l].at > Window
                                THEN None ELSE recent[l]]
    IN /\ Packet /\ id[c] # None /\ holder[id[c]] = c
       /\ recent' = [old EXCEPT ![id[c]] = [ip |-> ip[c], at |-> now]]
       /\ lastSweep' = IF due THEN now ELSE lastSweep
       /\ UNCHANGED <<now, tables, waits, keepalives, sessions, work, proofs>> /\ Silent

LiveForeign(list) == Sublist(list, {k \in DOMAIN list : now - list[k].at <= Window})

\* The list without its first entry of requester r.
Without(list, r) == DropFirst(list, {k \in DOMAIN list : list[k].r = r})

\* sweepLocked, at most once per window: what is left of the waiting requesters
\* and of the keepalives.
SweepDue == now - foreignSweep >= Window
SweptForeign ==
    [l \in LowID |-> LET live == IF foreign[l] = None THEN <<>> ELSE LiveForeign(foreign[l].list) IN
                     IF ~SweepDue THEN foreign[l]
                     ELSE IF live = <<>> THEN None ELSE [foreign[l] EXCEPT !.list = live]]
SweptKeepalives ==
    [l \in LowID |-> IF SweepDue /\ keepalives[l] # None /\ now - keepalives[l].at > TTL
                     THEN None ELSE keepalives[l]]
SweepTime == IF SweepDue THEN now ELSE foreignSweep

\* The fallback timer of a batch.
Timer(l, gen) == [l |-> l, gen |-> gen, due |-> now + Fallback, st |-> "armed", list |-> <<>>, c |-> None]

\* Faulty: an expired batch is taken for a live one.
AddForeign_FirstOnly(r, l) ==
    LET w     == foreign[l]
        first == w = None
        gen   == IF first THEN foreignGen + 1 ELSE w.gen
        kept  == Without(IF first THEN <<>> ELSE LiveForeign(w.list), r)
    IN /\ foreign' = [foreign EXCEPT ![l] = [gen |-> IF kept = <<>> THEN foreignGen + 1 ELSE gen,
                                             list |-> Append(kept, [r |-> r, at |-> now])]]
       /\ foreignGen' = IF kept = <<>> THEN foreignGen + 1 ELSE foreignGen
       /\ timers' = IF first THEN timers \cup {Timer(l, gen)} ELSE timers

\* A requester joins the target's batch, once and at the end, in the place of the
\* oldest when the batch is full; the first of a batch arms its timer.
AddForeign(r, l) ==
    LET w     == SweptForeign[l]
        live  == IF w = None THEN <<>> ELSE LiveForeign(w.list)
        first == live = <<>>
        gen   == IF first THEN foreignGen + 1 ELSE w.gen
        kept  == Without(live, r)
        room  == IF Len(kept) >= MaxPending
                 THEN SubSeq(kept, Len(kept) - MaxPending + 2, Len(kept)) ELSE kept
    IN /\ foreign' = [SweptForeign EXCEPT ![l] = [gen |-> gen, list |-> Append(room, [r |-> r, at |-> now])]]
       /\ foreignGen' = IF first THEN gen ELSE foreignGen
       /\ timers' = IF first THEN timers \cup {Timer(l, gen)} ELSE timers

\* Bound: the clock reaches the timer of every request.
ForeignRequest(r, l) ==
    /\ Packet /\ holder[l] # None /\ now + Fallback <= MaxTime
    /\ AddForeign(r, l)
    /\ foreignSweep' = SweepTime /\ keepalives' = SweptKeepalives
    /\ UNCHANGED <<now, tables, asked, sessions, work, proofs>> /\ Silent

Tell(l, list, c, e) ==
    told' = {[r |-> list[k].r, l |-> l, c |-> c, ip |-> e.ip, proven |-> e.proven] :
                k \in DOMAIN list}

----------------------------------------------------------------------------
(* Keepalives: a worker finds the session, checks, stores and answers *)

\* proof = 0 is a keepalive without one.  The datagram may be a copy of an
\* earlier one, or come late.
Receive(w, c, a, obf, proof) ==
    /\ Packet /\ work[w] = Idle
    /\ id[c] # None /\ holder[id[c]] = c
    /\ work' = [work EXCEPT ![w] = [st |-> "check", c |-> c, l |-> id[c], ip |-> a,
                                    obf |-> obf, proof |-> proof, proven |-> FALSE]]
    /\ UNCHANGED <<now, tables, asked, waits, keepalives, sessions, proofs>> /\ Silent

\* Faulty: an old counter is believed again.
Ignored_Replays(w) ==
    LET k == work[w]
        s == sessions[k.c]
    IN \/ k.proof > 0 /\ ~s.token
       \/ ~k.obf /\ k.proof = 0 /\ s.obfuscated
       \/ k.ip # ip[k.c] /\ k.proof = 0

\* Why checkKeepalive does not believe a keepalive: a proof without a token or
\* with an old counter, a plain one after an obfuscated one, a strange address.
Ignored(w) ==
    LET k == work[w]
        s == sessions[k.c]
    IN \/ k.proof > 0 /\ (~s.token \/ k.proof <= s.counter)
       \/ ~k.obf /\ k.proof = 0 /\ s.obfuscated
       \/ k.ip # ip[k.c] /\ k.proof = 0

CheckKeepalive(w) ==
    LET k == work[w]
        s == sessions[k.c]
    IN /\ k.st = "check"
       /\ IF Ignored(w)
          THEN work' = [work EXCEPT ![w] = Idle] /\ UNCHANGED <<sessions, proofs>>
          ELSE /\ sessions' = [sessions EXCEPT ![k.c] =
                      IF ~s.has /\ ~k.obf THEN s
                      ELSE [s EXCEPT !.has = TRUE, !.counter = IF k.proof > 0 THEN k.proof ELSE @,
                                     !.obfuscated = @ \/ k.obf]]
               /\ work' = [work EXCEPT ![w].st = "store",
                                       ![w].proven = k.proof > 0 /\ k.ip # ip[k.c]]
               /\ proofs' = IF k.proof = 0 THEN proofs
                            ELSE Append(proofs, [c |-> k.c, ip |-> k.ip, proof |-> k.proof])
       /\ UNCHANGED <<now, packets, tables, asked, waits, keepalives>> /\ Silent

RememberKeepalive(w) ==
    LET k == work[w] IN
    /\ k.st = "store"
    /\ keepalives' = [SweptKeepalives EXCEPT ![k.l] =
                         [ip |-> k.ip, at |-> now, owner |-> k.c, proven |-> k.proven]]
    /\ foreign' = SweptForeign /\ foreignSweep' = SweepTime
    /\ work' = [work EXCEPT ![w].st = "take"]
    /\ UNCHANGED <<now, packets, tables, asked, foreignGen, timers, sessions, proofs>> /\ Silent

\* takeForeign, and the notices.
TakeForeign(w) ==
    LET k == work[w] IN
    /\ k.st = "take"
    /\ Tell(k.l, IF foreign[k.l] = None THEN <<>> ELSE LiveForeign(foreign[k.l].list), k.c, k)
    /\ foreign' = [foreign EXCEPT ![k.l] = None]
    /\ work' = [work EXCEPT ![w] = Idle]
    /\ UNCHANGED <<now, packets, tables, asked, foreignGen, foreignSweep, timers, keepalives, sessions, proofs>>

----------------------------------------------------------------------------
(* The fallback timer of a batch *)

Retime(t, u) == timers' = (timers \ {t}) \cup u

\* A batch answered since, or a later batch, is left alone.
TakeForeignGen(t) ==
    /\ t.st = "armed" /\ now >= t.due
    /\ IF foreign[t.l] # None /\ foreign[t.l].gen = t.gen
       THEN /\ Retime(t, {[t EXCEPT !.st = "taken", !.list = LiveForeign(foreign[t.l].list)]})
            /\ foreign' = [foreign EXCEPT ![t.l] = None]
       ELSE Retime(t, {}) /\ UNCHANGED foreign
    /\ UNCHANGED <<now, packets, tables, asked, foreignGen, foreignSweep, keepalives, sessions, work, proofs>> /\ Silent

ViewTarget(t) ==
    /\ t.st = "taken"
    /\ Retime(t, IF t.list = <<>> \/ holder[t.l] = None THEN {}
                 ELSE {[t EXCEPT !.st = "viewed", !.c = holder[t.l]]})
    /\ UNCHANGED <<now, packets, tables, asked, foreign, foreignGen, foreignSweep, keepalives, sessions, work,
                   proofs>> /\ Silent

Recent(l, c) == recent[l] # None /\ now - recent[l].at <= Window /\ recent[l].ip = ip[c]

\* Faulty: an earlier holder's endpoint counts.
Kept_AnyOwner(l, c) ==
    LET e == keepalives[l] IN
    e # None /\ now - e.at <= TTL

\* The last keepalive counts when this session sent it, from its own address or
\* from one its token proved.
Kept(l, c) ==
    LET e == keepalives[l] IN
    e # None /\ now - e.at <= TTL /\ e.owner = c /\ (e.ip = ip[c] \/ e.proven)

FallbackSend(t) ==
    /\ t.st = "viewed"
    /\ CASE Recent(t.l, t.c) -> Tell(t.l, t.list, t.c, [ip |-> recent[t.l].ip, proven |-> FALSE])
         [] ~Recent(t.l, t.c) /\ Kept(t.l, t.c) -> Tell(t.l, t.list, t.c, keepalives[t.l])
         [] OTHER -> Silent
    /\ Retime(t, {})
    /\ UNCHANGED <<now, packets, tables, asked, foreign, foreignGen, foreignSweep, keepalives, sessions, work, proofs>>

----------------------------------------------------------------------------

SessionStep ==
    \/ \E c \in Client, l \in LowID, a \in IP : Register(c, l, a)
    \/ \E c \in Client : WantToken(c) \/ SetToken(c) \/ DropSession(c) \/ Unregister(c)
WorkerStep(w) == CheckKeepalive(w) \/ RememberKeepalive(w) \/ TakeForeign(w)
TimerStep == \E t \in timers : TakeForeignGen(t) \/ ViewTarget(t) \/ FallbackSend(t)
Arrive ==
    \/ \E c \in Client : Request(c)
    \/ \E r \in Requester, l \in LowID : ForeignRequest(r, l)
    \/ \E w \in Worker, c \in Client, a \in IP, obf \in BOOLEAN, p \in 0..MaxProof :
          Receive(w, c, a, obf, p)

Next == Tick \/ SessionStep \/ Arrive \/ TimerStep \/ \E w \in Worker : WorkerStep(w)

Spec == Init /\ [][Next]_vars

----------------------------------------------------------------------------
(* Properties *)

Waiting(l) == IF foreign[l] = None THEN <<>> ELSE foreign[l].list

\* The tables have their types, and a LowID's holder has that LowID.
TypeOK ==
    /\ now \in 0..MaxTime /\ foreignGen \in 0..packets /\ packets \in 0..MaxPackets
    /\ login \in [Client -> {"new", "registered", "token", "up"}]
    /\ rel \in [Client -> {"no", "dropped", "done"}]
    /\ holder \in [LowID -> Client \cup {None}]
    /\ sessions \in [Client -> [has : BOOLEAN, token : BOOLEAN, counter : 0..MaxProof,
                                obfuscated : BOOLEAN]]
    /\ \A l \in LowID : holder[l] # None => id[holder[l]] = l

\* While a batch waits, exactly one timer of that batch is still to fire.
Timed ==
    \A l \in LowID : foreign[l] # None =>
         Cardinality({t \in timers : t.l = l /\ t.gen = foreign[l].gen /\ t.st = "armed"}) = 1

\* No requester is left waiting on nothing: while a batch waits, exactly one timer
\* of that batch is still to fire, whatever keepalives, repeats and expiries did to
\* the target's earlier batches (addForeign); and a batch holds at most MaxPending
\* requesters, each once, in the order of their last request.
BatchesSound ==
    /\ TypeOK /\ Timed
    /\ \A l \in LowID :
         LET list == Waiting(l) IN
         /\ Len(list) <= MaxPending
         /\ \A j, k \in DOMAIN list : j < k => list[j].r # list[k].r /\ list[j].at <= list[k].at

\* A proof is believed once, however the network copies or reorders it: the proof
\* counters believed of a session rise.
ProofOnce ==
    \A j, k \in DOMAIN proofs :
        j < k /\ proofs[j].c = proofs[k].c => proofs[j].proof < proofs[k].proof

\* Whoever is told an endpoint is told one of the session it is told about: the
\* address that session connected from, or one its token proved.
ToldOwnEndpoint ==
    \A n \in told :
        \/ n.ip = ip[n.c]
        \/ /\ n.proven
           /\ \E k \in DOMAIN proofs : proofs[k].c = n.c /\ proofs[k].ip = n.ip
=============================================================================
