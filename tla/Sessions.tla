------------------------------ MODULE Sessions ------------------------------
(***************************************************************************)
(* The life of the TCP sessions of one server process: accept, login,      *)
(* duplicate-login arbitration, handshake, offers and release, as          *)
(* ed2k/server_runtime.go runs them, one goroutine per connection.         *)
(*                                                                         *)
(* Every step below is a stretch of one goroutine between two points where *)
(* another goroutine can observe or change what it works on: a call into   *)
(* the storage engine, a table behind a mutex, a dial-back, a wait.  What  *)
(* a goroutine read at one step is used at a later one exactly where the   *)
(* code does so.                                                           *)
(***************************************************************************)
EXTENDS Integers, FiniteSets, Sequences

CONSTANTS
  Conn,        \* the connections ever accepted
  Hash,        \* user hashes
  Addr4,       \* IPv4 peer addresses
  Addr6,       \* IPv6 peer endpoints: address with the client's listen port
  LowID,       \* the IDs of the LowID pool
  RequestID,   \* what a login request may carry as the client's own ID
  Ed3kConn,    \* connections whose login names the ed3k node (CT_ED3K)
  MaxEd3kClaims, \* maxEd3kClaims
  ConnLimits,  \* the values a reload may give tcp.maxConnsPerIP, 0 for no limit
  MaxLogins,   \* bound: OP_LOGINREQUEST packets per connection
  RowPerHash,  \* TRUE: MySQL/MongoDB, one row per hash; FALSE: memory engine
  StoreFails,  \* TRUE: statements of the database may fail
  None

Addr == Addr4 \cup Addr6

ASSUME ConstantsOK ==
  /\ IsFiniteSet(Conn)
  /\ Addr4 \cap Addr6 = {}
  /\ LowID \cap Addr = {}
  /\ None \notin Conn \cup Hash \cup Addr \cup LowID
  /\ None \in RequestID
  /\ Ed3kConn \subseteq Conn /\ MaxEd3kClaims \in Nat \ {0}
  /\ ConnLimits \subseteq Nat /\ MaxLogins \in Nat
  /\ RowPerHash \in BOOLEAN /\ StoreFails \in BOOLEAN
  /\ StoreFails => RowPerHash

VARIABLES
  \* one tcpClient each
  pc,        \* where the connection's goroutine stands
  peer,      \* peerIP
  open,      \* whether the socket is open on the server's side
  logins,    \* login requests read so far
  hash,      \* info.Hash
  id,        \* info.ID
  claim,     \* info.IPv6 with info.Port: the endpoint a dual-stack client claims
  logged,    \* logged
  hasLowID,  \* hasLowID
  target,    \* the session the goroutine is releasing or probing
  ret,       \* where it goes on once that is done
  rel,       \* releaseOnce: who runs the release, how far it is, its snapshot
  \* ServerRuntime
  sessionsByHash, handshaking, lowIDs, connsPerIP,
  sessionsByEd3k,  \* the sessions that claim the one ed3k node ID, oldest first
  \* the storage engine
  rows,           \* online client rows: <<hash, the session that wrote it>>
  clientsByHash,  \* hash to the row a lookup by hash finds
  sources         \* sessions with published sources

session == <<pc, peer, open, logins, hash, id, claim, logged, hasLowID, target, ret, rel>>
runtime == <<sessionsByHash, handshaking, lowIDs, connsPerIP, sessionsByEd3k>>
store   == <<rows, clientsByHash, sources>>
vars    == <<session, runtime, store>>

-----------------------------------------------------------------------------
\* The storage engine, as the login path sees it.

\* IsConnected: a database that cannot answer counts as "no".
IsConnected(h) == {clientsByHash[h] # None} \cup (IF StoreFails THEN {FALSE} ELSE {})

\* Connect: the memory engine gives every session a row of its own, the DB
\* engines upsert the one row of the hash.
Connect(c, h) ==
  /\ rows' = {r \in rows : RowPerHash => r[1] # h} \cup {<<h, c>>}
  /\ clientsByHash' = [clientsByHash EXCEPT ![h] = c]

\* Faulty variant: a session the hash index no longer names is taken for gone.
Disconnect_OnlyIndexed(c, h) ==
  IF clientsByHash[h] # c THEN UNCHANGED store
  ELSE /\ rows' = rows \ {<<h, c>>}
       /\ clientsByHash' = [clientsByHash EXCEPT ![h] = None]
       /\ sources' = sources \ {c}

\* Faulty variant: the row is looked up by hash, not by StoreID.
Disconnect_ByHash(c, h) ==
  LET d == clientsByHash[h]
  IN  /\ rows' = rows \ {<<h, d>>}
      /\ clientsByHash' = [clientsByHash EXCEPT ![h] = None]
      /\ sources' = sources \ {d}

\* Disconnect(info) of session c: by StoreID in the memory engine, which
\* leaves a newer session of the hash alone; the one row of the hash and its
\* sources in a DB engine, where either statement may fail and is only logged.
Disconnect(c, h) ==
  LET gone == IF RowPerHash THEN {d \in Conn : hash[d] = h} ELSE {c}
  IN  /\ \/ /\ rows' = {r \in rows : ~(r[1] = h /\ (RowPerHash \/ r[2] = c))}
            /\ clientsByHash' = IF RowPerHash \/ clientsByHash[h] = c
                                THEN [clientsByHash EXCEPT ![h] = None] ELSE clientsByHash
         \/ StoreFails /\ UNCHANGED <<rows, clientsByHash>>
      /\ \/ sources' = sources \ gone
         \/ StoreFails /\ UNCHANGED sources

\* Disconnect(ClientInfo{Hash: h}), without a StoreID.
DisconnectHash(h) ==
  IF clientsByHash[h] = None THEN UNCHANGED store ELSE Disconnect(clientsByHash[h], h)

-----------------------------------------------------------------------------
\* Steps of a goroutine.

Goto(c, label) == pc' = [pc EXCEPT ![c] = label]
At(c, label)   == pc[c] = label

\* closeWithReason, back to the read loop: the read fails and run() returns,
\* but packets that had already arrived are still dispatched.
CloseAndReturn(c) ==
  /\ open' = [open EXCEPT ![c] = FALSE]
  /\ Goto(c, "read")

\* c.releaseSession() of session v by goroutine c, going on at label.
CallRelease(c, v, label) ==
  /\ target' = [target EXCEPT ![c] = v]
  /\ ret' = [ret EXCEPT ![c] = label]
  /\ Goto(c, "release")

\* hashHeldLocally
HashHeldLocally(h) == sessionsByHash[h] # None \/ handshaking[h] > 0

\* dualStackHandoverFrom: the live IPv4 session of h that claimed c's endpoint.
DualStackHandoverFrom(c, h) ==
  LET old == sessionsByHash[h]
  IN  IF /\ peer[c] \in Addr6 /\ old \notin {None, c}
         /\ peer[old] \in Addr4 /\ claim[old] = peer[c]
      THEN old ELSE None

-----------------------------------------------------------------------------
\* Accept and the read loop.

\* acquireConnSlot refuses under the configured limit, which a reload replaces at
\* any time.
Full(a, limit) == limit > 0 /\ connsPerIP[a] >= limit

\* TCPHandler up to client.run(): the per-address slot, the session, its loop.
Accept(c, a) ==
  /\ At(c, "new") /\ \E limit \in ConnLimits : ~Full(a, limit)
  /\ connsPerIP' = [connsPerIP EXCEPT ![a] = @ + 1]
  /\ peer' = [peer EXCEPT ![c] = a]
  /\ open' = [open EXCEPT ![c] = TRUE]
  /\ Goto(c, "read")
  /\ UNCHANGED <<logins, hash, id, claim, logged, hasLowID, target, ret, rel,
                 sessionsByHash, handshaking, lowIDs, sessionsByEd3k, store>>

\* Faulty variant: a refused connection runs the deferred releaseConnSlot too.
Refuse_GivesBack(c, a) ==
  /\ At(c, "new") /\ \E limit \in ConnLimits : Full(a, limit)
  /\ peer' = [peer EXCEPT ![c] = a]
  /\ Goto(c, "untrack")
  /\ UNCHANGED <<open, logins, hash, id, claim, logged, hasLowID, target, ret, rel, runtime, store>>

Refuse(c, a) ==
  /\ At(c, "new") /\ \E limit \in ConnLimits : Full(a, limit)
  /\ Goto(c, "done")
  /\ UNCHANGED <<peer, open, logins, hash, id, claim, logged, hasLowID, target, ret, rel, runtime, store>>

\* run() leaves its loop: the peer closed, a deadline passed, or the socket was
\* closed from this side.  The deferred releaseSession follows.
ReadEnds(c) ==
  /\ At(c, "read")
  /\ CallRelease(c, c, "untrack")
  /\ UNCHANGED <<peer, open, logins, hash, id, claim, logged, hasLowID, rel, runtime, store>>

\* What TCPHandler defers: untrackSession and releaseConnSlot.
Untrack(c) ==
  /\ At(c, "untrack")
  /\ connsPerIP' = [connsPerIP EXCEPT ![peer[c]] = IF @ <= 1 THEN 0 ELSE @ - 1]
  /\ Goto(c, "done")
  /\ UNCHANGED <<peer, open, logins, hash, id, claim, logged, hasLowID, target, ret, rel,
                 sessionsByHash, handshaking, lowIDs, sessionsByEd3k, store>>

\* Faulty variant: the engine takes an offer of a session it has no row for.
OfferFiles_NoRow(c) ==
  /\ At(c, "read") /\ logged[c]
  /\ rel[c].step # "disconnect"
  /\ sources' = IF rel[c].step = "done" THEN sources ELSE sources \cup {c}
  /\ UNCHANGED <<session, runtime, rows, clientsByHash>>

\* handleOfferFiles to its end in addFiles: storeMu excludes the release, and a
\* released session publishes nothing.  The memory engine also refuses an
\* offer of a session it has no row for.
OfferFiles(c) ==
  /\ At(c, "read") /\ logged[c]
  /\ rel[c].step # "disconnect"
  /\ sources' = IF rel[c].step = "done" \/ (~RowPerHash /\ <<hash[c], c>> \notin rows)
                THEN sources ELSE sources \cup {c}
  /\ UNCHANGED <<session, runtime, rows, clientsByHash>>

-----------------------------------------------------------------------------
\* Login.

\* handleLoginRequest up to the first IsConnected: one login per connection, a
\* banned publisher refused.  The request's identity is kept in hash and claim
\* from here on: nothing reads them before the code writes them to c.info.
LoginRequest(c, h, v6, banned) ==
  /\ At(c, "read") /\ logins[c] < MaxLogins
  /\ logins' = [logins EXCEPT ![c] = @ + 1]
  /\ IF logged[c] \/ banned
     THEN CloseAndReturn(c) /\ UNCHANGED <<hash, claim>>
     ELSE /\ hash' = [hash EXCEPT ![c] = h]
          /\ claim' = [claim EXCEPT ![c] = v6]
          /\ \E online \in IsConnected(h) : Goto(c, IF online THEN "replace" ELSE "identify")
          /\ UNCHANGED open
  /\ UNCHANGED <<peer, id, logged, hasLowID, target, ret, rel, runtime, store>>

\* replaceSameIPSession: a live session of the hash from the same address is
\* closed and released by this goroutine.
ReplaceSameIP(c) ==
  LET old == sessionsByHash[hash[c]]
  IN  /\ At(c, "replace")
      /\ IF old \notin {None, c} /\ peer[old] = peer[c]
         THEN /\ open' = [open EXCEPT ![old] = FALSE]
              /\ CallRelease(c, old, "dualStack")
         ELSE Goto(c, "dualStack") /\ UNCHANGED <<open, target, ret>>
      /\ UNCHANGED <<peer, logins, hash, id, claim, logged, hasLowID, rel, runtime, store>>

\* The dual-stack exception, which leaves the old session up for now; else
\* probeStaleSession looks up the session it would probe.
DualStackCheck(c) ==
  LET old == sessionsByHash[hash[c]]
  IN  /\ At(c, "dualStack")
      /\ \/ /\ DualStackHandoverFrom(c, hash[c]) # None
            /\ Goto(c, "identify") /\ UNCHANGED target
         \/ /\ DualStackHandoverFrom(c, hash[c]) = None
            /\ old \in {None, c}
            /\ Goto(c, "recheck") /\ UNCHANGED target
         \/ /\ DualStackHandoverFrom(c, hash[c]) = None
            /\ old \notin {None, c}
            /\ Goto(c, "poke") /\ target' = [target EXCEPT ![c] = old]
      /\ UNCHANGED <<peer, open, logins, hash, id, claim, logged, hasLowID, ret, rel, runtime, store>>

\* probeStaleSession sends OP_SERVERSTATUS to the held session; a write that
\* fails closes its socket.
Poke(c) ==
  /\ At(c, "poke")
  /\ open' \in {open, [open EXCEPT ![target[c]] = FALSE]}
  /\ Goto(c, "await")
  /\ UNCHANGED <<peer, logins, hash, id, claim, logged, hasLowID, target, ret, rel, runtime, store>>

\* Faulty variant: the wait for the probed session has no deadline.
ProbeDone_NoDeadline(c) ==
  /\ At(c, "await")
  /\ sessionsByHash[hash[c]] # target[c] /\ rel[target[c]].step # "disconnect"
  /\ Goto(c, "recheck")
  /\ target' = [target EXCEPT ![c] = None]
  /\ UNCHANGED <<peer, open, logins, hash, id, claim, logged, hasLowID, ret, rel, runtime, store>>

\* The wait ends when the session left the index and its storeMu is free
\* again, so its row is gone too, or when staleSessionProbeWait is over.
ProbeDone(c) ==
  /\ At(c, "await")
  /\ sessionsByHash[hash[c]] # target[c] => rel[target[c]].step # "disconnect"
  /\ Goto(c, "recheck")
  /\ target' = [target EXCEPT ![c] = None]
  /\ UNCHANGED <<peer, open, logins, hash, id, claim, logged, hasLowID, ret, rel, runtime, store>>

\* The second IsConnected, then hashHeldLocally: refuse, or treat the row as
\* orphaned.
Recheck(c) ==
  /\ At(c, "recheck")
  /\ \E online \in IsConnected(hash[c]) : Goto(c, IF online THEN "held" ELSE "identify")
  /\ UNCHANGED <<peer, open, logins, hash, id, claim, logged, hasLowID, target, ret, rel, runtime, store>>

HeldCheck(c) ==
  /\ At(c, "held")
  /\ IF HashHeldLocally(hash[c])
     THEN CloseAndReturn(c)
     ELSE Goto(c, "orphan") /\ UNCHANGED open
  /\ UNCHANGED <<peer, logins, hash, id, claim, logged, hasLowID, target, ret, rel, runtime, store>>

FreeOrphan(c) ==
  /\ At(c, "orphan")
  /\ DisconnectHash(hash[c])
  /\ Goto(c, "identify")
  /\ UNCHANGED <<peer, open, logins, hash, id, claim, logged, hasLowID, target, ret, rel, runtime>>

\* c.info takes the request's identity, the client's own ID r included, and the
\* firewall probe decides: the LowID pool, or HighID, the packed IPv4 (a peer on
\* IPv6 has none).
Firewalled(c, r) ==
  /\ At(c, "identify")
  /\ id' = [id EXCEPT ![c] = r]
  /\ hasLowID' = [hasLowID EXCEPT ![c] = TRUE]
  /\ Goto(c, "lowID")
  /\ UNCHANGED <<peer, open, logins, hash, claim, logged, target, ret, rel, runtime, store>>

Reachable(c) ==
  /\ At(c, "identify") /\ peer[c] \in Addr4
  /\ id' = [id EXCEPT ![c] = peer[c]]
  /\ hasLowID' = [hasLowID EXCEPT ![c] = FALSE]
  /\ Goto(c, "takeOver")
  /\ UNCHANGED <<peer, open, logins, hash, claim, logged, target, ret, rel, runtime, store>>

\* Faulty variant: the slot is not checked to be free.
AddLowID_Taken(c, i) ==
  /\ At(c, "lowID")
  /\ lowIDs' = [lowIDs EXCEPT ![i] = c]
  /\ id' = [id EXCEPT ![c] = i]
  /\ Goto(c, "takeOver")
  /\ UNCHANGED <<peer, open, logins, hash, claim, logged, hasLowID, target, ret, rel,
                 sessionsByHash, handshaking, connsPerIP, sessionsByEd3k, store>>

\* LowIDs.AddByAddress: some free ID of the pool.  The seeded probe sequence
\* need not reach every ID, so it may fail as soon as one is taken.
AddLowID(c, i) ==
  /\ At(c, "lowID") /\ lowIDs[i] = None
  /\ lowIDs' = [lowIDs EXCEPT ![i] = c]
  /\ id' = [id EXCEPT ![c] = i]
  /\ Goto(c, "takeOver")
  /\ UNCHANGED <<peer, open, logins, hash, claim, logged, hasLowID, target, ret, rel,
                 sessionsByHash, handshaking, connsPerIP, sessionsByEd3k, store>>

LowIDPoolExhausted(c) ==
  /\ At(c, "lowID") /\ \E i \in LowID : lowIDs[i] # None
  /\ CloseAndReturn(c)
  /\ UNCHANGED <<peer, logins, hash, id, claim, logged, hasLowID, target, ret, rel, runtime, store>>

-----------------------------------------------------------------------------
\* handShake.

\* completeDualStackHandover: release the IPv4 session this login takes over.
TakeOver(c) ==
  LET old == DualStackHandoverFrom(c, hash[c])
  IN  /\ At(c, "takeOver")
      /\ \E online \in IsConnected(hash[c]) :
           IF online /\ old # None
           THEN /\ open' = [open EXCEPT ![old] = FALSE]
                /\ CallRelease(c, old, "lastCheck")
           ELSE /\ Goto(c, IF online THEN "lastCheck" ELSE "begin")
                /\ UNCHANGED <<open, target, ret>>
      /\ UNCHANGED <<peer, logins, hash, id, claim, logged, hasLowID, rel, runtime, store>>

LastCheck(c) ==
  /\ At(c, "lastCheck")
  /\ \E online \in IsConnected(hash[c]) :
       IF online THEN CloseAndReturn(c) ELSE Goto(c, "begin") /\ UNCHANGED open
  /\ UNCHANGED <<peer, logins, hash, id, claim, logged, hasLowID, target, ret, rel, runtime, store>>

BeginHandshake(c) ==
  /\ At(c, "begin")
  /\ handshaking' = [handshaking EXCEPT ![hash[c]] = @ + 1]
  /\ Goto(c, "connect")
  /\ UNCHANGED <<peer, open, logins, hash, id, claim, logged, hasLowID, target, ret, rel,
                 sessionsByHash, lowIDs, connsPerIP, sessionsByEd3k, store>>

StoreConnect(c) ==
  /\ At(c, "connect")
  /\ Connect(c, hash[c])
  /\ logged' = [logged EXCEPT ![c] = TRUE]
  /\ Goto(c, "register")
  /\ UNCHANGED <<peer, open, logins, hash, id, claim, hasLowID, target, ret, rel, runtime, sources>>

EndHandshake(h) == handshaking' = [handshaking EXCEPT ![h] = IF @ <= 1 THEN 0 ELSE @ - 1]

\* The upsert fails, or the read of the row's ID after it.
StoreConnectFails(c) ==
  /\ At(c, "connect") /\ StoreFails
  /\ Connect(c, hash[c]) \/ UNCHANGED <<rows, clientsByHash>>
  /\ CloseAndReturn(c)
  /\ EndHandshake(hash[c])
  /\ UNCHANGED <<peer, logins, hash, id, claim, logged, hasLowID, target, ret, rel,
                 sessionsByHash, lowIDs, connsPerIP, sessionsByEd3k, sources>>

\* The claim list: a full one loses its oldest entry.
AddClaim(list, c) ==
  IF \E k \in 1..Len(list) : list[k] = c THEN list
  ELSE Append(IF Len(list) >= MaxEd3kClaims THEN Tail(list) ELSE list, c)

\* slices.DeleteFunc of the one entry of c.
DropClaim(list, c) ==
  IF \A k \in 1..Len(list) : list[k] # c THEN list
  ELSE LET i == CHOOSE k \in 1..Len(list) : list[k] = c
       IN  [k \in 1..(Len(list) - 1) |-> IF k < i THEN list[k] ELSE list[k + 1]]

RegisterSession(c) ==
  /\ At(c, "register")
  /\ sessionsByHash' = [sessionsByHash EXCEPT ![hash[c]] = c]
  /\ sessionsByEd3k' = IF c \in Ed3kConn THEN AddClaim(sessionsByEd3k, c) ELSE sessionsByEd3k
  /\ Goto(c, "greet")
  /\ UNCHANGED <<peer, open, logins, hash, id, claim, logged, hasLowID, target, ret, rel,
                 handshaking, lowIDs, connsPerIP, store>>

\* The greeting, OP_IDCHANGE included; the deferred end of the handshake.
Greet(c) ==
  /\ At(c, "greet")
  /\ EndHandshake(hash[c])
  /\ Goto(c, "read")
  /\ UNCHANGED <<peer, open, logins, hash, id, claim, logged, hasLowID, target, ret, rel,
                 sessionsByHash, lowIDs, connsPerIP, sessionsByEd3k, store>>

-----------------------------------------------------------------------------
\* releaseSession of session v = target[c], run once by the first caller; a
\* later caller waits for the first to finish (sync.Once).

NotReleased == [step |-> "idle", by |-> None, logged |-> FALSE, hash |-> None, id |-> None]

ReleaseStart(c) ==
  LET v == target[c]
  IN  /\ At(c, "release") /\ rel[v].step = "idle"
      /\ rel' = [rel EXCEPT ![v] = [step |-> "lowID", by |-> c, logged |-> logged[v],
                                    hash |-> hash[v], id |-> IF hasLowID[v] THEN id[v] ELSE None]]
      /\ UNCHANGED <<pc, peer, open, logins, hash, id, claim, logged, hasLowID, target, ret, runtime, store>>

\* Faulty variant: only a session that logged in gives its LowID back.
ReleaseLowID_LoggedOnly(c) ==
  LET v == target[c]
  IN  /\ At(c, "release") /\ rel[v].by = c /\ rel[v].step = "lowID"
      /\ lowIDs' = [i \in LowID |-> IF rel[v].logged /\ rel[v].id = i THEN None ELSE lowIDs[i]]
      /\ rel' = [rel EXCEPT ![v].step = "unregister"]
      /\ UNCHANGED <<pc, peer, open, logins, hash, id, claim, logged, hasLowID, target, ret,
                     sessionsByHash, handshaking, connsPerIP, sessionsByEd3k, store>>

\* LowIDs.Remove(info.ID), whoever holds that ID.
ReleaseLowID(c) ==
  LET v == target[c]
  IN  /\ At(c, "release") /\ rel[v].by = c /\ rel[v].step = "lowID"
      /\ lowIDs' = [i \in LowID |-> IF rel[v].id = i THEN None ELSE lowIDs[i]]
      /\ rel' = [rel EXCEPT ![v].step = "unregister"]
      /\ UNCHANGED <<pc, peer, open, logins, hash, id, claim, logged, hasLowID, target, ret,
                     sessionsByHash, handshaking, connsPerIP, sessionsByEd3k, store>>

\* Faulty variant: the index entry of another session keeps its place, and so
\* does this one's when the caller is not the session's own goroutine.
Unregister_OwnOnly(c) ==
  LET v == target[c]
      h == rel[v].hash
  IN  /\ At(c, "release") /\ rel[v].by = c /\ rel[v].step = "unregister"
      /\ sessionsByHash' = IF rel[v].logged /\ sessionsByHash[h] = c
                           THEN [sessionsByHash EXCEPT ![h] = None] ELSE sessionsByHash
      /\ sessionsByEd3k' = IF rel[v].logged THEN DropClaim(sessionsByEd3k, v) ELSE sessionsByEd3k
      /\ rel' = [rel EXCEPT ![v].step = "disconnect"]
      /\ UNCHANGED <<pc, peer, open, logins, hash, id, claim, logged, hasLowID, target, ret,
                     handshaking, lowIDs, connsPerIP, store>>

\* Faulty variant: nothing to clean up once the hash has a newer session.
Unregister_NewerReturns(c) ==
  LET v == target[c]
      h == rel[v].hash
      own == rel[v].logged /\ sessionsByHash[h] = v
  IN  /\ At(c, "release") /\ rel[v].by = c /\ rel[v].step = "unregister"
      /\ sessionsByHash' = IF own THEN [sessionsByHash EXCEPT ![h] = None] ELSE sessionsByHash
      /\ sessionsByEd3k' = IF own THEN DropClaim(sessionsByEd3k, v) ELSE sessionsByEd3k
      /\ rel' = [rel EXCEPT ![v].step = "disconnect"]
      /\ UNCHANGED <<pc, peer, open, logins, hash, id, claim, logged, hasLowID, target, ret,
                     handshaking, lowIDs, connsPerIP, store>>

\* storeMu taken, released set, unregisterSession: only an entry that still
\* points at this session.
Unregister(c) ==
  LET v == target[c]
      h == rel[v].hash
  IN  /\ At(c, "release") /\ rel[v].by = c /\ rel[v].step = "unregister"
      /\ sessionsByHash' = IF rel[v].logged /\ sessionsByHash[h] = v
                           THEN [sessionsByHash EXCEPT ![h] = None] ELSE sessionsByHash
      /\ sessionsByEd3k' = IF rel[v].logged THEN DropClaim(sessionsByEd3k, v) ELSE sessionsByEd3k
      /\ rel' = [rel EXCEPT ![v].step = "disconnect"]
      /\ UNCHANGED <<pc, peer, open, logins, hash, id, claim, logged, hasLowID, target, ret,
                     handshaking, lowIDs, connsPerIP, store>>

\* Storage.Disconnect, storeMu freed, the socket closed.
ReleaseStore(c) ==
  LET v == target[c]
  IN  /\ At(c, "release") /\ rel[v].by = c /\ rel[v].step = "disconnect"
      /\ \/ rel[v].logged /\ Disconnect(v, rel[v].hash)
         \/ ~rel[v].logged /\ UNCHANGED store
      /\ open' = [open EXCEPT ![v] = FALSE]
      /\ rel' = [rel EXCEPT ![v] = [NotReleased EXCEPT !.step = "done"]]
      /\ UNCHANGED <<pc, peer, logins, hash, id, claim, logged, hasLowID, target, ret, runtime>>

\* Faulty variant: the caller waits for the session's read loop to be over.
ReleaseReturn_Joins(c) ==
  /\ At(c, "release") /\ pc[target[c]] = "done"
  /\ Goto(c, ret[c])
  /\ target' = [target EXCEPT ![c] = None]
  /\ ret' = [ret EXCEPT ![c] = None]
  /\ UNCHANGED <<peer, open, logins, hash, id, claim, logged, hasLowID, rel, runtime, store>>

ReleaseReturn(c) ==
  /\ At(c, "release") /\ rel[target[c]].step = "done"
  /\ Goto(c, ret[c])
  /\ target' = [target EXCEPT ![c] = None]
  /\ ret' = [ret EXCEPT ![c] = None]
  /\ UNCHANGED <<peer, open, logins, hash, id, claim, logged, hasLowID, rel, runtime, store>>

-----------------------------------------------------------------------------
Init ==
  /\ pc = [c \in Conn |-> "new"]
  /\ peer = [c \in Conn |-> None]
  /\ open = [c \in Conn |-> FALSE]
  /\ logins = [c \in Conn |-> 0]
  /\ hash = [c \in Conn |-> None]
  /\ id = [c \in Conn |-> None]
  /\ claim = [c \in Conn |-> None]
  /\ logged = [c \in Conn |-> FALSE]
  /\ hasLowID = [c \in Conn |-> TRUE]
  /\ target = [c \in Conn |-> None]
  /\ ret = [c \in Conn |-> None]
  /\ rel = [c \in Conn |-> NotReleased]
  /\ sessionsByHash = [h \in Hash |-> None]
  /\ handshaking = [h \in Hash |-> 0]
  /\ lowIDs = [i \in LowID |-> None]
  /\ connsPerIP = [a \in Addr |-> 0]
  /\ sessionsByEd3k = <<>>
  /\ rows = {}
  /\ clientsByHash = [h \in Hash |-> None]
  /\ sources = {}

\* What a goroutine does on its own, once it has a request to handle.
Release(c) ==
  ReleaseStart(c) \/ ReleaseLowID(c) \/ Unregister(c) \/ ReleaseStore(c) \/ ReleaseReturn(c)

Arbitrate(c) ==
  \/ ReplaceSameIP(c) \/ DualStackCheck(c) \/ Poke(c) \/ ProbeDone(c)
  \/ Recheck(c) \/ HeldCheck(c) \/ FreeOrphan(c)

AssignID(c) ==
  \/ \E r \in RequestID : Firewalled(c, r)
  \/ Reachable(c)
  \/ \E i \in LowID : AddLowID(c, i)
  \/ LowIDPoolExhausted(c)

HandShake(c) ==
  \/ TakeOver(c) \/ LastCheck(c) \/ BeginHandshake(c)
  \/ StoreConnect(c) \/ StoreConnectFails(c) \/ RegisterSession(c) \/ Greet(c)

Step(c) == Arbitrate(c) \/ AssignID(c) \/ HandShake(c) \/ Release(c) \/ Untrack(c)

Next ==
  \E c \in Conn :
    \/ \E a \in Addr : Accept(c, a) \/ Refuse(c, a)
    \/ \E h \in Hash, v6 \in Addr6 \cup {None}, banned \in BOOLEAN : LoginRequest(c, h, v6, banned)
    \/ OfferFiles(c)
    \/ ReadEnds(c)
    \/ Step(c)

\* The scheduler runs every goroutine that can go on, and a read on a closed
\* socket returns.
Fairness ==
  \A c \in Conn : WF_vars(Step(c)) /\ WF_vars(~open[c] /\ ReadEnds(c))

Spec == Init /\ [][Next]_vars

FairSpec == Spec /\ Fairness

-----------------------------------------------------------------------------
\* Properties.

LoginLabels == {"replace", "dualStack", "poke", "await", "recheck", "held", "orphan",
                "identify", "lowID", "takeOver", "lastCheck",
                "begin", "connect", "register", "greet"}
Labels == LoginLabels \cup {"new", "read", "release", "untrack", "done"}
IDs == LowID \cup Addr4 \cup RequestID \cup {None}

ReleaseState == [step : {"idle", "lowID", "unregister", "disconnect", "done"},
                 by : Conn \cup {None}, logged : BOOLEAN, hash : Hash \cup {None}, id : IDs]

SessionTypes ==
  /\ pc \in [Conn -> Labels]
  /\ peer \in [Conn -> Addr \cup {None}]
  /\ open \in [Conn -> BOOLEAN]
  /\ logins \in [Conn -> 0..MaxLogins]
  /\ hash \in [Conn -> Hash \cup {None}]
  /\ id \in [Conn -> IDs]
  /\ claim \in [Conn -> Addr6 \cup {None}]
  /\ logged \in [Conn -> BOOLEAN]
  /\ hasLowID \in [Conn -> BOOLEAN]
  /\ target \in [Conn -> Conn \cup {None}]
  /\ ret \in [Conn -> {"untrack", "dualStack", "lastCheck", None}]
  /\ rel \in [Conn -> ReleaseState]

RuntimeTypes ==
  /\ sessionsByHash \in [Hash -> Conn \cup {None}]
  /\ handshaking \in [Hash -> Nat]
  /\ lowIDs \in [LowID -> Conn \cup {None}]
  /\ connsPerIP \in [Addr -> Nat]
  /\ sessionsByEd3k \in Seq(Conn)

StoreTypes ==
  /\ rows \subseteq Hash \X Conn
  /\ clientsByHash \in [Hash -> Conn \cup {None}]
  /\ sources \subseteq Conn

\* Every variable keeps the shape the Go declarations give it; an ID in
\* particular is a pool ID, a packed IPv4 address or what the client sent.
TypeOK == SessionTypes /\ RuntimeTypes /\ StoreTypes

\* The hash index (sessionsByHash) names a session only while that session is
\* logged in under the hash and its release has not taken it out: a PR_NAT
\* keepalive, a wake-up or a duplicate login that looks the hash up never gets
\* a session that is gone.
IndexSound ==
  \A h \in Hash : LET c == sessionsByHash[h] IN
    c # None => /\ logged[c] /\ hash[c] = h
                /\ rel[c].step \notin {"disconnect", "done"}

\* The ed3k bridge pairs a node with a live login only: a session that left
\* takes its claim with it even when a newer login of its hash owns the hash
\* index by then, and no session is listed twice.
ClaimsSound ==
  /\ \A k \in 1..Len(sessionsByEd3k) : LET c == sessionsByEd3k[k] IN
       logged[c] /\ rel[c].step \notin {"disconnect", "done"}
  /\ \A j, k \in 1..Len(sessionsByEd3k) : sessionsByEd3k[j] = sessionsByEd3k[k] => j = k

\* No LowID is stranded: whatever the pool holds belongs to a session that
\* knows it holds it, and whose release has still to give it back.
LowIDHeld ==
  \A i \in LowID : LET c == lowIDs[i] IN
    c # None => hasLowID[c] /\ id[c] = i /\ rel[c].step \in {"idle", "lowID"}

\* A callback request reaches the client it was meant for: the LowID a served
\* session was told (OP_IDCHANGE) leads to that session and to no other.
LowIDRoutes ==
  \A c \in Conn : logged[c] /\ hasLowID[c] /\ rel[c].step = "idle" => lowIDs[id[c]] = c

\* The sessions with a client row.
Served == {r[2] : r \in rows}

\* The memory engine keeps no row, and no source, of a session that is gone:
\* both go with the release, whichever goroutine runs it and however offers
\* still in flight interleave with it.
NothingLeftBehind ==
  \A c \in Served \cup sources : logged[c] /\ rel[c].step # "done"

\* A file is never published for a client whose storage row is offline, in the
\* memory engine by construction of addFileLocked, which must survive a row
\* taken away by hash (handleLoginRequest's orphan case).
SourcesHaveRows == sources \subseteq Served

\* The per-address connection count is exact: every way out of TCPHandler
\* gives the slot back once, and no way gives back a slot it never took.
SlotsExact ==
  \A a \in Addr : connsPerIP[a] = Cardinality({c \in Conn : peer[c] = a /\ pc[c] # "done"})

\* Every login request is decided: no wait of the duplicate-login arbitration,
\* for a release another goroutine runs or for a probed session to die, holds
\* a login for ever.
LoginDecided == \A c \in Conn : pc[c] \in LoginLabels ~> pc[c] \in {"read", "done"}

\* Every closed session is wound up, slot, LowID, index entry and row.
CloseCompletes == \A c \in Conn : (pc[c] = "read" /\ ~open[c]) ~> pc[c] = "done"

-----------------------------------------------------------------------------
\* What comments of the code say of the rows.

\* "a parallel login cannot free a row Connect has just written": the orphan
\* case never takes a row away while a session of this process holds the hash.
HeldRowKept ==
  [][\A c \in Conn : FreeOrphan(c) /\ HashHeldLocally(hash[c]) => UNCHANGED rows]_vars

\* "Another session with the same ed2k ID, or a newer session with the same
\* hash, is untouched": a release never takes away the row that a newer login
\* of the hash has written.
NewerRowKept ==
  [][\A c \in Conn : ReleaseStore(c) =>
       \A r \in rows \ rows' : r[2] = target[c] \/ rel[r[2]].step = "done"]_vars
=============================================================================
