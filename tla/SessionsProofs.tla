--------------------------- MODULE SessionsProofs ---------------------------
(***************************************************************************)
(* What Sessions guarantees for every set of connections, hashes,          *)
(* addresses and IDs, proved.                                              *)
(*                                                                         *)
(* All of it rests on one fact about the goroutines, Goroutines: a session *)
(* is released by another goroutine only after it was registered, and by   *)
(* its own only once its read loop is over, so a release never meets a     *)
(* login of the same session half way.                                     *)
(*                                                                         *)
(* From it follow the types, the hash index (Indexed), the claims of the   *)
(* second hash (Claimed) and, for the engine that keeps a row per session, *)
(* that no row outlives its session (Kept), that sources have a row, and   *)
(* that a release never takes the row of another session.                  *)
(*                                                                         *)
(* The second half is about the LowID pool and the connection slots: what  *)
(* the pool holds has an owner that will give it back, the ID a client was *)
(* told leads to that client, and the counter of an address is the number  *)
(* of its open connections.  The first two need different premises, which  *)
(* the code does not enforce: that a connection logs in at most once, and  *)
(* that no login request carries an ID of the pool.                        *)
(***************************************************************************)
EXTENDS Sessions, FiniteSetTheorems, TLAPS

\* The session is past registerSession: others can find and release it.
Registered(c) == logged[c] /\ pc[c] # "register"

\* Its own goroutine is past the read loop.
Leaving(c) == (pc[c] = "release" /\ target[c] = c) \/ pc[c] \in {"untrack", "done"}

\* A login is under way, the release of a session it replaces included.
LoggingIn(c) == pc[c] \in LoginLabels \/ (pc[c] = "release" /\ target[c] # c)

\* How a goroutine's program counter, its session's flags and the release of
\* its session agree.
GoroutineOf(c) ==
  /\ pc[c] = "release" => /\ target[c] \in Conn
                          /\ ret[c] \in {"untrack", "dualStack", "lastCheck"}
                          /\ ret[c] = "untrack" <=> target[c] = c
                          /\ target[c] # c => Registered(target[c])
  /\ pc[c] \notin {"new", "done"} => peer[c] \in Addr
  /\ LoggingIn(c) \/ logged[c] => hash[c] \in Hash
  /\ pc[c] \in {"register", "greet"} => logged[c]
  /\ logged[c] => \/ pc[c] \in {"register", "greet", "read", "untrack", "done"}
                  \/ pc[c] = "release" /\ target[c] = c
  /\ rel[c].step # "idle" => Registered(c) \/ Leaving(c)
  /\ rel[c].step \in {"lowID", "unregister", "disconnect"} =>
       rel[c].logged = logged[c] /\ rel[c].hash = hash[c]

Goroutines == \A c \in Conn : GoroutineOf(c)

\* The hash index and the claim list hold registered sessions.
Indexed ==
  /\ \A h \in Hash : sessionsByHash[h] # None =>
       /\ Registered(sessionsByHash[h]) /\ hash[sessionsByHash[h]] = h
       /\ rel[sessionsByHash[h]].step \notin {"disconnect", "done"}


-----------------------------------------------------------------------------
\* Type correctness.

\* The lists of claims hold connections.
LEMMA ClaimTypes ==
  ASSUME NEW list \in Seq(Conn), NEW c \in Conn
  PROVE  AddClaim(list, c) \in Seq(Conn) /\ DropClaim(list, c) \in Seq(Conn)
<1>1. AddClaim(list, c) \in Seq(Conn)
  <2>1. Len(list) >= MaxEd3kClaims => list # <<>>
    BY ConstantsOK
  <2> QED BY <2>1 DEF AddClaim
<1>2. DropClaim(list, c) \in Seq(Conn)
  <2>1. CASE \A k \in 1..Len(list) : list[k] # c
    BY Zenon, <2>1 DEF DropClaim
  <2>2. CASE \E k \in 1..Len(list) : list[k] = c
    <3> DEFINE i == CHOOSE k \in 1..Len(list) : list[k] = c
               f == [k \in 1..(Len(list) - 1) |-> IF k < i THEN list[k] ELSE list[k + 1]]
    <3>1. Len(list) \in Nat /\ Len(list) # 0
      BY <2>2
    <3>2. i \in 1..Len(list)
      BY Zenon, <2>2
    <3> HIDE DEF i
    <3>3. \A k \in 1..(Len(list) - 1) : f[k] \in Conn
      BY <3>1, <3>2
    <3>4. f \in Seq(Conn)
      BY <3>1, <3>3
    <3> QED BY Zenon, <2>2, <3>4 DEF DropClaim, i
  <2> QED BY Zenon, <2>1, <2>2
<1> QED BY Zenon, <1>1, <1>2

\* A release that goes on is a release.
LEMMA StepTypes ==
  ASSUME NEW r \in ReleaseState, NEW s \in {"lowID", "unregister", "disconnect", "done"}
  PROVE  [r EXCEPT !.step = s] \in ReleaseState
BY Zenon DEF ReleaseState


\* Every step keeps the types.
LEMMA TypeStep ==
  ASSUME TypeOK, Goroutines, [Next]_vars
  PROVE  TypeOK'

<1>1. ASSUME NEW c \in Conn, NEW a \in Addr, Accept(c, a) PROVE TypeOK'
  <2>1. SessionTypes'
    BY Zenon, <1>1, TypeOK DEF TypeOK, SessionTypes, Accept, Goto, Labels, LoginLabels, Addr
  <2>2. RuntimeTypes'
    BY <1>1, TypeOK DEF TypeOK, RuntimeTypes, Accept, runtime
  <2>3. StoreTypes'
    BY Zenon, <1>1, TypeOK DEF TypeOK, StoreTypes, Accept, store
  <2> QED BY Zenon, <2>1, <2>2, <2>3 DEF TypeOK
<1>2. ASSUME NEW c \in Conn, NEW a \in Addr, Refuse(c, a) PROVE TypeOK'
  <2>1. SessionTypes'
    BY Zenon, <1>2, TypeOK DEF TypeOK, SessionTypes, Refuse, Goto, Labels, LoginLabels
  <2>2. RuntimeTypes'
    BY Zenon, <1>2, TypeOK DEF TypeOK, RuntimeTypes, Refuse, runtime
  <2>3. StoreTypes'
    BY Zenon, <1>2, TypeOK DEF TypeOK, StoreTypes, Refuse, store
  <2> QED BY Zenon, <2>1, <2>2, <2>3 DEF TypeOK
<1>3. ASSUME NEW c \in Conn, ReadEnds(c) PROVE TypeOK'
  <2>1. SessionTypes'
    BY Zenon, <1>3, TypeOK DEF TypeOK, SessionTypes, ReadEnds, CallRelease, Goto, Labels, LoginLabels
  <2>2. RuntimeTypes'
    BY Zenon, <1>3, TypeOK DEF TypeOK, RuntimeTypes, ReadEnds, runtime
  <2>3. StoreTypes'
    BY Zenon, <1>3, TypeOK DEF TypeOK, StoreTypes, ReadEnds, store
  <2> QED BY Zenon, <2>1, <2>2, <2>3 DEF TypeOK
<1>4. ASSUME NEW c \in Conn, Untrack(c) PROVE TypeOK'
  <2>1. SessionTypes'
    BY Zenon, <1>4, TypeOK DEF TypeOK, SessionTypes, Untrack, Goto, Labels
  <2>2. RuntimeTypes'
    <3>1. peer[c] \in Addr
      BY Zenon, <1>4, Goroutines DEF Goroutines, GoroutineOf, Untrack, At
    <3> QED BY <1>4, <3>1, TypeOK DEF TypeOK, RuntimeTypes, Untrack
  <2>3. StoreTypes'
    BY Zenon, <1>4, TypeOK DEF TypeOK, StoreTypes, Untrack, store
  <2> QED BY Zenon, <2>1, <2>2, <2>3 DEF TypeOK
<1>5. ASSUME NEW c \in Conn, OfferFiles(c) PROVE TypeOK'
  <2>1. SessionTypes'
    BY Zenon, <1>5, TypeOK DEF TypeOK, SessionTypes, OfferFiles, session
  <2>2. RuntimeTypes'
    BY Zenon, <1>5, TypeOK DEF TypeOK, RuntimeTypes, OfferFiles, runtime
  <2>3. StoreTypes'
    BY Zenon, <1>5, TypeOK DEF TypeOK, StoreTypes, OfferFiles, store
  <2> QED BY Zenon, <2>1, <2>2, <2>3 DEF TypeOK
<1>6. ASSUME NEW c \in Conn, NEW h \in Hash, NEW v6 \in Addr6 \cup {None}, NEW banned \in BOOLEAN, LoginRequest(c, h, v6, banned) PROVE TypeOK'
  <2>1. SessionTypes'
    <3>1. logins[c] + 1 \in 0..MaxLogins
      BY <1>6, TypeOK, ConstantsOK DEF TypeOK, SessionTypes, LoginRequest
    <3>2. CASE logged[c] \/ banned
      BY Zenon, <1>6, <3>1, <3>2, TypeOK DEF TypeOK, SessionTypes, LoginRequest, CloseAndReturn, Goto, Labels
    <3>3. CASE ~(logged[c] \/ banned)
      BY <1>6, <3>1, <3>3, TypeOK DEF TypeOK, SessionTypes, LoginRequest, Goto, Labels, LoginLabels
    <3> QED BY Zenon, <3>2, <3>3
  <2>2. RuntimeTypes'
    BY Zenon, <1>6, TypeOK DEF TypeOK, RuntimeTypes, LoginRequest, runtime
  <2>3. StoreTypes'
    BY Zenon, <1>6, TypeOK DEF TypeOK, StoreTypes, LoginRequest, store
  <2> QED BY Zenon, <2>1, <2>2, <2>3 DEF TypeOK
<1>7. ASSUME NEW c \in Conn, ReplaceSameIP(c) PROVE TypeOK'
  <2>1. SessionTypes'
    <3>1. sessionsByHash[hash[c]] \in Conn \cup {None}
      BY Zenon, <1>7, TypeOK, Goroutines DEF TypeOK, SessionTypes, RuntimeTypes, Goroutines, GoroutineOf, LoggingIn, LoginLabels, At, ReplaceSameIP
    <3> QED BY ZenonT(60), <1>7, <3>1, TypeOK DEF TypeOK, SessionTypes, ReplaceSameIP, CallRelease, Goto, At, Labels, LoginLabels
  <2>2. RuntimeTypes'
    BY Zenon, <1>7, TypeOK DEF TypeOK, RuntimeTypes, ReplaceSameIP, CallRelease, runtime
  <2>3. StoreTypes'
    BY Zenon, <1>7, TypeOK DEF TypeOK, StoreTypes, ReplaceSameIP, CallRelease, store
  <2> QED BY Zenon, <2>1, <2>2, <2>3 DEF TypeOK
<1>8. ASSUME NEW c \in Conn, DualStackCheck(c) PROVE TypeOK'
  <2>1. SessionTypes'
    <3>1. sessionsByHash[hash[c]] \in Conn \cup {None}
      BY Zenon, <1>8, TypeOK, Goroutines DEF TypeOK, SessionTypes, RuntimeTypes, Goroutines, GoroutineOf, LoggingIn, LoginLabels, At, DualStackCheck
    <3> QED BY Zenon, <1>8, <3>1, TypeOK DEF TypeOK, SessionTypes, DualStackCheck, Goto, At, Labels, LoginLabels
  <2>2. RuntimeTypes'
    BY Zenon, <1>8, TypeOK DEF TypeOK, RuntimeTypes, DualStackCheck, runtime
  <2>3. StoreTypes'
    BY Zenon, <1>8, TypeOK DEF TypeOK, StoreTypes, DualStackCheck, store
  <2> QED BY Zenon, <2>1, <2>2, <2>3 DEF TypeOK
<1>9. ASSUME NEW c \in Conn, Poke(c) PROVE TypeOK'
  <2>1. SessionTypes'
    BY Zenon, <1>9, TypeOK DEF TypeOK, SessionTypes, Poke, Goto, Labels, LoginLabels
  <2>2. RuntimeTypes'
    BY Zenon, <1>9, TypeOK DEF TypeOK, RuntimeTypes, Poke, runtime
  <2>3. StoreTypes'
    BY Zenon, <1>9, TypeOK DEF TypeOK, StoreTypes, Poke, store
  <2> QED BY Zenon, <2>1, <2>2, <2>3 DEF TypeOK
<1>10. ASSUME NEW c \in Conn, ProbeDone(c) PROVE TypeOK'
  <2>1. SessionTypes'
    BY Zenon, <1>10, TypeOK DEF TypeOK, SessionTypes, ProbeDone, Goto, Labels, LoginLabels
  <2>2. RuntimeTypes'
    BY Zenon, <1>10, TypeOK DEF TypeOK, RuntimeTypes, ProbeDone, runtime
  <2>3. StoreTypes'
    BY Zenon, <1>10, TypeOK DEF TypeOK, StoreTypes, ProbeDone, store
  <2> QED BY Zenon, <2>1, <2>2, <2>3 DEF TypeOK
<1>11. ASSUME NEW c \in Conn, Recheck(c) PROVE TypeOK'
  <2>1. SessionTypes'
    BY Zenon, <1>11, TypeOK DEF TypeOK, SessionTypes, Recheck, Goto, Labels, LoginLabels
  <2>2. RuntimeTypes'
    BY Zenon, <1>11, TypeOK DEF TypeOK, RuntimeTypes, Recheck, runtime
  <2>3. StoreTypes'
    BY Zenon, <1>11, TypeOK DEF TypeOK, StoreTypes, Recheck, store
  <2> QED BY Zenon, <2>1, <2>2, <2>3 DEF TypeOK
<1>12. ASSUME NEW c \in Conn, HeldCheck(c) PROVE TypeOK'
  <2>1. SessionTypes'
    BY Zenon, <1>12, TypeOK DEF TypeOK, SessionTypes, HeldCheck, CloseAndReturn, Goto, Labels, LoginLabels
  <2>2. RuntimeTypes'
    BY Zenon, <1>12, TypeOK DEF TypeOK, RuntimeTypes, HeldCheck, runtime
  <2>3. StoreTypes'
    BY Zenon, <1>12, TypeOK DEF TypeOK, StoreTypes, HeldCheck, store
  <2> QED BY Zenon, <2>1, <2>2, <2>3 DEF TypeOK
<1>13. ASSUME NEW c \in Conn, FreeOrphan(c) PROVE TypeOK'
  <2>1. SessionTypes'
    BY Zenon, <1>13, TypeOK DEF TypeOK, SessionTypes, FreeOrphan, DisconnectHash, Disconnect, Goto, Labels, LoginLabels
  <2>2. RuntimeTypes'
    BY Zenon, <1>13, TypeOK DEF TypeOK, RuntimeTypes, FreeOrphan, runtime
  <2>3. StoreTypes'
    BY Zenon, <1>13, TypeOK DEF TypeOK, StoreTypes, FreeOrphan, Disconnect, DisconnectHash, store
  <2> QED BY Zenon, <2>1, <2>2, <2>3 DEF TypeOK
<1>14. ASSUME NEW c \in Conn, NEW r \in RequestID, Firewalled(c, r) PROVE TypeOK'
  <2>1. SessionTypes'
    BY Zenon, <1>14, TypeOK DEF TypeOK, SessionTypes, Firewalled, Goto, Labels, LoginLabels, IDs, ReleaseState
  <2>2. RuntimeTypes'
    BY Zenon, <1>14, TypeOK DEF TypeOK, RuntimeTypes, Firewalled, runtime
  <2>3. StoreTypes'
    BY Zenon, <1>14, TypeOK DEF TypeOK, StoreTypes, Firewalled, store
  <2> QED BY Zenon, <2>1, <2>2, <2>3 DEF TypeOK
<1>15. ASSUME NEW c \in Conn, Reachable(c) PROVE TypeOK'
  <2>1. SessionTypes'
    BY Zenon, <1>15, TypeOK DEF TypeOK, SessionTypes, Reachable, Goto, Labels, LoginLabels, IDs, ReleaseState
  <2>2. RuntimeTypes'
    BY Zenon, <1>15, TypeOK DEF TypeOK, RuntimeTypes, Reachable, runtime
  <2>3. StoreTypes'
    BY Zenon, <1>15, TypeOK DEF TypeOK, StoreTypes, Reachable, store
  <2> QED BY Zenon, <2>1, <2>2, <2>3 DEF TypeOK
<1>16. ASSUME NEW c \in Conn, NEW i \in LowID, AddLowID(c, i) PROVE TypeOK'
  <2>1. SessionTypes'
    BY Zenon, <1>16, TypeOK DEF TypeOK, SessionTypes, AddLowID, Goto, Labels, LoginLabels, IDs, ReleaseState
  <2>2. RuntimeTypes'
    BY Zenon, <1>16, TypeOK DEF TypeOK, RuntimeTypes, AddLowID, runtime
  <2>3. StoreTypes'
    BY Zenon, <1>16, TypeOK DEF TypeOK, StoreTypes, AddLowID, store
  <2> QED BY Zenon, <2>1, <2>2, <2>3 DEF TypeOK
<1>17. ASSUME NEW c \in Conn, LowIDPoolExhausted(c) PROVE TypeOK'
  <2>1. SessionTypes'
    BY Zenon, <1>17, TypeOK DEF TypeOK, SessionTypes, LowIDPoolExhausted, CloseAndReturn, Goto, Labels, LoginLabels
  <2>2. RuntimeTypes'
    BY Zenon, <1>17, TypeOK DEF TypeOK, RuntimeTypes, LowIDPoolExhausted, runtime
  <2>3. StoreTypes'
    BY Zenon, <1>17, TypeOK DEF TypeOK, StoreTypes, LowIDPoolExhausted, store
  <2> QED BY Zenon, <2>1, <2>2, <2>3 DEF TypeOK
<1>18. ASSUME NEW c \in Conn, TakeOver(c) PROVE TypeOK'
  <2> DEFINE old == DualStackHandoverFrom(c, hash[c])
  <2>1. old \in Conn \cup {None}
    <3>1. sessionsByHash[hash[c]] \in Conn \cup {None}
      BY Zenon, <1>18, TypeOK, Goroutines DEF TypeOK, RuntimeTypes, Goroutines, GoroutineOf, LoggingIn, LoginLabels, At, TakeOver
    <3> QED BY Zenon, <3>1 DEF DualStackHandoverFrom
  <2> HIDE DEF old
  <2>2. SessionTypes'
    <3>1. CASE /\ open' = [open EXCEPT ![old] = FALSE] /\ old # None
               /\ CallRelease(c, old, "lastCheck")
      BY Zenon, <1>18, <2>1, <3>1, TypeOK DEF TypeOK, SessionTypes, TakeOver, CallRelease, Goto, Labels
    <3>2. CASE (Goto(c, "lastCheck") \/ Goto(c, "begin")) /\ UNCHANGED <<open, target, ret>>
      BY Zenon, <1>18, <3>2, TypeOK DEF TypeOK, SessionTypes, TakeOver, Goto, Labels, LoginLabels
    <3> QED BY Zenon, <1>18, <3>1, <3>2 DEF TakeOver, old
  <2>3. RuntimeTypes'
    BY Zenon, <1>18, TypeOK DEF TypeOK, RuntimeTypes, TakeOver, runtime
  <2>4. StoreTypes'
    BY Zenon, <1>18, TypeOK DEF TypeOK, StoreTypes, TakeOver, store
  <2> QED BY Zenon, <2>2, <2>3, <2>4 DEF TypeOK
<1>19. ASSUME NEW c \in Conn, LastCheck(c) PROVE TypeOK'
  <2>1. SessionTypes'
    BY Zenon, <1>19, TypeOK DEF TypeOK, SessionTypes, LastCheck, CloseAndReturn, Goto, Labels, LoginLabels
  <2>2. RuntimeTypes'
    BY Zenon, <1>19, TypeOK DEF TypeOK, RuntimeTypes, LastCheck, runtime
  <2>3. StoreTypes'
    BY Zenon, <1>19, TypeOK DEF TypeOK, StoreTypes, LastCheck, store
  <2> QED BY Zenon, <2>1, <2>2, <2>3 DEF TypeOK
<1>20. ASSUME NEW c \in Conn, BeginHandshake(c) PROVE TypeOK'
  <2>1. SessionTypes'
    BY Zenon, <1>20, TypeOK DEF TypeOK, SessionTypes, BeginHandshake, Goto, At, session, Labels, LoginLabels
  <2>2. RuntimeTypes'
    <3>1. hash[c] \in Hash /\ peer[c] \in Addr
      BY Zenon, <1>20, Goroutines DEF Goroutines, GoroutineOf, LoggingIn, LoginLabels, BeginHandshake, At
    <3> QED BY SMTT(30), <1>20, <3>1, TypeOK DEF TypeOK, RuntimeTypes, BeginHandshake, runtime
  <2>3. StoreTypes'
    BY Zenon, <1>20, TypeOK DEF TypeOK, StoreTypes, BeginHandshake, store
  <2> QED BY Zenon, <2>1, <2>2, <2>3 DEF TypeOK
<1>21. ASSUME NEW c \in Conn, StoreConnect(c) PROVE TypeOK'
  <2>1. SessionTypes'
    BY Zenon, <1>21, TypeOK DEF TypeOK, SessionTypes, StoreConnect, Goto, Labels, LoginLabels
  <2>2. RuntimeTypes'
    BY Zenon, <1>21, TypeOK DEF TypeOK, RuntimeTypes, StoreConnect, runtime
  <2>3. StoreTypes'
    <3>1. hash[c] \in Hash
      BY ZenonT(60), <1>21, Goroutines DEF Goroutines, GoroutineOf, LoggingIn, LoginLabels, StoreConnect, At
    <3>2. rows' \subseteq Hash \X Conn
      <4>1. rows' = {r \in rows : RowPerHash => r[1] # hash[c]} \cup {<<hash[c], c>>}
        BY Zenon, <1>21 DEF StoreConnect, Connect
      <4>2. rows \subseteq Hash \X Conn /\ <<hash[c], c>> \in Hash \X Conn
        BY Zenon, <1>21, <3>1 DEF TypeOK, StoreTypes
      <4> QED BY Zenon, <4>1, <4>2
    <3>3. clientsByHash' \in [Hash -> Conn \cup {None}]
      BY Zenon, <1>21, <3>1 DEF TypeOK, StoreTypes, StoreConnect, Connect
    <3> QED BY Zenon, <1>21, <3>2, <3>3 DEF TypeOK, StoreTypes, StoreConnect
  <2> QED BY Zenon, <2>1, <2>2, <2>3 DEF TypeOK
<1>22. ASSUME NEW c \in Conn, StoreConnectFails(c) PROVE TypeOK'
  <2>1. SessionTypes'
    BY Zenon, <1>22, TypeOK DEF TypeOK, SessionTypes, StoreConnectFails, CloseAndReturn, Connect, EndHandshake, Goto, At, session, Labels, LoginLabels
  <2>2. RuntimeTypes'
    <3>1. hash[c] \in Hash /\ peer[c] \in Addr
      BY ZenonT(60), <1>22, Goroutines DEF Goroutines, GoroutineOf, LoggingIn, LoginLabels, StoreConnectFails, At
    <3> QED BY <1>22, <3>1, TypeOK DEF TypeOK, RuntimeTypes, StoreConnectFails, CloseAndReturn, Connect, EndHandshake, runtime
  <2>3. StoreTypes'
    BY SMTT(30), <1>22, TypeOK, Goroutines DEF TypeOK, StoreTypes, StoreConnectFails, CloseAndReturn, Connect, EndHandshake, store, Goroutines, GoroutineOf, LoggingIn, LoginLabels, At
  <2> QED BY Zenon, <2>1, <2>2, <2>3 DEF TypeOK
<1>23. ASSUME NEW c \in Conn, RegisterSession(c) PROVE TypeOK'
  <2>1. SessionTypes'
    BY Zenon, <1>23, TypeOK DEF TypeOK, SessionTypes, RegisterSession, Goto, Labels, LoginLabels
  <2>2. RuntimeTypes'
    BY Zenon, <1>23, TypeOK, ClaimTypes DEF TypeOK, RuntimeTypes, SessionTypes, RegisterSession, Goto, At, runtime
  <2>3. StoreTypes'
    BY Zenon, <1>23, TypeOK DEF TypeOK, StoreTypes, RegisterSession, store
  <2> QED BY Zenon, <2>1, <2>2, <2>3 DEF TypeOK
<1>24. ASSUME NEW c \in Conn, Greet(c) PROVE TypeOK'
  <2>1. SessionTypes'
    BY Zenon, <1>24, TypeOK DEF TypeOK, SessionTypes, Greet, EndHandshake, Goto, At, session, Labels, LoginLabels
  <2>2. RuntimeTypes'
    <3>1. hash[c] \in Hash /\ peer[c] \in Addr
      BY Zenon, <1>24, Goroutines DEF Goroutines, GoroutineOf, LoggingIn, LoginLabels, Greet, At
    <3> QED BY <1>24, <3>1, TypeOK DEF TypeOK, RuntimeTypes, Greet, EndHandshake, runtime
  <2>3. StoreTypes'
    BY Zenon, <1>24, TypeOK DEF TypeOK, StoreTypes, Greet, EndHandshake, store
  <2> QED BY Zenon, <2>1, <2>2, <2>3 DEF TypeOK
<1>25. ASSUME NEW c \in Conn, ReleaseStart(c) PROVE TypeOK'
  <2> DEFINE v == target[c]
  <2>1. v \in Conn
    BY Zenon, <1>25, Goroutines DEF Goroutines, GoroutineOf, ReleaseStart, At
  <2>2. SessionTypes'
    <3>1. rel' \in [Conn -> ReleaseState]
      BY <1>25, <2>1, TypeOK DEF TypeOK, SessionTypes, ReleaseStart, IDs, ReleaseState
    <3> QED BY Zenon, <1>25, <3>1, TypeOK DEF TypeOK, SessionTypes, ReleaseStart
  <2>3. RuntimeTypes'
    BY Zenon, <1>25, <2>1, TypeOK DEF TypeOK, RuntimeTypes, ReleaseStart, runtime
  <2>4. StoreTypes'
    BY Zenon, <1>25, TypeOK DEF TypeOK, StoreTypes, ReleaseStart, store
  <2> QED BY Zenon, <2>2, <2>3, <2>4 DEF TypeOK
<1>26. ASSUME NEW c \in Conn, ReleaseLowID(c) PROVE TypeOK'
  <2> DEFINE v == target[c]
  <2>1. v \in Conn
    BY Zenon, <1>26, Goroutines DEF Goroutines, GoroutineOf, ReleaseLowID, At
  <2>2. SessionTypes'
    <3>1. rel' \in [Conn -> ReleaseState]
      BY Zenon, <1>26, <2>1, TypeOK, StepTypes DEF TypeOK, SessionTypes, ReleaseLowID
    <3> QED BY Zenon, <1>26, <3>1, TypeOK DEF TypeOK, SessionTypes, ReleaseLowID
  <2>3. RuntimeTypes'
    BY Zenon, <1>26, <2>1, TypeOK DEF TypeOK, RuntimeTypes, ReleaseLowID, runtime
  <2>4. StoreTypes'
    BY Zenon, <1>26, TypeOK DEF TypeOK, StoreTypes, ReleaseLowID, store
  <2> QED BY Zenon, <2>2, <2>3, <2>4 DEF TypeOK
<1>27. ASSUME NEW c \in Conn, Unregister(c) PROVE TypeOK'
  <2> DEFINE v == target[c]
  <2>1. v \in Conn
    BY Zenon, <1>27, Goroutines DEF Goroutines, GoroutineOf, Unregister, At
  <2>2. SessionTypes'
    <3>1. rel' \in [Conn -> ReleaseState]
      BY Zenon, <1>27, <2>1, TypeOK, StepTypes DEF TypeOK, SessionTypes, Unregister
    <3> QED BY Zenon, <1>27, <3>1, TypeOK DEF TypeOK, SessionTypes, Unregister
  <2>3. RuntimeTypes'
    BY Zenon, <1>27, <2>1, TypeOK, ClaimTypes DEF TypeOK, RuntimeTypes, Unregister, runtime
  <2>4. StoreTypes'
    BY Zenon, <1>27, TypeOK DEF TypeOK, StoreTypes, Unregister, store
  <2> QED BY Zenon, <2>2, <2>3, <2>4 DEF TypeOK
<1>28. ASSUME NEW c \in Conn, ReleaseStore(c) PROVE TypeOK'
  <2>1. SessionTypes'
    BY Zenon, <1>28, TypeOK DEF TypeOK, SessionTypes, ReleaseStore, Disconnect, NotReleased, Goto, Labels, LoginLabels, IDs, ReleaseState
  <2>2. RuntimeTypes'
    BY Zenon, <1>28, TypeOK DEF TypeOK, RuntimeTypes, ReleaseStore, runtime
  <2>3. StoreTypes'
    BY Zenon, <1>28, TypeOK DEF TypeOK, StoreTypes, ReleaseStore, Disconnect, store
  <2> QED BY Zenon, <2>1, <2>2, <2>3 DEF TypeOK
<1>29. ASSUME NEW c \in Conn, ReleaseReturn(c) PROVE TypeOK'
  <2>1. SessionTypes'
    BY Zenon, <1>29, TypeOK, Goroutines DEF TypeOK, SessionTypes, Goroutines, GoroutineOf, ReleaseReturn, Goto, At, Labels, LoginLabels
  <2>2. RuntimeTypes'
    BY Zenon, <1>29, TypeOK DEF TypeOK, RuntimeTypes, ReleaseReturn, runtime
  <2>3. StoreTypes'
    BY Zenon, <1>29, TypeOK DEF TypeOK, StoreTypes, ReleaseReturn, store
  <2> QED BY Zenon, <2>1, <2>2, <2>3 DEF TypeOK
<1>30. CASE UNCHANGED vars
  BY Zenon, <1>30, TypeOK DEF vars, session, runtime, store, TypeOK, SessionTypes, RuntimeTypes, StoreTypes
<1> QED
  BY Zenon, <1>1, <1>2, <1>3, <1>4, <1>5, <1>6, <1>7, <1>8, <1>9, <1>10, <1>11, <1>12, <1>13, <1>14, <1>15, <1>16, <1>17, <1>18, <1>19, <1>20, <1>21, <1>22, <1>23, <1>24, <1>25, <1>26, <1>27, <1>28, <1>29, <1>30 DEF Next, Step, Arbitrate, AssignID, HandShake, Release

-----------------------------------------------------------------------------
\* The goroutines.

\* The labels of a login that has not reached storage.
Deciding == {"replace", "dualStack", "poke", "await", "recheck", "held", "orphan", "identify",
             "lowID", "takeOver", "lastCheck", "begin", "connect"}

\* Nothing of another goroutine, or of its session, changes.
Alone(c) ==
  \A d \in Conn : d # c =>
    /\ pc'[d] = pc[d] /\ target'[d] = target[d] /\ ret'[d] = ret[d]
    /\ peer'[d] = peer[d] /\ hash'[d] = hash[d] /\ logged'[d] = logged[d] /\ rel'[d] = rel[d]

\* A step of one connection's goroutine keeps what is known of the others.
LEMMA GoroutineFrame ==
  ASSUME Goroutines, NEW c \in Conn, Alone(c), Registered(c) => Registered(c)', GoroutineOf(c)'
  PROVE  Goroutines'
<1> SUFFICES ASSUME NEW d \in Conn, d # c PROVE GoroutineOf(d)'
  BY Zenon DEF Goroutines
<1>1. \A e \in Conn : Registered(e) => Registered(e)'
  BY Zenon DEF Alone, Registered
<1>2. GoroutineOf(d)
  BY Zenon DEF Goroutines
<1>3. /\ pc'[d] = pc[d] /\ target'[d] = target[d] /\ ret'[d] = ret[d] /\ peer'[d] = peer[d]
      /\ hash'[d] = hash[d] /\ logged'[d] = logged[d] /\ rel'[d] = rel[d]
  BY Zenon DEF Alone
<1> QED BY <1>1, <1>2, <1>3 DEF GoroutineOf, Registered, Leaving, LoggingIn

\* A step of a login that only moves its program counter.
Decides(c) ==
  /\ Alone(c)
  /\ pc[c] \in Deciding /\ pc'[c] \in Deciding \cup {"read"}
  /\ peer'[c] = peer[c] /\ hash'[c] = hash[c] /\ logged'[c] = logged[c] /\ rel'[c] = rel[c]

\* A login under arbitration is not logged in, and nobody releases it.
LEMMA NotYetLogged ==
  ASSUME Goroutines, NEW c \in Conn, pc[c] \in Deciding
  PROVE  ~logged[c] /\ rel[c].step = "idle" /\ hash[c] \in Hash /\ peer[c] \in Addr
BY ZenonT(60) DEF Goroutines, GoroutineOf, Deciding, Registered, Leaving, LoggingIn, LoginLabels

\* Arbitration.
LEMMA DecidesStep ==
  ASSUME Goroutines, NEW c \in Conn, Decides(c)
  PROVE  Goroutines'
<1>1. ~logged[c] /\ rel[c].step = "idle" /\ hash[c] \in Hash /\ peer[c] \in Addr
  BY Zenon, NotYetLogged DEF Decides
<1>2. GoroutineOf(c)'
  BY Zenon, <1>1 DEF Decides, Deciding, GoroutineOf
<1> QED BY Zenon, <1>1, <1>2, GoroutineFrame DEF Decides, Registered

\* A step of the release of session v by goroutine c, from one stage to the next.
Releases(c, from, to) ==
  /\ pc[c] = "release" /\ target[c] \in Conn
  /\ rel[target[c]].step = from /\ rel'[target[c]].step = to
  /\ \A d \in Conn : d # target[c] => rel'[d] = rel[d]
  /\ UNCHANGED <<pc, peer, logins, hash, id, logged, hasLowID, target, ret>>

\* A release begins with what it reads of its session.
LEMMA ReleaseStartMoves ==
  ASSUME TypeOK, Goroutines, NEW c \in Conn, ReleaseStart(c)
  PROVE  /\ Releases(c, "idle", "lowID")
         /\ rel'[target[c]].logged = logged[target[c]] /\ rel'[target[c]].hash = hash[target[c]]
         /\ rel'[target[c]].id = IF hasLowID[target[c]] THEN id[target[c]] ELSE None
<1>1. pc[c] = "release" /\ target[c] \in Conn
  BY Zenon DEF ReleaseStart, At, Goroutines, GoroutineOf
<1>2. rel \in [Conn -> ReleaseState]
  BY Zenon DEF TypeOK, SessionTypes
<1> QED BY Zenon, <1>1, <1>2 DEF Releases, ReleaseStart

\* It gives the LowID back.
LEMMA ReleaseLowIDMoves ==
  ASSUME TypeOK, Goroutines, NEW c \in Conn, ReleaseLowID(c)
  PROVE  /\ Releases(c, "lowID", "unregister")
         /\ rel'[target[c]].logged = rel[target[c]].logged
         /\ rel'[target[c]].hash = rel[target[c]].hash
<1>1. pc[c] = "release" /\ target[c] \in Conn
  BY Zenon DEF ReleaseLowID, At, Goroutines, GoroutineOf
<1>2. rel \in [Conn -> ReleaseState] /\ rel[target[c]] \in ReleaseState
  BY Zenon, <1>1 DEF TypeOK, SessionTypes
<1>3. rel' = [rel EXCEPT ![target[c]] = [rel[target[c]] EXCEPT !.step = "unregister"]]
  BY Zenon, <1>1, <1>2 DEF ReleaseLowID
<1> QED BY <1>1, <1>2, <1>3 DEF Releases, ReleaseLowID, ReleaseState

\* It leaves the indexes.
LEMMA UnregisterMoves ==
  ASSUME TypeOK, Goroutines, NEW c \in Conn, Unregister(c)
  PROVE  /\ Releases(c, "unregister", "disconnect")
         /\ rel'[target[c]].logged = rel[target[c]].logged
         /\ rel'[target[c]].hash = rel[target[c]].hash
<1>1. pc[c] = "release" /\ target[c] \in Conn
  BY Zenon DEF Unregister, At, Goroutines, GoroutineOf
<1>2. rel \in [Conn -> ReleaseState] /\ rel[target[c]] \in ReleaseState
  BY Zenon, <1>1 DEF TypeOK, SessionTypes
<1>3. rel' = [rel EXCEPT ![target[c]] = [rel[target[c]] EXCEPT !.step = "disconnect"]]
  BY Zenon, <1>1, <1>2 DEF Unregister
<1> QED BY <1>1, <1>2, <1>3 DEF Releases, Unregister, ReleaseState

\* It deletes the rows.
LEMMA ReleaseStoreMoves ==
  ASSUME TypeOK, Goroutines, NEW c \in Conn, ReleaseStore(c)
  PROVE  Releases(c, "disconnect", "done")
<1>1. pc[c] = "release" /\ target[c] \in Conn
  BY ZenonT(60) DEF ReleaseStore, At, Goroutines, GoroutineOf
<1>2. rel \in [Conn -> ReleaseState]
  BY Zenon DEF TypeOK, SessionTypes
<1> QED BY Zenon, <1>1, <1>2 DEF Releases, ReleaseStore, NotReleased

\* A step of a release keeps what is known of the goroutines.
LEMMA ReleasesStep ==
  ASSUME Goroutines, NEW c \in Conn, NEW from, NEW to, Releases(c, from, to),
         to \in {"lowID", "unregister", "disconnect"} =>
           rel'[target[c]].logged = logged[target[c]] /\ rel'[target[c]].hash = hash[target[c]]
  PROVE  Goroutines'
<1> DEFINE v == target[c]
<1>1. Registered(v) \/ Leaving(v)
  BY Zenon DEF Releases, Goroutines, GoroutineOf, Leaving
<1>2. \A e \in Conn : (Registered(e) <=> Registered(e)') /\ (Leaving(e) <=> Leaving(e)')
  BY Zenon DEF Releases, Registered, Leaving
<1> SUFFICES ASSUME NEW d \in Conn PROVE GoroutineOf(d)'
  BY Zenon DEF Goroutines
<1>3. GoroutineOf(d)
  BY Zenon DEF Goroutines
<1>4. d # v => rel'[d] = rel[d]
  BY Zenon DEF Releases
<1>5. rel'[v].step = to /\ v \in Conn
  BY Zenon DEF Releases
<1>6. UNCHANGED <<pc, peer, hash, logged, target, ret>>
  BY Zenon DEF Releases
<1>7. d = v /\ rel'[d].step \in {"lowID", "unregister", "disconnect"} =>
        rel'[d].logged = logged[d] /\ rel'[d].hash = hash[d]
  BY Zenon, <1>5
<1> HIDE DEF v
<1> QED BY Zenon, <1>1, <1>2, <1>3, <1>4, <1>6, <1>7 DEF GoroutineOf, LoggingIn

\* So does every step.
LEMMA GoroutinesStep ==
  ASSUME TypeOK, Goroutines, Indexed, [Next]_vars
  PROVE  Goroutines'
<1>a. /\ pc \in [Conn -> Labels] /\ target \in [Conn -> Conn \cup {None}]
      /\ ret \in [Conn -> {"untrack", "dualStack", "lastCheck", None}]
      /\ peer \in [Conn -> Addr \cup {None}] /\ hash \in [Conn -> Hash \cup {None}]
      /\ logged \in [Conn -> BOOLEAN]
  BY Zenon DEF TypeOK, SessionTypes
<1>1. ASSUME NEW c \in Conn, NEW a \in Addr, Accept(c, a) PROVE Goroutines'
  <2>1. /\ Alone(c) /\ pc[c] = "new" /\ pc'[c] = "read" /\ peer'[c] = a
        /\ UNCHANGED <<hash, logged, rel>>
    BY Zenon, <1>1, <1>a DEF Alone, Accept, Goto, At
  <2>2. ~logged[c] /\ rel[c].step = "idle"
    BY Zenon, <2>1 DEF Goroutines, GoroutineOf, Registered, Leaving, LoggingIn, LoginLabels
  <2>3. GoroutineOf(c)'
    BY Zenon, <2>1, <2>2 DEF GoroutineOf, Registered, Leaving, LoggingIn, LoginLabels
  <2> QED BY Zenon, <2>1, <2>2, <2>3, GoroutineFrame DEF Registered
<1>2. ASSUME NEW c \in Conn, NEW a \in Addr, Refuse(c, a) PROVE Goroutines'
  <2>1. Alone(c) /\ pc[c] = "new" /\ pc'[c] = "done" /\ UNCHANGED <<hash, logged, rel>>
    BY Zenon, <1>2, <1>a DEF Alone, Refuse, Goto, At
  <2>2. ~logged[c] /\ rel[c].step = "idle"
    BY Zenon, <2>1 DEF Goroutines, GoroutineOf, Registered, Leaving, LoggingIn, LoginLabels
  <2>3. GoroutineOf(c)'
    BY Zenon, <2>1, <2>2 DEF GoroutineOf, Registered, Leaving, LoggingIn, LoginLabels
  <2> QED BY Zenon, <2>1, <2>2, <2>3, GoroutineFrame DEF Registered
<1>3. ASSUME NEW c \in Conn, ReadEnds(c) PROVE Goroutines'
  <2>1. /\ Alone(c) /\ pc[c] = "read" /\ pc'[c] = "release"
        /\ target'[c] = c /\ ret'[c] = "untrack" /\ UNCHANGED <<peer, hash, logged, rel>>
    BY Zenon, <1>3, <1>a DEF Alone, ReadEnds, CallRelease, Goto, At
  <2>2. GoroutineOf(c)'
    BY ZenonT(60), <2>1 DEF Goroutines, GoroutineOf, Registered, Leaving, LoggingIn, LoginLabels
  <2> QED BY Zenon, <2>1, <2>2, GoroutineFrame DEF Registered
<1>4. ASSUME NEW c \in Conn, Untrack(c) PROVE Goroutines'
  <2>1. Alone(c) /\ pc[c] = "untrack" /\ pc'[c] = "done" /\ UNCHANGED <<peer, hash, logged, rel>>
    BY Zenon, <1>4, <1>a DEF Alone, Untrack, Goto, At
  <2>2. GoroutineOf(c)'
    BY Zenon, <2>1 DEF Goroutines, GoroutineOf, Registered, Leaving, LoggingIn, LoginLabels
  <2> QED BY Zenon, <2>1, <2>2, GoroutineFrame DEF Registered
<1>5. ASSUME NEW c \in Conn, OfferFiles(c) PROVE Goroutines'
  BY ZenonT(60), <1>5 DEF OfferFiles, session, Goroutines, GoroutineOf, Registered, Leaving, LoggingIn
<1>6. ASSUME NEW c \in Conn, NEW h \in Hash, NEW v6 \in Addr6 \cup {None}, NEW banned \in BOOLEAN, LoginRequest(c, h, v6, banned) PROVE Goroutines'
  <2>1. /\ Alone(c) /\ pc[c] = "read"
        /\ UNCHANGED <<peer, logged, rel, target, ret>>
        /\ \/ pc'[c] = "read" /\ hash'[c] = hash[c]
           \/ ~logged[c] /\ pc'[c] \in {"replace", "identify"} /\ hash'[c] = h
    <3>1. CASE logged[c] \/ banned
      BY Zenon, <1>6, <1>a, <3>1 DEF Alone, LoginRequest, CloseAndReturn, Goto, At
    <3>2. CASE ~(logged[c] \/ banned)
      BY Zenon, <1>6, <1>a, <3>2 DEF Alone, LoginRequest, Goto, At
    <3> QED BY Zenon, <3>1, <3>2
  <2>2. GoroutineOf(c)
    BY Zenon DEF Goroutines
  <2>3. CASE pc'[c] = "read" /\ hash'[c] = hash[c]
    <3>1. GoroutineOf(c)'
      BY Zenon, <2>1, <2>2, <2>3 DEF GoroutineOf, Registered, Leaving, LoggingIn, LoginLabels
    <3> QED BY Zenon, <2>1, <2>3, <3>1, GoroutineFrame DEF Registered
  <2>4. CASE ~logged[c] /\ pc'[c] \in {"replace", "identify"} /\ hash'[c] = h
    <3>1. GoroutineOf(c)'
      BY ZenonT(60), <2>1, <2>2, <2>4 DEF GoroutineOf, Registered, Leaving, LoggingIn, LoginLabels
    <3> QED BY ZenonT(60), <2>1, <2>4, <3>1, GoroutineFrame DEF Registered
  <2> QED BY Zenon, <2>1, <2>3, <2>4
<1>7. ASSUME NEW c \in Conn, ReplaceSameIP(c) PROVE Goroutines'
  <2> PICK old : old = IF sessionsByHash[hash[c]] \in {None, c} THEN None ELSE sessionsByHash[hash[c]]
    OBVIOUS
  <2>1. pc[c] \in Deciding
    BY Zenon, <1>7 DEF ReplaceSameIP, At, Deciding
  <2>2. ~logged[c] /\ rel[c].step = "idle" /\ hash[c] \in Hash /\ peer[c] \in Addr
    BY Zenon, <2>1, NotYetLogged
  <2>3. old # None => old \in Conn /\ old # c /\ Registered(old)
    <3>1. sessionsByHash[hash[c]] # None => sessionsByHash[hash[c]] \in Conn /\ Registered(sessionsByHash[hash[c]])
      BY Zenon, <2>2 DEF TypeOK, RuntimeTypes, Indexed
    <3> QED BY Zenon, <2>2, <3>1 DEF Registered
  <2>4. \/ old # None /\ CallRelease(c, old, "dualStack")
        \/ Goto(c, "dualStack") /\ UNCHANGED <<target, ret>>
    BY Zenon, <1>7, <2>2, <2>3, ConstantsOK DEF ReplaceSameIP
  <2>5. UNCHANGED <<peer, hash, logged, rel>>
    BY Zenon, <1>7 DEF ReplaceSameIP
  <2>6. CASE old # None /\ CallRelease(c, old, "dualStack")
    <3>1. Alone(c) /\ pc'[c] = "release" /\ target'[c] = old /\ ret'[c] = "dualStack"
      BY Zenon, <1>a, <2>5, <2>6 DEF Alone, CallRelease, Goto
    <3>2. logged'[old] /\ pc'[old] # "register"
      BY Zenon, <2>3, <2>5, <2>6, <3>1 DEF Registered, Alone
    <3>3. GoroutineOf(c)'
      BY ZenonT(60), <2>2, <2>3, <2>5, <2>6, <3>1, <3>2 DEF GoroutineOf, Registered, LoggingIn, Leaving
    <3> QED BY Zenon, <2>2, <3>1, <3>3, GoroutineFrame DEF Registered
  <2>7. CASE Goto(c, "dualStack") /\ UNCHANGED <<target, ret>>
    <3>1. Decides(c)
      BY Zenon, <1>a, <2>1, <2>5, <2>7 DEF Decides, Alone, Deciding, Goto
    <3> QED BY Zenon, <3>1, DecidesStep
  <2> QED BY Zenon, <2>4, <2>6, <2>7
<1>8. ASSUME NEW c \in Conn, DualStackCheck(c) PROVE Goroutines'
  <2>1. Decides(c)
    BY Zenon, <1>8, <1>a DEF Decides, Alone, Deciding, DualStackCheck, Goto, At
  <2> QED BY Zenon, <2>1, DecidesStep
<1>9. ASSUME NEW c \in Conn, Poke(c) PROVE Goroutines'
  <2>1. Decides(c)
    BY Zenon, <1>9, <1>a DEF Decides, Alone, Deciding, Poke, Goto, At
  <2> QED BY Zenon, <2>1, DecidesStep
<1>10. ASSUME NEW c \in Conn, ProbeDone(c) PROVE Goroutines'
  <2>1. Decides(c)
    BY Zenon, <1>10, <1>a DEF Decides, Alone, Deciding, ProbeDone, Goto, At
  <2> QED BY Zenon, <2>1, DecidesStep
<1>11. ASSUME NEW c \in Conn, Recheck(c) PROVE Goroutines'
  <2>1. Decides(c)
    BY Zenon, <1>11, <1>a DEF Decides, Alone, Deciding, Recheck, Goto, At
  <2> QED BY Zenon, <2>1, DecidesStep
<1>12. ASSUME NEW c \in Conn, HeldCheck(c) PROVE Goroutines'
  <2>1. Decides(c)
    BY Zenon, <1>12, <1>a DEF Decides, Alone, Deciding, HeldCheck, CloseAndReturn, Goto, At
  <2> QED BY Zenon, <2>1, DecidesStep
<1>13. ASSUME NEW c \in Conn, FreeOrphan(c) PROVE Goroutines'
  <2>1. Decides(c)
    BY Zenon, <1>13, <1>a DEF Decides, Alone, Deciding, FreeOrphan, Goto, At
  <2> QED BY Zenon, <2>1, DecidesStep
<1>14. ASSUME NEW c \in Conn, NEW r \in RequestID, Firewalled(c, r) PROVE Goroutines'
  <2>1. Decides(c)
    BY Zenon, <1>14, <1>a DEF Decides, Alone, Deciding, Firewalled, Goto, At
  <2> QED BY Zenon, <2>1, DecidesStep
<1>15. ASSUME NEW c \in Conn, Reachable(c) PROVE Goroutines'
  <2>1. Decides(c)
    BY Zenon, <1>15, <1>a DEF Decides, Alone, Deciding, Reachable, Goto, At
  <2> QED BY Zenon, <2>1, DecidesStep
<1>16. ASSUME NEW c \in Conn, NEW i \in LowID, AddLowID(c, i) PROVE Goroutines'
  <2>1. Decides(c)
    BY Zenon, <1>16, <1>a DEF Decides, Alone, Deciding, AddLowID, Goto, At
  <2> QED BY Zenon, <2>1, DecidesStep
<1>17. ASSUME NEW c \in Conn, LowIDPoolExhausted(c) PROVE Goroutines'
  <2>1. Decides(c)
    BY Zenon, <1>17, <1>a DEF Decides, Alone, Deciding, LowIDPoolExhausted, CloseAndReturn, Goto, At
  <2> QED BY Zenon, <2>1, DecidesStep
<1>18. ASSUME NEW c \in Conn, TakeOver(c) PROVE Goroutines'
  <2> PICK old : old = DualStackHandoverFrom(c, hash[c])
    OBVIOUS
  <2>1. pc[c] \in Deciding
    BY Zenon, <1>18 DEF TakeOver, At, Deciding
  <2>2. ~logged[c] /\ rel[c].step = "idle" /\ hash[c] \in Hash /\ peer[c] \in Addr
    BY Zenon, <2>1, NotYetLogged
  <2>3. old # None => old \in Conn /\ old # c /\ Registered(old)
    <3>1. sessionsByHash[hash[c]] # None => sessionsByHash[hash[c]] \in Conn /\ Registered(sessionsByHash[hash[c]])
      BY Zenon, <2>2 DEF TypeOK, RuntimeTypes, Indexed
    <3> QED BY Zenon, <2>2, <3>1 DEF Registered, DualStackHandoverFrom
  <2>4. \/ old # None /\ CallRelease(c, old, "lastCheck")
        \/ (Goto(c, "lastCheck") \/ Goto(c, "begin")) /\ UNCHANGED <<target, ret>>
    BY Zenon, <1>18, <2>2, <2>3, ConstantsOK DEF TakeOver
  <2>5. UNCHANGED <<peer, hash, logged, rel>>
    BY Zenon, <1>18 DEF TakeOver
  <2>6. CASE old # None /\ CallRelease(c, old, "lastCheck")
    <3>1. Alone(c) /\ pc'[c] = "release" /\ target'[c] = old /\ ret'[c] = "lastCheck"
      BY Zenon, <1>a, <2>5, <2>6 DEF Alone, CallRelease, Goto
    <3>2. logged'[old] /\ pc'[old] # "register"
      BY Zenon, <2>3, <2>5, <2>6, <3>1 DEF Registered, Alone
    <3>3. GoroutineOf(c)'
      BY Zenon, <2>2, <2>3, <2>5, <2>6, <3>1, <3>2 DEF GoroutineOf, Registered, LoggingIn, Leaving
    <3> QED BY Zenon, <2>2, <3>1, <3>3, GoroutineFrame DEF Registered
  <2>7. CASE (Goto(c, "lastCheck") \/ Goto(c, "begin")) /\ UNCHANGED <<target, ret>>
    <3>1. Decides(c)
      BY Zenon, <1>a, <2>1, <2>5, <2>7 DEF Decides, Alone, Deciding, Goto
    <3> QED BY Zenon, <3>1, DecidesStep
  <2> QED BY Zenon, <2>4, <2>6, <2>7
<1>19. ASSUME NEW c \in Conn, LastCheck(c) PROVE Goroutines'
  <2>1. Decides(c)
    BY Zenon, <1>19, <1>a DEF Decides, Alone, Deciding, LastCheck, CloseAndReturn, Goto, At
  <2> QED BY Zenon, <2>1, DecidesStep
<1>20. ASSUME NEW c \in Conn, BeginHandshake(c) PROVE Goroutines'
  <2>1. Decides(c)
    BY Zenon, <1>20, <1>a DEF Decides, Alone, Deciding, BeginHandshake, Goto, At
  <2> QED BY Zenon, <2>1, DecidesStep
<1>21. ASSUME NEW c \in Conn, StoreConnect(c) PROVE Goroutines'
  <2>1. /\ Alone(c) /\ pc[c] = "connect" /\ pc'[c] = "register" /\ logged'[c]
        /\ UNCHANGED <<peer, hash, rel>>
    BY Zenon, <1>21, <1>a DEF Alone, StoreConnect, Goto, At
  <2>2. ~logged[c] /\ rel[c].step = "idle" /\ hash[c] \in Hash /\ peer[c] \in Addr
    BY Zenon, <2>1, NotYetLogged DEF Deciding
  <2>3. GoroutineOf(c)'
    BY Zenon, <2>1, <2>2 DEF GoroutineOf
  <2> QED BY Zenon, <2>1, <2>2, <2>3, GoroutineFrame DEF Registered
<1>22. ASSUME NEW c \in Conn, StoreConnectFails(c) PROVE Goroutines'
  <2>1. Decides(c)
    BY Zenon, <1>22, <1>a DEF Decides, Alone, Deciding, StoreConnectFails, CloseAndReturn, Goto, At
  <2> QED BY Zenon, <2>1, DecidesStep
<1>23. ASSUME NEW c \in Conn, RegisterSession(c) PROVE Goroutines'
  <2>1. Alone(c) /\ pc[c] = "register" /\ pc'[c] = "greet" /\ UNCHANGED <<peer, hash, logged, rel>>
    BY Zenon, <1>23, <1>a DEF Alone, RegisterSession, Goto, At
  <2>2. GoroutineOf(c)'
    BY Zenon, <2>1 DEF Goroutines, GoroutineOf, Registered, Leaving, LoggingIn, LoginLabels
  <2> QED BY Zenon, <2>1, <2>2, GoroutineFrame DEF Registered
<1>24. ASSUME NEW c \in Conn, Greet(c) PROVE Goroutines'
  <2>1. Alone(c) /\ pc[c] = "greet" /\ pc'[c] = "read" /\ UNCHANGED <<peer, hash, logged, rel>>
    BY Zenon, <1>24, <1>a DEF Alone, Greet, Goto, At
  <2>2. GoroutineOf(c)'
    BY Zenon, <2>1 DEF Goroutines, GoroutineOf, Registered, Leaving, LoggingIn, LoginLabels
  <2> QED BY Zenon, <2>1, <2>2, GoroutineFrame DEF Registered
<1>25. ASSUME NEW c \in Conn, ReleaseStart(c) PROVE Goroutines'
  BY Zenon, <1>25, ReleaseStartMoves, ReleasesStep
<1>26. ASSUME NEW c \in Conn, ReleaseLowID(c) PROVE Goroutines'
  <2>1. rel[target[c]].logged = logged[target[c]] /\ rel[target[c]].hash = hash[target[c]]
    BY Zenon, <1>26, ReleaseLowIDMoves DEF Releases, Goroutines, GoroutineOf
  <2> QED BY Zenon, <1>26, <2>1, ReleaseLowIDMoves, ReleasesStep
<1>27. ASSUME NEW c \in Conn, Unregister(c) PROVE Goroutines'
  <2>1. rel[target[c]].logged = logged[target[c]] /\ rel[target[c]].hash = hash[target[c]]
    BY Zenon, <1>27, UnregisterMoves DEF Releases, Goroutines, GoroutineOf
  <2> QED BY Zenon, <1>27, <2>1, UnregisterMoves, ReleasesStep
<1>28. ASSUME NEW c \in Conn, ReleaseStore(c) PROVE Goroutines'
  <2>1. ~("done" \in {"lowID", "unregister", "disconnect"})
    OBVIOUS
  <2> QED BY Zenon, <1>28, <2>1, ReleaseStoreMoves, ReleasesStep
<1>29. ASSUME NEW c \in Conn, ReleaseReturn(c) PROVE Goroutines'
  <2>1. /\ Alone(c) /\ pc[c] = "release" /\ pc'[c] = ret[c]
        /\ rel[target[c]].step = "done" /\ UNCHANGED <<peer, hash, logged, rel>>
    BY Zenon, <1>29, <1>a DEF Alone, ReleaseReturn, Goto, At
  <2>2. GoroutineOf(c)
    BY Zenon DEF Goroutines
  <2>3. GoroutineOf(c)'
    BY Zenon, <2>1, <2>2 DEF GoroutineOf, Registered, Leaving, LoggingIn, LoginLabels
  <2>4. Registered(c) => Registered(c)'
    BY Zenon, <2>1, <2>2 DEF GoroutineOf, Registered
  <2> QED BY Zenon, <2>1, <2>3, <2>4, GoroutineFrame
<1>30. CASE UNCHANGED vars
  BY ZenonT(60), <1>30 DEF vars, session, Goroutines, GoroutineOf, Registered, Leaving, LoggingIn
<1> QED
  BY Zenon, <1>1, <1>2, <1>3, <1>4, <1>5, <1>6, <1>7, <1>8, <1>9, <1>10, <1>11, <1>12, <1>13, <1>14, <1>15, <1>16, <1>17, <1>18, <1>19, <1>20, <1>21, <1>22, <1>23, <1>24, <1>25, <1>26, <1>27, <1>28, <1>29, <1>30 DEF Next, Step, Arbitrate, AssignID, HandShake, Release
-----------------------------------------------------------------------------
\* Quiet steps.

\* The session has a row.
Row(d) == \E r \in rows : r[2] = d

\* A step that leaves the index, the claims and the releases alone, changes no
\* hash of a logged-in session and takes no session back before
\* registerSession; the memory engine gains no row by it, a source only of a
\* session still served, and no source loses its row.
Quiet ==
  /\ UNCHANGED <<logged, rel, sessionsByHash, sessionsByEd3k>>
  /\ \A d \in Conn : logged[d] => hash'[d] = hash[d]
  /\ \A d \in Conn : pc'[d] = "register" => pc[d] = "register"
  /\ ~RowPerHash => /\ rows' \subseteq rows
                    /\ \A d \in sources' : d \in sources \/ (logged[d] /\ rel[d].step # "done")
                    /\ \A d \in sources' : (d \in sources => Row(d)) => Row(d)'

\* The steps that are not: the login reaching storage, and the release.
Loud(c) ==
  \/ StoreConnect(c) \/ RegisterSession(c)
  \/ ReleaseStart(c) \/ ReleaseLowID(c) \/ Unregister(c) \/ ReleaseStore(c)

\* Disconnect of the memory engine takes away the row and the sources of one
\* session.
LEMMA DisconnectKeepsRows ==
  ASSUME ~RowPerHash, ~StoreFails, NEW c, NEW h, Disconnect(c, h), NEW d \in sources', Row(d)
  PROVE  Row(d)'
<1>1. /\ rows' = {r \in rows : ~(r[1] = h /\ r[2] = c)}
      /\ sources' = sources \ {c}
  BY Zenon DEF Disconnect
<1> QED BY Zenon, <1>1 DEF Row

\* A step leaves indexes and rows alone, or is one of those listed.
LEMMA QuietOrLoud ==
  ASSUME TypeOK, Goroutines, [Next]_vars
  PROVE  Quiet \/ \E c \in Conn : Loud(c)
<1>a. pc \in [Conn -> Labels] /\ hash \in [Conn -> Hash \cup {None}]
  BY Zenon DEF TypeOK, SessionTypes
<1>b. ~RowPerHash => ~StoreFails
  BY Zenon, ConstantsOK
<1>1. ASSUME NEW c \in Conn, NEW a \in Addr, Accept(c, a) PROVE Quiet
  <2>1. \A d \in Conn : pc'[d] = "register" => pc[d] = "register"
    BY Zenon, <1>1, <1>a DEF Accept, Goto
  <2>2. UNCHANGED <<logged, rel, hash, sessionsByHash, sessionsByEd3k, store>>
    BY Zenon, <1>1 DEF Accept
  <2> QED BY Zenon, <2>1, <2>2 DEF Quiet, Row, store
<1>2. ASSUME NEW c \in Conn, NEW a \in Addr, Refuse(c, a) PROVE Quiet
  <2>1. \A d \in Conn : pc'[d] = "register" => pc[d] = "register"
    BY Zenon, <1>2, <1>a DEF Refuse, Goto
  <2>2. UNCHANGED <<logged, rel, hash, runtime, store>>
    BY Zenon, <1>2 DEF Refuse
  <2> QED BY Zenon, <2>1, <2>2 DEF Quiet, Row, runtime, store
<1>3. ASSUME NEW c \in Conn, ReadEnds(c) PROVE Quiet
  <2>1. \A d \in Conn : pc'[d] = "register" => pc[d] = "register"
    BY Zenon, <1>3, <1>a DEF ReadEnds, CallRelease, Goto
  <2>2. UNCHANGED <<logged, rel, hash, runtime, store>>
    BY Zenon, <1>3 DEF ReadEnds
  <2> QED BY Zenon, <2>1, <2>2 DEF Quiet, Row, runtime, store
<1>4. ASSUME NEW c \in Conn, Untrack(c) PROVE Quiet
  <2>1. \A d \in Conn : pc'[d] = "register" => pc[d] = "register"
    BY Zenon, <1>4, <1>a DEF Untrack, Goto
  <2>2. UNCHANGED <<logged, rel, hash, sessionsByHash, sessionsByEd3k, store>>
    BY Zenon, <1>4 DEF Untrack
  <2> QED BY Zenon, <2>1, <2>2 DEF Quiet, Row, store
<1>5. ASSUME NEW c \in Conn, OfferFiles(c) PROVE Quiet
  <2>1. UNCHANGED <<pc, hash, logged, rel, sessionsByHash, sessionsByEd3k, rows>>
    BY Zenon, <1>5 DEF OfferFiles, session, runtime
  <2>2. ASSUME ~RowPerHash, NEW d \in sources', d \notin sources
        PROVE  logged[d] /\ rel[d].step # "done" /\ <<hash[d], d>> \in rows
    BY Zenon, <1>5, <2>2 DEF OfferFiles
  <2> QED BY Zenon, <2>1, <2>2 DEF Quiet, Row
<1>6. ASSUME NEW c \in Conn, NEW h \in Hash, NEW v6 \in Addr6 \cup {None}, NEW banned \in BOOLEAN, LoginRequest(c, h, v6, banned) PROVE Quiet
  <2>1. \A d \in Conn : logged[d] => hash'[d] = hash[d]
    BY Zenon, <1>6, <1>a DEF LoginRequest
  <2>2. \A d \in Conn : pc'[d] = "register" => pc[d] = "register"
    BY Zenon, <1>6, <1>a DEF LoginRequest, CloseAndReturn, Goto
  <2>3. UNCHANGED <<logged, rel, runtime, store>>
    BY Zenon, <1>6 DEF LoginRequest
  <2> QED BY Zenon, <2>1, <2>2, <2>3 DEF Quiet, Row, runtime, store
<1>7. ASSUME NEW c \in Conn, ReplaceSameIP(c) PROVE Quiet
  <2>1. \A d \in Conn : pc'[d] = "register" => pc[d] = "register"
    BY Zenon, <1>7, <1>a DEF ReplaceSameIP, CallRelease, Goto
  <2>2. UNCHANGED <<logged, rel, hash, runtime, store>>
    BY Zenon, <1>7 DEF ReplaceSameIP
  <2> QED BY Zenon, <2>1, <2>2 DEF Quiet, Row, runtime, store
<1>8. ASSUME NEW c \in Conn, DualStackCheck(c) PROVE Quiet
  <2>1. \A d \in Conn : pc'[d] = "register" => pc[d] = "register"
    BY Zenon, <1>8, <1>a DEF DualStackCheck, Goto
  <2>2. UNCHANGED <<logged, rel, hash, runtime, store>>
    BY Zenon, <1>8 DEF DualStackCheck
  <2> QED BY Zenon, <2>1, <2>2 DEF Quiet, Row, runtime, store
<1>9. ASSUME NEW c \in Conn, Poke(c) PROVE Quiet
  <2>1. \A d \in Conn : pc'[d] = "register" => pc[d] = "register"
    BY Zenon, <1>9, <1>a DEF Poke, Goto
  <2>2. UNCHANGED <<logged, rel, hash, runtime, store>>
    BY Zenon, <1>9 DEF Poke
  <2> QED BY Zenon, <2>1, <2>2 DEF Quiet, Row, runtime, store
<1>10. ASSUME NEW c \in Conn, ProbeDone(c) PROVE Quiet
  <2>1. \A d \in Conn : pc'[d] = "register" => pc[d] = "register"
    BY Zenon, <1>10, <1>a DEF ProbeDone, Goto
  <2>2. UNCHANGED <<logged, rel, hash, runtime, store>>
    BY Zenon, <1>10 DEF ProbeDone
  <2> QED BY Zenon, <2>1, <2>2 DEF Quiet, Row, runtime, store
<1>11. ASSUME NEW c \in Conn, Recheck(c) PROVE Quiet
  <2>1. \A d \in Conn : pc'[d] = "register" => pc[d] = "register"
    BY Zenon, <1>11, <1>a DEF Recheck, Goto
  <2>2. UNCHANGED <<logged, rel, hash, runtime, store>>
    BY Zenon, <1>11 DEF Recheck
  <2> QED BY Zenon, <2>1, <2>2 DEF Quiet, Row, runtime, store
<1>12. ASSUME NEW c \in Conn, HeldCheck(c) PROVE Quiet
  <2>1. \A d \in Conn : pc'[d] = "register" => pc[d] = "register"
    BY Zenon, <1>12, <1>a DEF HeldCheck, CloseAndReturn, Goto
  <2>2. UNCHANGED <<logged, rel, hash, runtime, store>>
    BY Zenon, <1>12 DEF HeldCheck
  <2> QED BY Zenon, <2>1, <2>2 DEF Quiet, Row, runtime, store
<1>13. ASSUME NEW c \in Conn, FreeOrphan(c) PROVE Quiet
  <2>1. \A d \in Conn : pc'[d] = "register" => pc[d] = "register"
    BY Zenon, <1>13, <1>a DEF FreeOrphan, Goto
  <2>2. ~RowPerHash => rows' \subseteq rows /\ sources' \subseteq sources
    BY Zenon, <1>13, <1>b DEF FreeOrphan, DisconnectHash, Disconnect, store
  <2>3. UNCHANGED <<logged, rel, hash, runtime>>
    BY Zenon, <1>13 DEF FreeOrphan
  <2>4. ASSUME ~RowPerHash, NEW d \in sources', Row(d) PROVE Row(d)'
    <3>1. CASE UNCHANGED store
      BY Zenon, <2>4, <3>1 DEF Row, store
    <3>2. CASE Disconnect(clientsByHash[hash[c]], hash[c])
      BY Zenon, <1>b, <2>4, <3>2, DisconnectKeepsRows
    <3> QED BY Zenon, <1>13, <3>1, <3>2 DEF FreeOrphan, DisconnectHash
  <2> QED BY Zenon, <2>1, <2>2, <2>3, <2>4 DEF Quiet, runtime
<1>14. ASSUME NEW c \in Conn, NEW r \in RequestID, Firewalled(c, r) PROVE Quiet
  <2>1. \A d \in Conn : pc'[d] = "register" => pc[d] = "register"
    BY Zenon, <1>14, <1>a DEF Firewalled, Goto
  <2>2. UNCHANGED <<logged, rel, hash, runtime, store>>
    BY Zenon, <1>14 DEF Firewalled
  <2> QED BY Zenon, <2>1, <2>2 DEF Quiet, Row, runtime, store
<1>15. ASSUME NEW c \in Conn, Reachable(c) PROVE Quiet
  <2>1. \A d \in Conn : pc'[d] = "register" => pc[d] = "register"
    BY Zenon, <1>15, <1>a DEF Reachable, Goto
  <2>2. UNCHANGED <<logged, rel, hash, runtime, store>>
    BY Zenon, <1>15 DEF Reachable
  <2> QED BY Zenon, <2>1, <2>2 DEF Quiet, Row, runtime, store
<1>16. ASSUME NEW c \in Conn, NEW i \in LowID, AddLowID(c, i) PROVE Quiet
  <2>1. \A d \in Conn : pc'[d] = "register" => pc[d] = "register"
    BY Zenon, <1>16, <1>a DEF AddLowID, Goto
  <2>2. UNCHANGED <<logged, rel, hash, sessionsByHash, sessionsByEd3k, store>>
    BY Zenon, <1>16 DEF AddLowID
  <2> QED BY Zenon, <2>1, <2>2 DEF Quiet, Row, store
<1>17. ASSUME NEW c \in Conn, LowIDPoolExhausted(c) PROVE Quiet
  <2>1. \A d \in Conn : pc'[d] = "register" => pc[d] = "register"
    BY Zenon, <1>17, <1>a DEF LowIDPoolExhausted, CloseAndReturn, Goto
  <2>2. UNCHANGED <<logged, rel, hash, runtime, store>>
    BY Zenon, <1>17 DEF LowIDPoolExhausted
  <2> QED BY Zenon, <2>1, <2>2 DEF Quiet, Row, runtime, store
<1>18. ASSUME NEW c \in Conn, TakeOver(c) PROVE Quiet
  <2>1. \A d \in Conn : pc'[d] = "register" => pc[d] = "register"
    BY Zenon, <1>18, <1>a DEF TakeOver, CallRelease, Goto
  <2>2. UNCHANGED <<logged, rel, hash, runtime, store>>
    BY Zenon, <1>18 DEF TakeOver
  <2> QED BY Zenon, <2>1, <2>2 DEF Quiet, Row, runtime, store
<1>19. ASSUME NEW c \in Conn, LastCheck(c) PROVE Quiet
  <2>1. \A d \in Conn : pc'[d] = "register" => pc[d] = "register"
    BY Zenon, <1>19, <1>a DEF LastCheck, CloseAndReturn, Goto
  <2>2. UNCHANGED <<logged, rel, hash, runtime, store>>
    BY Zenon, <1>19 DEF LastCheck
  <2> QED BY Zenon, <2>1, <2>2 DEF Quiet, Row, runtime, store
<1>20. ASSUME NEW c \in Conn, BeginHandshake(c) PROVE Quiet
  <2>1. \A d \in Conn : pc'[d] = "register" => pc[d] = "register"
    BY Zenon, <1>20, <1>a DEF BeginHandshake, Goto
  <2>2. UNCHANGED <<logged, rel, hash, sessionsByHash, sessionsByEd3k, store>>
    BY Zenon, <1>20 DEF BeginHandshake
  <2> QED BY Zenon, <2>1, <2>2 DEF Quiet, Row, store
<1>22. ASSUME NEW c \in Conn, StoreConnectFails(c) PROVE Quiet
  <2>1. \A d \in Conn : pc'[d] = "register" => pc[d] = "register"
    BY Zenon, <1>22, <1>a DEF StoreConnectFails, CloseAndReturn, Goto
  <2>2. StoreFails /\ UNCHANGED <<logged, rel, hash, sessionsByHash, sessionsByEd3k>>
    BY Zenon, <1>22 DEF StoreConnectFails
  <2> QED BY Zenon, <1>b, <2>1, <2>2 DEF Quiet
<1>24. ASSUME NEW c \in Conn, Greet(c) PROVE Quiet
  <2>1. \A d \in Conn : pc'[d] = "register" => pc[d] = "register"
    BY Zenon, <1>24, <1>a DEF Greet, Goto
  <2>2. UNCHANGED <<logged, rel, hash, sessionsByHash, sessionsByEd3k, store>>
    BY Zenon, <1>24 DEF Greet
  <2> QED BY Zenon, <2>1, <2>2 DEF Quiet, Row, store
<1>29. ASSUME NEW c \in Conn, ReleaseReturn(c) PROVE Quiet
  <2>1. ret[c] # "register"
    BY Zenon, <1>29 DEF Goroutines, GoroutineOf, ReleaseReturn, At
  <2>2. \A d \in Conn : pc'[d] = "register" => pc[d] = "register"
    BY Zenon, <1>29, <1>a, <2>1 DEF ReleaseReturn, Goto
  <2>3. UNCHANGED <<logged, rel, hash, runtime, store>>
    BY Zenon, <1>29 DEF ReleaseReturn
  <2> QED BY Zenon, <2>2, <2>3 DEF Quiet, Row, runtime, store
<1>30. CASE UNCHANGED vars
  BY Zenon, <1>30 DEF vars, session, runtime, store, Quiet, Row
<1> QED
  BY Zenon, <1>1, <1>2, <1>3, <1>4, <1>5, <1>6, <1>7, <1>8, <1>9, <1>10, <1>11, <1>12, <1>13, <1>14, <1>15, <1>16, <1>17, <1>18, <1>19, <1>20, <1>22, <1>24, <1>29, <1>30 DEF Next, Step, Arbitrate, AssignID, HandShake, Release, Loud
-----------------------------------------------------------------------------
\* The hash index.

\* Every step keeps the hash index.
LEMMA IndexedStep ==
  ASSUME TypeOK, Goroutines, Indexed, [Next]_vars
  PROVE  Indexed'
<1>a. /\ pc \in [Conn -> Labels] /\ logged \in [Conn -> BOOLEAN]
      /\ sessionsByHash \in [Hash -> Conn \cup {None}]
  BY Zenon DEF TypeOK, SessionTypes, RuntimeTypes
<1>q. CASE Quiet
  <2> SUFFICES ASSUME NEW h \in Hash, sessionsByHash'[h] # None
               PROVE  /\ logged'[sessionsByHash'[h]] /\ pc'[sessionsByHash'[h]] # "register"
                      /\ hash'[sessionsByHash'[h]] = h
                      /\ rel'[sessionsByHash'[h]].step \notin {"disconnect", "done"}
    BY Zenon DEF Indexed, Registered
  <2>1. /\ sessionsByHash'[h] = sessionsByHash[h] /\ sessionsByHash[h] \in Conn
        /\ logged' = logged /\ rel' = rel
    BY Zenon, <1>a, <1>q DEF Quiet
  <2>2. /\ Registered(sessionsByHash[h]) /\ hash[sessionsByHash[h]] = h
        /\ rel[sessionsByHash[h]].step \notin {"disconnect", "done"}
    BY Zenon, <2>1 DEF Indexed
  <2>3. hash'[sessionsByHash[h]] = hash[sessionsByHash[h]] /\ pc'[sessionsByHash[h]] # "register"
    BY Zenon, <1>q, <2>1, <2>2 DEF Quiet, Registered
  <2> QED BY Zenon, <2>1, <2>2, <2>3 DEF Registered
<1>r. ASSUME NEW c \in Conn, NEW from, NEW to, Releases(c, from, to), UNCHANGED sessionsByHash,
             to \in {"disconnect", "done"} => from \in {"disconnect", "done"}
      PROVE  Indexed'
  <2>0. UNCHANGED <<pc, hash, logged, sessionsByHash>>
    BY Zenon, <1>r DEF Releases
  <2> SUFFICES ASSUME NEW h \in Hash, sessionsByHash[h] # None
               PROVE  rel'[sessionsByHash[h]].step \notin {"disconnect", "done"}
    BY ZenonT(60), <2>0 DEF Indexed, Registered
  <2>1. sessionsByHash[h] \in Conn /\ rel[sessionsByHash[h]].step \notin {"disconnect", "done"}
    BY Zenon, <1>a DEF Indexed
  <2> QED BY ZenonT(60), <1>r, <2>1 DEF Releases
<1>21. ASSUME NEW c \in Conn, StoreConnect(c) PROVE Indexed'
  <2>1. ~logged[c]
    BY Zenon, <1>21, NotYetLogged DEF StoreConnect, At, Deciding
  <2>2. /\ \A d \in Conn : d # c => pc'[d] = pc[d] /\ logged'[d] = logged[d]
        /\ UNCHANGED <<hash, rel, sessionsByHash>>
    BY Zenon, <1>21, <1>a DEF StoreConnect, Goto, runtime
  <2>3. \A d \in Conn : Registered(d) => d # c /\ Registered(d)'
    BY Zenon, <2>1, <2>2 DEF Registered
  <2> QED BY ZenonT(60), <1>a, <2>2, <2>3 DEF Indexed
<1>23. ASSUME NEW c \in Conn, RegisterSession(c) PROVE Indexed'
  <2>1. logged[c] /\ rel[c].step = "idle" /\ hash[c] \in Hash
    BY Zenon, <1>23 DEF Goroutines, GoroutineOf, Registered, Leaving, RegisterSession, At
  <2>2. /\ \A d \in Conn : pc'[d] = pc[d] \/ pc'[d] = "greet"
        /\ pc'[c] = "greet"
        /\ \A h \in Hash : sessionsByHash'[h] = IF h = hash[c] THEN c ELSE sessionsByHash[h]
        /\ UNCHANGED <<logged, hash, rel>>
    BY Zenon, <1>23, <1>a DEF RegisterSession, Goto
  <2> SUFFICES ASSUME NEW h \in Hash, sessionsByHash'[h] # None
               PROVE  /\ logged'[sessionsByHash'[h]] /\ pc'[sessionsByHash'[h]] # "register"
                      /\ hash'[sessionsByHash'[h]] = h
                      /\ rel'[sessionsByHash'[h]].step \notin {"disconnect", "done"}
    BY Zenon DEF Indexed, Registered
  <2>3. CASE h = hash[c]
    BY Zenon, <2>1, <2>2, <2>3
  <2>4. CASE h # hash[c]
    <3>1. sessionsByHash'[h] = sessionsByHash[h] /\ sessionsByHash[h] \in Conn
      BY Zenon, <1>a, <2>2, <2>4
    <3>2. /\ logged[sessionsByHash[h]] /\ pc[sessionsByHash[h]] # "register"
          /\ hash[sessionsByHash[h]] = h
          /\ rel[sessionsByHash[h]].step \notin {"disconnect", "done"}
      BY Zenon, <3>1 DEF Indexed, Registered
    <3>3. pc'[sessionsByHash[h]] # "register"
      BY Zenon, <2>2, <3>1, <3>2
    <3> QED BY Zenon, <2>2, <3>1, <3>2, <3>3
  <2> QED BY Zenon, <2>3, <2>4
<1>25. ASSUME NEW c \in Conn, ReleaseStart(c) PROVE Indexed'
  <2>1. UNCHANGED sessionsByHash
    BY Zenon, <1>25 DEF ReleaseStart, runtime
  <2> QED BY Zenon, <1>25, <1>r, <2>1, ReleaseStartMoves
<1>26. ASSUME NEW c \in Conn, ReleaseLowID(c) PROVE Indexed'
  <2>1. UNCHANGED sessionsByHash
    BY Zenon, <1>26 DEF ReleaseLowID
  <2> QED BY Zenon, <1>26, <1>r, <2>1, ReleaseLowIDMoves
<1>27. ASSUME NEW c \in Conn, Unregister(c) PROVE Indexed'
  <2> PICK v : v = target[c]
    BY ZenonT(60)
  <2>1. /\ v \in Conn /\ rel[v].step = "unregister"
        /\ UNCHANGED <<pc, logged, hash>>
        /\ \A d \in Conn : d # v => rel'[d] = rel[d]
    BY Zenon, <1>27, UnregisterMoves DEF Releases
  <2>2. rel[v].logged = logged[v] /\ rel[v].hash = hash[v] /\ (logged[v] => hash[v] \in Hash)
    BY Zenon, <2>1 DEF Goroutines, GoroutineOf
  <2>3. sessionsByHash' = IF logged[v] /\ sessionsByHash[hash[v]] = v
                          THEN [sessionsByHash EXCEPT ![hash[v]] = None] ELSE sessionsByHash
    BY Zenon, <1>27, <2>2 DEF Unregister
  <2>4. \A h \in Hash : sessionsByHash[h] = v => logged[v] /\ hash[v] = h
    <3>1. v # None
      BY Zenon, <2>1, ConstantsOK
    <3> QED BY Zenon, <3>1 DEF Indexed, Registered
  <2>5. \A h \in Hash : sessionsByHash'[h] # None => sessionsByHash'[h] = sessionsByHash[h] /\ sessionsByHash[h] # v
    BY Zenon, <1>a, <2>2, <2>3, <2>4
  <2> QED BY <1>a, <2>1, <2>5 DEF Indexed, Registered
<1>28. ASSUME NEW c \in Conn, ReleaseStore(c) PROVE Indexed'
  <2>1. UNCHANGED sessionsByHash
    BY Zenon, <1>28 DEF ReleaseStore, runtime
  <2> QED BY Zenon, <1>28, <1>r, <2>1, ReleaseStoreMoves
<1> QED BY Zenon, <1>q, <1>21, <1>23, <1>25, <1>26, <1>27, <1>28, QuietOrLoud DEF Loud

-----------------------------------------------------------------------------
\* Type correctness and the hash index.

IndexInv == TypeOK /\ Goroutines /\ Indexed

\* The inductive invariant.
LEMMA IndexInvariant == Spec => []IndexInv
<1>1. Init => IndexInv
  <2> SUFFICES ASSUME Init PROVE IndexInv
    OBVIOUS
  <2>1. TypeOK
    <3>1. NotReleased \in ReleaseState
      BY Zenon DEF NotReleased, ReleaseState, IDs
    <3>2. 0 \in 0..MaxLogins
      BY ConstantsOK
    <3>3. SessionTypes
      BY Zenon, <3>1, <3>2 DEF Init, SessionTypes, Labels, IDs
    <3>4. RuntimeTypes
      BY DEF Init, RuntimeTypes
    <3>5. StoreTypes
      BY Zenon DEF Init, StoreTypes
    <3> QED BY Zenon, <3>3, <3>4, <3>5 DEF TypeOK
  <2>2. Goroutines
    BY Zenon DEF Init, Goroutines, GoroutineOf, LoggingIn, LoginLabels, NotReleased
  <2>3. Indexed
    BY Zenon DEF Init, Indexed
  <2> QED BY Zenon, <2>1, <2>2, <2>3 DEF IndexInv
<1>2. IndexInv /\ [Next]_vars => IndexInv'
  BY Zenon, TypeStep, GoroutinesStep, IndexedStep DEF IndexInv
<1> QED BY <1>1, <1>2, PTL DEF Spec

\* Every variable keeps its type, whatever the goroutines do.
THEOREM TypeCorrect == Spec => []TypeOK
<1>1. IndexInv => TypeOK
  BY Zenon DEF IndexInv
<1> QED BY <1>1, IndexInvariant, PTL

\* The hash index never names a session that is gone, nor one that is not
\* logged in under the hash (registerSession, unregisterSession,
\* releaseSession), for any number of connections.
THEOREM IndexCorrect == Spec => []IndexSound
<1>1. IndexInv => IndexSound
  BY Zenon DEF IndexInv, Indexed, IndexSound, Registered
<1> QED BY <1>1, IndexInvariant, PTL


-----------------------------------------------------------------------------
\* The memory engine.

\* A row and a source belong to a session that is logged in and whose release
\* has not yet reached storage; the row is filed under the session's hash.
Kept ==
  /\ \A r \in rows : logged[r[2]] /\ hash[r[2]] = r[1] /\ rel[r[2]].step # "done"
  /\ \A c \in sources : logged[c] /\ rel[c].step # "done"

\* Every step keeps the rows to sessions that are not released yet.
LEMMA KeptStep ==
  ASSUME TypeOK, Goroutines, Kept, ~RowPerHash, [Next]_vars
  PROVE  Kept'
<1>a. /\ pc \in [Conn -> Labels] /\ logged \in [Conn -> BOOLEAN]
      /\ rows \subseteq Hash \X Conn /\ sources \subseteq Conn
      /\ ~StoreFails
  BY Zenon, ConstantsOK DEF TypeOK, SessionTypes, StoreTypes
<1>b. \A r \in rows : r[2] \in Conn
  BY Zenon, <1>a
<1>q. CASE Quiet
  <2>1. /\ rows' \subseteq rows /\ UNCHANGED <<logged, rel>>
        /\ \A d \in sources' : d \in sources \/ (logged[d] /\ rel[d].step # "done")
        /\ \A d \in Conn : logged[d] => hash'[d] = hash[d]
    BY Zenon, <1>q DEF Quiet
  <2> QED BY Zenon, <1>b, <2>1 DEF Kept
<1>r. ASSUME NEW c \in Conn, NEW from, NEW to, Releases(c, from, to), to # "done",
             UNCHANGED <<rows, sources>>
      PROVE  Kept'
  BY Zenon, <1>a, <1>b, <1>r DEF Releases, Kept
<1>21. ASSUME NEW c \in Conn, StoreConnect(c) PROVE Kept'
  <2>1. rel[c].step = "idle" /\ hash[c] \in Hash
    BY ZenonT(60), <1>21, NotYetLogged DEF StoreConnect, At, Deciding
  <2>2. /\ rows' \subseteq rows \cup {<<hash[c], c>>}
        /\ logged'[c] /\ \A d \in Conn : logged[d] => logged'[d]
        /\ UNCHANGED <<hash, rel, sources>>
    BY Zenon, <1>21, <1>a DEF StoreConnect, Connect
  <2>3. ASSUME NEW r \in rows' PROVE logged'[r[2]] /\ hash'[r[2]] = r[1] /\ rel'[r[2]].step # "done"
    <3>1. CASE r \in rows
      BY Zenon, <1>b, <2>2, <3>1 DEF Kept
    <3>2. CASE r = <<hash[c], c>>
      BY Zenon, <2>1, <2>2, <3>2
    <3> QED BY Zenon, <2>2, <3>1, <3>2
  <2>4. ASSUME NEW d \in sources' PROVE logged'[d] /\ rel'[d].step # "done"
    BY Zenon, <1>a, <2>2 DEF Kept
  <2> QED BY Zenon, <2>3, <2>4 DEF Kept
<1>23. ASSUME NEW c \in Conn, RegisterSession(c) PROVE Kept'
  BY ZenonT(60), <1>23 DEF Kept, RegisterSession, store
<1>25. ASSUME NEW c \in Conn, ReleaseStart(c) PROVE Kept'
  <2>1. UNCHANGED <<rows, sources>>
    BY ZenonT(60), <1>25 DEF ReleaseStart, store
  <2> QED BY ZenonT(60), <1>25, <1>r, <2>1, ReleaseStartMoves
<1>26. ASSUME NEW c \in Conn, ReleaseLowID(c) PROVE Kept'
  <2>1. UNCHANGED <<rows, sources>>
    BY Zenon, <1>26 DEF ReleaseLowID, store
  <2> QED BY Zenon, <1>26, <1>r, <2>1, ReleaseLowIDMoves
<1>27. ASSUME NEW c \in Conn, Unregister(c) PROVE Kept'
  <2>1. UNCHANGED <<rows, sources>>
    BY Zenon, <1>27 DEF Unregister, store
  <2> QED BY Zenon, <1>27, <1>r, <2>1, UnregisterMoves
<1>28. ASSUME NEW c \in Conn, ReleaseStore(c) PROVE Kept'
  <2> PICK v : v = target[c]
    BY Zenon
  <2>1. /\ v \in Conn /\ rel[v].step = "disconnect"
        /\ UNCHANGED <<logged, hash>>
        /\ \A d \in Conn : d # v => rel'[d] = rel[d]
    BY Zenon, <1>28, ReleaseStoreMoves DEF Releases
  <2>2. rel[v].logged = logged[v] /\ rel[v].hash = hash[v]
    BY Zenon, <2>1 DEF Goroutines, GoroutineOf
  <2>3. CASE logged[v]
    <3>1. Disconnect(v, hash[v])
      BY Zenon, <1>28, <1>a, <2>2, <2>3 DEF ReleaseStore
    <3>2. /\ rows' = {r \in rows : ~(r[1] = hash[v] /\ r[2] = v)}
          /\ sources' = sources \ {v}
      BY Zenon, <3>1, <1>a DEF Disconnect
    <3>3. \A r \in rows' : r \in rows /\ r[2] # v
      BY Zenon, <1>a, <3>2 DEF Kept
    <3> QED BY ZenonT(60), <1>a, <1>b, <2>1, <3>2, <3>3 DEF Kept
  <2>4. CASE ~logged[v]
    <3>1. UNCHANGED <<rows, sources>>
      BY Zenon, <1>28, <2>2, <2>4 DEF ReleaseStore, store
    <3> QED BY ZenonT(60), <1>a, <1>b, <2>1, <2>4, <3>1 DEF Kept
  <2> QED BY Zenon, <2>3, <2>4
<1> QED BY Zenon, <1>q, <1>21, <1>23, <1>25, <1>26, <1>27, <1>28, QuietOrLoud DEF Loud

\* The memory engine keeps nothing of a session whose release is over, however
\* many logins, replacements, orphan releases and offers interleave
\* (MemoryEngine.Connect and Disconnect, addFiles against releaseSession).
THEOREM NothingLeftBehindCorrect ==
  ASSUME ~RowPerHash
  PROVE  Spec => []NothingLeftBehind
<1>1. Init => Kept
  BY Zenon DEF Init, Kept
<1>2. IndexInv /\ Kept /\ [Next]_vars => Kept'
  BY Zenon, KeptStep, ~RowPerHash DEF IndexInv
<1>3. Kept => NothingLeftBehind
  BY Zenon DEF Kept, NothingLeftBehind, Served
<1> QED BY <1>1, <1>2, <1>3, IndexInvariant, PTL DEF Spec

\* Every step keeps a row for each session that has sources.
LEMMA RowsStep ==
  ASSUME TypeOK, Goroutines, SourcesHaveRows, ~RowPerHash, [Next]_vars
  PROVE  SourcesHaveRows'
<1>a. ~StoreFails
  BY Zenon, ConstantsOK
<1>b. \A d \in sources : Row(d)
  BY Zenon DEF SourcesHaveRows, Served, Row
<1> SUFFICES ASSUME NEW d \in sources' PROVE Row(d)'
  BY Zenon DEF SourcesHaveRows, Served, Row
<1>1. CASE Quiet
  BY Zenon, <1>b, <1>1 DEF Quiet
<1>2. CASE UNCHANGED store
  BY Zenon, <1>b, <1>2 DEF Row, store
<1>3. ASSUME NEW c \in Conn, StoreConnect(c) PROVE Row(d)'
  <2>1. rows \subseteq rows' /\ UNCHANGED sources
    BY Zenon, <1>3 DEF StoreConnect, Connect
  <2> QED BY Zenon, <1>b, <2>1 DEF Row
<1>4. ASSUME NEW c \in Conn, RegisterSession(c) \/ ReleaseStart(c) \/ ReleaseLowID(c) \/ Unregister(c)
      PROVE  UNCHANGED store
  BY Zenon, <1>4 DEF RegisterSession, ReleaseStart, ReleaseLowID, Unregister
<1>5. ASSUME NEW c \in Conn, ReleaseStore(c) PROVE Row(d)'
  <2>1. CASE Disconnect(target[c], rel[target[c]].hash)
    <3>1. sources' \subseteq sources
      BY Zenon, <1>a, <2>1 DEF Disconnect
    <3> QED BY Zenon, <1>a, <1>b, <2>1, <3>1, DisconnectKeepsRows
  <2> QED BY Zenon, <1>2, <1>5, <2>1 DEF ReleaseStore
<1> QED BY Zenon, <1>1, <1>2, <1>3, <1>4, <1>5, QuietOrLoud DEF Loud

\* In the memory engine a client with published files has a row: the orphan
\* release of a login, which takes a row away by its hash while the session
\* that wrote it may still be offering files, takes that session's sources in
\* the same critical section, and addFileLocked refuses the offers that come
\* after it.
THEOREM SourcesHaveRowsCorrect ==
  ASSUME ~RowPerHash
  PROVE  Spec => []SourcesHaveRows
<1>1. Init => SourcesHaveRows
  BY Zenon DEF Init, SourcesHaveRows
<1>2. IndexInv /\ SourcesHaveRows /\ [Next]_vars => SourcesHaveRows'
  BY Zenon, RowsStep, ~RowPerHash DEF IndexInv
<1> QED BY <1>1, <1>2, IndexInvariant, PTL DEF Spec

\* In the memory engine releaseSession takes away no row but its own session's
\* (MemoryEngine.Disconnect goes by StoreID), so a login that has meanwhile
\* replaced it in the hash index stays online.
THEOREM NewerRowKeptCorrect ==
  ASSUME ~RowPerHash
  PROVE  Spec => NewerRowKept
<1> DEFINE OwnRow(c) == \A r \in rows \ rows' : r[2] = target[c] \/ rel[r[2]].step = "done"
<1>1. ASSUME NEW c \in Conn, ReleaseStore(c) PROVE OwnRow(c)
  <2>1. ~StoreFails
    BY Zenon, ConstantsOK, ~RowPerHash
  <2>2. CASE Disconnect(target[c], rel[target[c]].hash)
    BY Zenon, <2>1, <2>2, ~RowPerHash DEF Disconnect
  <2>3. CASE UNCHANGED store
    BY Zenon, <2>3 DEF store
  <2> QED BY Zenon, <1>1, <2>2, <2>3 DEF ReleaseStore
<1>2. [Next]_vars => [\A c \in Conn : ReleaseStore(c) => OwnRow(c)]_vars
  BY Zenon, <1>1
<1> QED BY <1>2, PTL DEF Spec, NewerRowKept

-----------------------------------------------------------------------------
\* The ed3k claims.

NoRepeats(list) == \A j, k \in 1..Len(list) : list[j] = list[k] => j = k

\* A claim added once, at the cost of the oldest when there is no room.
LEMMA AddClaimFacts ==
  ASSUME NEW list \in Seq(Conn), NoRepeats(list), NEW c \in Conn
  PROVE  /\ NoRepeats(AddClaim(list, c))
         /\ \A k \in 1..Len(AddClaim(list, c)) :
              \/ AddClaim(list, c)[k] = c
              \/ \E j \in 1..Len(list) : AddClaim(list, c)[k] = list[j]
<1>1. CASE \E k \in 1..Len(list) : list[k] = c
  BY Zenon, <1>1 DEF AddClaim
<1>2. CASE \A k \in 1..Len(list) : list[k] # c
  <2>1. CASE Len(list) >= MaxEd3kClaims
    <3> DEFINE t == Tail(list)
    <3>1. list # <<>> /\ t \in Seq(Conn) /\ Len(t) = Len(list) - 1 /\ Len(list) \in Nat \ {0}
      BY <2>1, ConstantsOK
    <3>2. \A k \in 1..Len(t) : t[k] = list[k + 1] /\ k + 1 \in 1..Len(list)
      BY <3>1
    <3>3. AddClaim(list, c) = Append(t, c)
      BY Zenon, <1>2, <2>1 DEF AddClaim
    <3> HIDE DEF t
    <3>4. \A k \in 1..Len(Append(t, c)) : (k \in 1..Len(t) /\ Append(t, c)[k] = t[k]) \/ (k = Len(t) + 1 /\ Append(t, c)[k] = c)
      BY <3>1
    <3>5. \A k \in 1..Len(t) : t[k] # c
      BY Zenon, <1>2, <3>2
    <3>6. \A j, k \in 1..Len(t) : j # k => t[j] # t[k]
      <4> SUFFICES ASSUME NEW j \in 1..Len(t), NEW k \in 1..Len(t), j # k
                   PROVE  t[j] # t[k]
        OBVIOUS
      <4>1. j + 1 # k + 1
        BY <3>1
      <4> QED BY Zenon, <3>2, <4>1, NoRepeats(list) DEF NoRepeats
    <3>7. NoRepeats(Append(t, c))
      <4> SUFFICES ASSUME NEW j \in 1..Len(Append(t, c)), NEW k \in 1..Len(Append(t, c)), j # k
                   PROVE  Append(t, c)[j] # Append(t, c)[k]
        BY Zenon DEF NoRepeats
      <4> QED BY Zenon, <3>4, <3>5, <3>6
    <3> QED BY Zenon, <3>2, <3>3, <3>4, <3>7
  <2>2. CASE ~(Len(list) >= MaxEd3kClaims)
    <3>1. AddClaim(list, c) = Append(list, c)
      BY Zenon, <1>2, <2>2 DEF AddClaim
    <3>2. \A k \in 1..Len(Append(list, c)) : (k \in 1..Len(list) /\ Append(list, c)[k] = list[k]) \/ (k = Len(list) + 1 /\ Append(list, c)[k] = c)
      OBVIOUS
    <3> QED BY <1>2, <3>1, <3>2, NoRepeats(list) DEF NoRepeats
  <2> QED BY Zenon, <2>1, <2>2
<1> QED BY Zenon, <1>1, <1>2

\* A claim removed, and no other.
LEMMA DropClaimFacts ==
  ASSUME NEW list \in Seq(Conn), NoRepeats(list), NEW c \in Conn
  PROVE  /\ NoRepeats(DropClaim(list, c))
         /\ \A k \in 1..Len(DropClaim(list, c)) :
              /\ DropClaim(list, c)[k] # c
              /\ \E j \in 1..Len(list) : DropClaim(list, c)[k] = list[j]
<1>1. CASE \A k \in 1..Len(list) : list[k] # c
  BY Zenon, <1>1, NoRepeats(list) DEF DropClaim
<1>2. CASE \E k \in 1..Len(list) : list[k] = c
  <2> DEFINE i == CHOOSE k \in 1..Len(list) : list[k] = c
             f == [k \in 1..(Len(list) - 1) |-> IF k < i THEN list[k] ELSE list[k + 1]]
             g(k) == IF k < i THEN k ELSE k + 1
  <2>1. Len(list) \in Nat \ {0} /\ i \in 1..Len(list) /\ list[i] = c
    BY <1>2
  <2>2. DropClaim(list, c) = f
    BY Zenon, <1>2 DEF DropClaim
  <2> HIDE DEF i
  <2>3. \A k \in 1..(Len(list) - 1) : g(k) \in 1..Len(list) /\ g(k) # i /\ f[k] = list[g(k)]
    BY <2>1
  <2>4. \A j, k \in 1..(Len(list) - 1) : g(j) = g(k) => j = k
    BY <2>1
  <2>5. Len(f) = Len(list) - 1
    <3>1. \A k \in 1..(Len(list) - 1) : f[k] \in Conn
      BY <2>1
    <3> QED BY <2>1, <3>1
  <2> HIDE DEF f, g
  <2> QED BY SMTT(30), <2>1, <2>2, <2>3, <2>4, <2>5, NoRepeats(list) DEF NoRepeats
<1> QED BY Zenon, <1>1, <1>2

\* The claim list names registered sessions, each once.
Claimed ==
  /\ \A k \in 1..Len(sessionsByEd3k) :
       Registered(sessionsByEd3k[k]) /\ rel[sessionsByEd3k[k]].step \notin {"disconnect", "done"}
  /\ NoRepeats(sessionsByEd3k)

\* Every step keeps the claims to sessions that will drop them.
LEMMA ClaimedStep ==
  ASSUME TypeOK, Goroutines, Claimed, [Next]_vars
  PROVE  Claimed'
<1>a. /\ pc \in [Conn -> Labels] /\ logged \in [Conn -> BOOLEAN]
      /\ sessionsByEd3k \in Seq(Conn) /\ Len(sessionsByEd3k) \in Nat
      /\ \A k \in 1..Len(sessionsByEd3k) : sessionsByEd3k[k] \in Conn
  BY DEF TypeOK, SessionTypes, RuntimeTypes
\* It is enough that the sessions left on the list stay registered and live.
<1>f. ASSUME NoRepeats(sessionsByEd3k)',
             \A d \in Conn : Registered(d) /\ rel[d].step \notin {"disconnect", "done"} =>
               \/ ~(\E k \in 1..Len(sessionsByEd3k') : sessionsByEd3k'[k] = d)
               \/ Registered(d)' /\ rel'[d].step \notin {"disconnect", "done"},
             \A k \in 1..Len(sessionsByEd3k') :
               \/ \E j \in 1..Len(sessionsByEd3k) : sessionsByEd3k'[k] = sessionsByEd3k[j]
               \/ /\ sessionsByEd3k'[k] \in Conn
                  /\ logged'[sessionsByEd3k'[k]] /\ pc'[sessionsByEd3k'[k]] # "register"
                  /\ rel'[sessionsByEd3k'[k]].step \notin {"disconnect", "done"}
      PROVE  Claimed'
  <2> SUFFICES ASSUME NEW k \in 1..Len(sessionsByEd3k')
               PROVE  /\ logged'[sessionsByEd3k'[k]] /\ pc'[sessionsByEd3k'[k]] # "register"
                      /\ rel'[sessionsByEd3k'[k]].step \notin {"disconnect", "done"}
    BY Zenon, <1>f DEF Claimed, Registered
  <2>1. CASE \E j \in 1..Len(sessionsByEd3k) : sessionsByEd3k'[k] = sessionsByEd3k[j]
    <3> PICK j \in 1..Len(sessionsByEd3k) : sessionsByEd3k'[k] = sessionsByEd3k[j]
      BY Zenon, <2>1
    <3>1. sessionsByEd3k[j] \in Conn /\ Registered(sessionsByEd3k[j]) /\ rel[sessionsByEd3k[j]].step \notin {"disconnect", "done"}
      BY Zenon, <1>a DEF Claimed
    <3> QED BY Zenon, <1>f, <3>1 DEF Registered
  <2> QED BY Zenon, <1>f, <2>1
<1>g. ASSUME UNCHANGED sessionsByEd3k,
             \A d \in Conn : Registered(d) /\ rel[d].step \notin {"disconnect", "done"} =>
               Registered(d)' /\ rel'[d].step \notin {"disconnect", "done"}
      PROVE  Claimed'
  BY Zenon, <1>a, <1>g DEF Claimed, NoRepeats
<1>q. CASE Quiet
  <2>1. \A d \in Conn : Registered(d) /\ rel[d].step \notin {"disconnect", "done"} =>
          Registered(d)' /\ rel'[d].step \notin {"disconnect", "done"}
    BY Zenon, <1>q DEF Quiet, Registered
  <2> QED BY Zenon, <1>g, <1>q, <2>1 DEF Quiet
<1>r. ASSUME NEW c \in Conn, NEW from, NEW to, Releases(c, from, to), UNCHANGED sessionsByEd3k,
             to \in {"disconnect", "done"} => from \in {"disconnect", "done"}
      PROVE  Claimed'
  <2>1. \A d \in Conn : Registered(d) /\ rel[d].step \notin {"disconnect", "done"} =>
          Registered(d)' /\ rel'[d].step \notin {"disconnect", "done"}
    BY Zenon, <1>r DEF Releases, Registered
  <2> QED BY Zenon, <1>g, <1>r, <2>1
<1>21. ASSUME NEW c \in Conn, StoreConnect(c) PROVE Claimed'
  <2>1. ~logged[c]
    BY ZenonT(60), <1>21, NotYetLogged DEF StoreConnect, At, Deciding
  <2>2. /\ \A d \in Conn : d # c => pc'[d] = pc[d] /\ logged'[d] = logged[d]
        /\ UNCHANGED <<rel, sessionsByEd3k>>
    BY ZenonT(60), <1>21, <1>a DEF StoreConnect, Goto, runtime
  <2>3. \A d \in Conn : Registered(d) /\ rel[d].step \notin {"disconnect", "done"} =>
          Registered(d)' /\ rel'[d].step \notin {"disconnect", "done"}
    BY Zenon, <2>1, <2>2 DEF Registered
  <2> QED BY ZenonT(60), <1>g, <2>2, <2>3
<1>23. ASSUME NEW c \in Conn, RegisterSession(c) PROVE Claimed'
  <2>1. logged[c] /\ rel[c].step = "idle"
    BY Zenon, <1>23 DEF Goroutines, GoroutineOf, Registered, Leaving, RegisterSession, At
  <2>2. /\ pc'[c] = "greet" /\ \A d \in Conn : d # c => pc'[d] = pc[d]
        /\ sessionsByEd3k' \in {sessionsByEd3k, AddClaim(sessionsByEd3k, c)}
        /\ UNCHANGED <<logged, rel>>
    BY Zenon, <1>23, <1>a DEF RegisterSession, Goto
  <2>3. \A d \in Conn : Registered(d) /\ rel[d].step \notin {"disconnect", "done"} =>
          Registered(d)' /\ rel'[d].step \notin {"disconnect", "done"}
    BY Zenon, <2>2 DEF Registered
  <2>4. CASE sessionsByEd3k' = sessionsByEd3k
    BY Zenon, <1>g, <2>3, <2>4
  <2>5. CASE sessionsByEd3k' = AddClaim(sessionsByEd3k, c)
    <3>1. /\ NoRepeats(sessionsByEd3k')
          /\ \A k \in 1..Len(sessionsByEd3k') :
               sessionsByEd3k'[k] = c \/ \E j \in 1..Len(sessionsByEd3k) : sessionsByEd3k'[k] = sessionsByEd3k[j]
      BY ZenonT(60), <1>a, <2>5, AddClaimFacts DEF Claimed
    <3>2. NoRepeats(sessionsByEd3k)'
      BY Zenon, <3>1 DEF NoRepeats
    <3>3. logged'[c] /\ pc'[c] # "register" /\ rel'[c].step \notin {"disconnect", "done"}
      BY Zenon, <2>1, <2>2
    <3> QED BY Zenon, <1>f, <2>3, <3>1, <3>2, <3>3
  <2> QED BY Zenon, <2>2, <2>4, <2>5
<1>25. ASSUME NEW c \in Conn, ReleaseStart(c) PROVE Claimed'
  <2>1. UNCHANGED sessionsByEd3k
    BY ZenonT(60), <1>25 DEF ReleaseStart, runtime
  <2> QED BY Zenon, <1>25, <1>r, <2>1, ReleaseStartMoves
<1>26. ASSUME NEW c \in Conn, ReleaseLowID(c) PROVE Claimed'
  <2>1. UNCHANGED sessionsByEd3k
    BY Zenon, <1>26 DEF ReleaseLowID
  <2> QED BY Zenon, <1>26, <1>r, <2>1, ReleaseLowIDMoves
<1>27. ASSUME NEW c \in Conn, Unregister(c) PROVE Claimed'
  <2> PICK v : v = target[c]
    BY Zenon
  <2>1. /\ v \in Conn /\ rel[v].step = "unregister" /\ UNCHANGED <<pc, logged>>
        /\ \A d \in Conn : d # v => rel'[d] = rel[d]
    BY Zenon, <1>27, UnregisterMoves DEF Releases
  <2>2. rel[v].logged = logged[v]
    BY Zenon, <2>1 DEF Goroutines, GoroutineOf
  <2>3. sessionsByEd3k' = IF logged[v] THEN DropClaim(sessionsByEd3k, v) ELSE sessionsByEd3k
    BY Zenon, <1>27, <2>2 DEF Unregister
  <2>4. CASE ~logged[v]
    <3>1. \A d \in Conn : Registered(d) /\ rel[d].step \notin {"disconnect", "done"} =>
            Registered(d)' /\ rel'[d].step \notin {"disconnect", "done"}
      BY Zenon, <2>1, <2>4 DEF Registered
    <3> QED BY Zenon, <1>g, <2>3, <2>4, <3>1
  <2>5. CASE logged[v]
    <3>1. /\ NoRepeats(sessionsByEd3k')
          /\ \A k \in 1..Len(sessionsByEd3k') :
               /\ sessionsByEd3k'[k] # v
               /\ \E j \in 1..Len(sessionsByEd3k) : sessionsByEd3k'[k] = sessionsByEd3k[j]
      <4>1. sessionsByEd3k' = DropClaim(sessionsByEd3k, v)
        BY Zenon, <2>3, <2>5
      <4>2. sessionsByEd3k \in Seq(Conn) /\ NoRepeats(sessionsByEd3k)
        BY Zenon, <1>a DEF Claimed
      <4> QED BY ZenonT(60), <2>1, <4>1, <4>2, DropClaimFacts
    <3>2. NoRepeats(sessionsByEd3k)'
      BY Zenon, <3>1 DEF NoRepeats
    <3>3. \A d \in Conn : d # v /\ Registered(d) /\ rel[d].step \notin {"disconnect", "done"} =>
            Registered(d)' /\ rel'[d].step \notin {"disconnect", "done"}
      BY Zenon, <2>1 DEF Registered
    <3> QED BY ZenonT(60), <1>f, <3>1, <3>2, <3>3
  <2> QED BY Zenon, <2>4, <2>5
<1>28. ASSUME NEW c \in Conn, ReleaseStore(c) PROVE Claimed'
  <2>1. UNCHANGED sessionsByEd3k
    BY Zenon, <1>28 DEF ReleaseStore, runtime
  <2> QED BY Zenon, <1>28, <1>r, <2>1, ReleaseStoreMoves
<1> QED BY Zenon, <1>q, <1>21, <1>23, <1>25, <1>26, <1>27, <1>28, QuietOrLoud DEF Loud

\* The ed3k bridge is only ever offered live logins, each once, for any
\* number of sessions that claim the node (registerSession, unregisterSession).
THEOREM ClaimsCorrect == Spec => []ClaimsSound
<1>1. Init => Claimed
  BY DEF Init, Claimed, NoRepeats
<1>2. IndexInv /\ Claimed /\ [Next]_vars => Claimed'
  BY Zenon, ClaimedStep DEF IndexInv
<1>3. Claimed => ClaimsSound
  BY Zenon DEF Claimed, ClaimsSound, Registered, NoRepeats
<1> QED BY <1>1, <1>2, <1>3, IndexInvariant, PTL DEF Spec

-----------------------------------------------------------------------------
\* The LowID pool and the connection slots.

\* releaseSession works on the LowID the session still has.
Snapshot ==
  \A c \in Conn : rel[c].step = "lowID" => rel[c].id = IF hasLowID[c] THEN id[c] ELSE None

\* A login under way has been counted, and one that asks the pool knows it.
Asked ==
  \A c \in Conn : /\ LoggingIn(c) => logins[c] >= 1
                  /\ pc[c] = "lowID" => hasLowID[c]

\* The labels before a login has asked the pool.
BeforeID == {"new", "replace", "dualStack", "poke", "await", "recheck", "held", "orphan",
             "identify", "lowID"}

\* A login of the session asked the pool, or none will any more.
PastID(c) == pc[c] \notin BeforeID /\ (pc[c] = "release" => ret[c] # "dualStack")

\* The ID of the session is settled.
Settled(c) ==
  \/ logged[c]
  \/ pc[c] \in {"takeOver", "lastCheck", "begin", "connect"}
  \/ pc[c] = "release" /\ ret[c] = "lastCheck"

\* An ID of the pool belongs to a session that knows it, and that cannot start
\* another login.
Owned ==
  \A i \in LowID : lowIDs[i] # None =>
    /\ hasLowID[lowIDs[i]] /\ id[lowIDs[i]] = i
    /\ rel[lowIDs[i]].step \in {"idle", "lowID"}
    /\ logins[lowIDs[i]] >= 1
    /\ PastID(lowIDs[i])

\* A session that was given an ID of the pool is in the pool under it.
Routed ==
  \A c \in Conn :
    /\ id[c] \in LowID /\ rel[c].step \in {"idle", "lowID"} => lowIDs[id[c]] = c
    /\ hasLowID[c] /\ Settled(c) => id[c] \in LowID

\* A step that touches neither the pool nor an ID, counts no login and begins
\* or settles none.
PoolQuiet ==
  /\ UNCHANGED <<lowIDs, rel, id, hasLowID, logins>>
  /\ \A d \in Conn :
       /\ LoggingIn(d)' => LoggingIn(d)
       /\ pc'[d] = "lowID" => pc[d] = "lowID"
       /\ Settled(d)' => Settled(d)
       /\ PastID(d) => PastID(d)'

\* The steps that are not.
PoolStep(c) ==
  \/ \E h \in Hash, v6 \in Addr6 \cup {None}, banned \in BOOLEAN : LoginRequest(c, h, v6, banned)
  \/ \E r \in RequestID : Firewalled(c, r)
  \/ Reachable(c)
  \/ \E i \in LowID : AddLowID(c, i)
  \/ ReleaseStart(c) \/ ReleaseLowID(c) \/ Unregister(c) \/ ReleaseStore(c)

\* What a goroutine does to itself decides whether a step is quiet.
LEMMA PoolFrame ==
  ASSUME NEW c \in Conn, UNCHANGED <<lowIDs, rel, id, hasLowID, logins>>,
         \A d \in Conn : d # c => /\ pc'[d] = pc[d] /\ target'[d] = target[d] /\ ret'[d] = ret[d]
                                  /\ logged'[d] = logged[d],
         LoggingIn(c)' => LoggingIn(c),
         pc'[c] = "lowID" => pc[c] = "lowID",
         Settled(c)' => Settled(c),
         PastID(c) => PastID(c)'
  PROVE  PoolQuiet
<1> SUFFICES ASSUME NEW d \in Conn, d # c
             PROVE  /\ LoggingIn(d)' => LoggingIn(d)
                    /\ pc'[d] = "lowID" => pc[d] = "lowID"
                    /\ Settled(d)' => Settled(d)
                    /\ PastID(d) => PastID(d)'
  BY Zenon DEF PoolQuiet
<1> QED BY Zenon DEF LoggingIn, Settled, PastID

\* A step leaves the pool and its users alone, or is one of those listed.
LEMMA QuietOrPool ==
  ASSUME TypeOK, Goroutines, [Next]_vars
  PROVE  PoolQuiet \/ \E c \in Conn : PoolStep(c)
<1>a. /\ pc \in [Conn -> Labels] /\ target \in [Conn -> Conn \cup {None}]
      /\ ret \in [Conn -> {"untrack", "dualStack", "lastCheck", None}]
      /\ logged \in [Conn -> BOOLEAN]
  BY Zenon DEF TypeOK, SessionTypes
<1>1. ASSUME NEW c \in Conn, NEW a \in Addr, Accept(c, a) PROVE PoolQuiet
  <2>1. UNCHANGED <<lowIDs, rel, id, hasLowID, logins, logged, target, ret>>
    BY Zenon, <1>1 DEF Accept
  <2>2. /\ pc[c] = "new" /\ pc'[c] \in {"read"}
        /\ \A d \in Conn : d # c => pc'[d] = pc[d] /\ target'[d] = target[d] /\ ret'[d] = ret[d]
    BY Zenon, <1>1, <1>a, <2>1 DEF Accept, Goto, At
  <2>3. /\ LoggingIn(c)' => LoggingIn(c)
        /\ pc'[c] = "lowID" => pc[c] = "lowID"
        /\ Settled(c)' => Settled(c)
        /\ PastID(c) => PastID(c)'
    BY Zenon, <2>1, <2>2 DEF LoggingIn, LoginLabels, Settled, PastID, BeforeID
  <2> QED BY Zenon, <2>1, <2>2, <2>3, PoolFrame
<1>2. ASSUME NEW c \in Conn, NEW a \in Addr, Refuse(c, a) PROVE PoolQuiet
  <2>1. UNCHANGED <<lowIDs, rel, id, hasLowID, logins, logged, target, ret>>
    BY Zenon, <1>2 DEF Refuse, runtime
  <2>2. /\ pc[c] = "new" /\ pc'[c] \in {"done"}
        /\ \A d \in Conn : d # c => pc'[d] = pc[d] /\ target'[d] = target[d] /\ ret'[d] = ret[d]
    BY Zenon, <1>2, <1>a, <2>1 DEF Refuse, Goto, At
  <2>3. /\ LoggingIn(c)' => LoggingIn(c)
        /\ pc'[c] = "lowID" => pc[c] = "lowID"
        /\ Settled(c)' => Settled(c)
        /\ PastID(c) => PastID(c)'
    BY Zenon, <2>1, <2>2 DEF LoggingIn, LoginLabels, Settled, PastID, BeforeID
  <2> QED BY Zenon, <2>1, <2>2, <2>3, PoolFrame
<1>3. ASSUME NEW c \in Conn, ReadEnds(c) PROVE PoolQuiet
  <2>1. UNCHANGED <<lowIDs, rel, id, hasLowID, logins, logged>>
    BY Zenon, <1>3 DEF ReadEnds, runtime
  <2>2. /\ pc'[c] = "release" /\ target'[c] = c /\ ret'[c] = "untrack"
        /\ \A d \in Conn : d # c => pc'[d] = pc[d] /\ target'[d] = target[d] /\ ret'[d] = ret[d]
    BY Zenon, <1>3, <1>a DEF ReadEnds, CallRelease, Goto
  <2>3. /\ LoggingIn(c)' => LoggingIn(c)
        /\ pc'[c] = "lowID" => pc[c] = "lowID"
        /\ Settled(c)' => Settled(c)
        /\ PastID(c) => PastID(c)'
    BY Zenon, <2>1, <2>2 DEF LoggingIn, LoginLabels, Settled, PastID, BeforeID
  <2> QED BY Zenon, <2>1, <2>2, <2>3, PoolFrame
<1>4. ASSUME NEW c \in Conn, Untrack(c) PROVE PoolQuiet
  <2>1. UNCHANGED <<lowIDs, rel, id, hasLowID, logins, logged, target, ret>>
    BY Zenon, <1>4 DEF Untrack
  <2>2. /\ pc[c] = "untrack" /\ pc'[c] \in {"done"}
        /\ \A d \in Conn : d # c => pc'[d] = pc[d] /\ target'[d] = target[d] /\ ret'[d] = ret[d]
    BY Zenon, <1>4, <1>a, <2>1 DEF Untrack, Goto, At
  <2>3. /\ LoggingIn(c)' => LoggingIn(c)
        /\ pc'[c] = "lowID" => pc[c] = "lowID"
        /\ Settled(c)' => Settled(c)
        /\ PastID(c) => PastID(c)'
    BY Zenon, <2>1, <2>2 DEF LoggingIn, LoginLabels, Settled, PastID, BeforeID
  <2> QED BY Zenon, <2>1, <2>2, <2>3, PoolFrame
<1>5. ASSUME NEW c \in Conn, OfferFiles(c) PROVE PoolQuiet
  BY Zenon, <1>5 DEF PoolQuiet, OfferFiles, session, runtime, LoggingIn, LoginLabels, Settled, PastID, BeforeID
<1>7. ASSUME NEW c \in Conn, ReplaceSameIP(c) PROVE PoolQuiet
  <2>1. UNCHANGED <<lowIDs, rel, id, hasLowID, logins, logged>>
    BY Zenon, <1>7 DEF ReplaceSameIP, runtime
  <2>2. /\ pc[c] = "replace"
        /\ pc'[c] \in {"dualStack"} \/ (pc'[c] = "release" /\ ret'[c] = "dualStack")
        /\ \A d \in Conn : d # c => pc'[d] = pc[d] /\ target'[d] = target[d] /\ ret'[d] = ret[d]
    BY Zenon, <1>7, <1>a DEF ReplaceSameIP, CallRelease, Goto, At
  <2>3. /\ LoggingIn(c)' => LoggingIn(c)
        /\ pc'[c] = "lowID" => pc[c] = "lowID"
        /\ Settled(c)' => Settled(c)
        /\ PastID(c) => PastID(c)'
    BY Zenon, <2>1, <2>2 DEF LoggingIn, LoginLabels, Settled, PastID, BeforeID
  <2> QED BY Zenon, <2>1, <2>2, <2>3, PoolFrame
<1>8. ASSUME NEW c \in Conn, DualStackCheck(c) PROVE PoolQuiet
  <2>1. UNCHANGED <<lowIDs, rel, id, hasLowID, logins, logged>>
    BY Zenon, <1>8 DEF DualStackCheck, runtime
  <2>2. /\ pc[c] = "dualStack" /\ pc'[c] \in {"identify", "recheck", "poke"}
        /\ \A d \in Conn : d # c => pc'[d] = pc[d] /\ target'[d] = target[d] /\ ret'[d] = ret[d]
    BY Zenon, <1>8, <1>a DEF DualStackCheck, Goto, At
  <2>3. /\ LoggingIn(c)' => LoggingIn(c)
        /\ pc'[c] = "lowID" => pc[c] = "lowID"
        /\ Settled(c)' => Settled(c)
        /\ PastID(c) => PastID(c)'
    BY Zenon, <2>1, <2>2 DEF LoggingIn, LoginLabels, Settled, PastID, BeforeID
  <2> QED BY Zenon, <2>1, <2>2, <2>3, PoolFrame
<1>9. ASSUME NEW c \in Conn, Poke(c) PROVE PoolQuiet
  <2>1. UNCHANGED <<lowIDs, rel, id, hasLowID, logins, logged, target, ret>>
    BY Zenon, <1>9 DEF Poke, runtime
  <2>2. /\ pc[c] = "poke" /\ pc'[c] \in {"await"}
        /\ \A d \in Conn : d # c => pc'[d] = pc[d] /\ target'[d] = target[d] /\ ret'[d] = ret[d]
    BY Zenon, <1>9, <1>a, <2>1 DEF Poke, Goto, At
  <2>3. /\ LoggingIn(c)' => LoggingIn(c)
        /\ pc'[c] = "lowID" => pc[c] = "lowID"
        /\ Settled(c)' => Settled(c)
        /\ PastID(c) => PastID(c)'
    BY Zenon, <2>1, <2>2 DEF LoggingIn, LoginLabels, Settled, PastID, BeforeID
  <2> QED BY Zenon, <2>1, <2>2, <2>3, PoolFrame
<1>10. ASSUME NEW c \in Conn, ProbeDone(c) PROVE PoolQuiet
  <2>1. UNCHANGED <<lowIDs, rel, id, hasLowID, logins, logged>>
    BY Zenon, <1>10 DEF ProbeDone, runtime
  <2>2. /\ pc[c] = "await" /\ pc'[c] \in {"recheck"}
        /\ \A d \in Conn : d # c => pc'[d] = pc[d] /\ target'[d] = target[d] /\ ret'[d] = ret[d]
    BY Zenon, <1>10, <1>a DEF ProbeDone, Goto, At
  <2>3. /\ LoggingIn(c)' => LoggingIn(c)
        /\ pc'[c] = "lowID" => pc[c] = "lowID"
        /\ Settled(c)' => Settled(c)
        /\ PastID(c) => PastID(c)'
    BY Zenon, <2>1, <2>2 DEF LoggingIn, LoginLabels, Settled, PastID, BeforeID
  <2> QED BY Zenon, <2>1, <2>2, <2>3, PoolFrame
<1>11. ASSUME NEW c \in Conn, Recheck(c) PROVE PoolQuiet
  <2>1. UNCHANGED <<lowIDs, rel, id, hasLowID, logins, logged, target, ret>>
    BY Zenon, <1>11 DEF Recheck, runtime
  <2>2. /\ pc[c] = "recheck" /\ pc'[c] \in {"held", "identify"}
        /\ \A d \in Conn : d # c => pc'[d] = pc[d] /\ target'[d] = target[d] /\ ret'[d] = ret[d]
    BY Zenon, <1>11, <1>a, <2>1 DEF Recheck, Goto, At
  <2>3. /\ LoggingIn(c)' => LoggingIn(c)
        /\ pc'[c] = "lowID" => pc[c] = "lowID"
        /\ Settled(c)' => Settled(c)
        /\ PastID(c) => PastID(c)'
    BY Zenon, <2>1, <2>2 DEF LoggingIn, LoginLabels, Settled, PastID, BeforeID
  <2> QED BY Zenon, <2>1, <2>2, <2>3, PoolFrame
<1>12. ASSUME NEW c \in Conn, HeldCheck(c) PROVE PoolQuiet
  <2>1. UNCHANGED <<lowIDs, rel, id, hasLowID, logins, logged, target, ret>>
    BY Zenon, <1>12 DEF HeldCheck, runtime
  <2>2. /\ pc[c] = "held" /\ pc'[c] \in {"orphan", "read"}
        /\ \A d \in Conn : d # c => pc'[d] = pc[d] /\ target'[d] = target[d] /\ ret'[d] = ret[d]
    BY Zenon, <1>12, <1>a, <2>1 DEF HeldCheck, CloseAndReturn, Goto, At
  <2>3. /\ LoggingIn(c)' => LoggingIn(c)
        /\ pc'[c] = "lowID" => pc[c] = "lowID"
        /\ Settled(c)' => Settled(c)
        /\ PastID(c) => PastID(c)'
    BY Zenon, <2>1, <2>2 DEF LoggingIn, LoginLabels, Settled, PastID, BeforeID
  <2> QED BY Zenon, <2>1, <2>2, <2>3, PoolFrame
<1>13. ASSUME NEW c \in Conn, FreeOrphan(c) PROVE PoolQuiet
  <2>1. UNCHANGED <<lowIDs, rel, id, hasLowID, logins, logged, target, ret>>
    BY Zenon, <1>13 DEF FreeOrphan, runtime
  <2>2. /\ pc[c] = "orphan" /\ pc'[c] \in {"identify"}
        /\ \A d \in Conn : d # c => pc'[d] = pc[d] /\ target'[d] = target[d] /\ ret'[d] = ret[d]
    BY Zenon, <1>13, <1>a, <2>1 DEF FreeOrphan, Goto, At
  <2>3. /\ LoggingIn(c)' => LoggingIn(c)
        /\ pc'[c] = "lowID" => pc[c] = "lowID"
        /\ Settled(c)' => Settled(c)
        /\ PastID(c) => PastID(c)'
    BY Zenon, <2>1, <2>2 DEF LoggingIn, LoginLabels, Settled, PastID, BeforeID
  <2> QED BY Zenon, <2>1, <2>2, <2>3, PoolFrame
<1>17. ASSUME NEW c \in Conn, LowIDPoolExhausted(c) PROVE PoolQuiet
  <2>1. UNCHANGED <<lowIDs, rel, id, hasLowID, logins, logged, target, ret>>
    BY Zenon, <1>17 DEF LowIDPoolExhausted, runtime
  <2>2. /\ pc[c] = "lowID" /\ pc'[c] \in {"read"}
        /\ \A d \in Conn : d # c => pc'[d] = pc[d] /\ target'[d] = target[d] /\ ret'[d] = ret[d]
    BY Zenon, <1>17, <1>a, <2>1 DEF LowIDPoolExhausted, CloseAndReturn, Goto, At
  <2>3. /\ LoggingIn(c)' => LoggingIn(c)
        /\ pc'[c] = "lowID" => pc[c] = "lowID"
        /\ Settled(c)' => Settled(c)
        /\ PastID(c) => PastID(c)'
    BY Zenon, <2>1, <2>2 DEF LoggingIn, LoginLabels, Settled, PastID, BeforeID
  <2> QED BY Zenon, <2>1, <2>2, <2>3, PoolFrame
<1>18. ASSUME NEW c \in Conn, TakeOver(c) PROVE PoolQuiet
  <2>1. UNCHANGED <<lowIDs, rel, id, hasLowID, logins, logged>>
    BY Zenon, <1>18 DEF TakeOver, runtime
  <2>2. /\ pc[c] = "takeOver"
        /\ pc'[c] \in {"lastCheck", "begin"} \/ (pc'[c] = "release" /\ ret'[c] = "lastCheck")
        /\ \A d \in Conn : d # c => pc'[d] = pc[d] /\ target'[d] = target[d] /\ ret'[d] = ret[d]
    BY Zenon, <1>18, <1>a DEF TakeOver, CallRelease, Goto, At
  <2>3. /\ LoggingIn(c)' => LoggingIn(c)
        /\ pc'[c] = "lowID" => pc[c] = "lowID"
        /\ Settled(c)' => Settled(c)
        /\ PastID(c) => PastID(c)'
    BY Zenon, <2>1, <2>2 DEF LoggingIn, LoginLabels, Settled, PastID, BeforeID
  <2> QED BY Zenon, <2>1, <2>2, <2>3, PoolFrame
<1>19. ASSUME NEW c \in Conn, LastCheck(c) PROVE PoolQuiet
  <2>1. UNCHANGED <<lowIDs, rel, id, hasLowID, logins, logged, target, ret>>
    BY Zenon, <1>19 DEF LastCheck, runtime
  <2>2. /\ pc[c] = "lastCheck" /\ pc'[c] \in {"begin", "read"}
        /\ \A d \in Conn : d # c => pc'[d] = pc[d] /\ target'[d] = target[d] /\ ret'[d] = ret[d]
    BY Zenon, <1>19, <1>a, <2>1 DEF LastCheck, CloseAndReturn, Goto, At
  <2>3. /\ LoggingIn(c)' => LoggingIn(c)
        /\ pc'[c] = "lowID" => pc[c] = "lowID"
        /\ Settled(c)' => Settled(c)
        /\ PastID(c) => PastID(c)'
    BY Zenon, <2>1, <2>2 DEF LoggingIn, LoginLabels, Settled, PastID, BeforeID
  <2> QED BY Zenon, <2>1, <2>2, <2>3, PoolFrame
<1>20. ASSUME NEW c \in Conn, BeginHandshake(c) PROVE PoolQuiet
  <2>1. UNCHANGED <<lowIDs, rel, id, hasLowID, logins, logged, target, ret>>
    BY Zenon, <1>20 DEF BeginHandshake
  <2>2. /\ pc[c] = "begin" /\ pc'[c] \in {"connect"}
        /\ \A d \in Conn : d # c => pc'[d] = pc[d] /\ target'[d] = target[d] /\ ret'[d] = ret[d]
    BY Zenon, <1>20, <1>a, <2>1 DEF BeginHandshake, Goto, At
  <2>3. /\ LoggingIn(c)' => LoggingIn(c)
        /\ pc'[c] = "lowID" => pc[c] = "lowID"
        /\ Settled(c)' => Settled(c)
        /\ PastID(c) => PastID(c)'
    BY Zenon, <2>1, <2>2 DEF LoggingIn, LoginLabels, Settled, PastID, BeforeID
  <2> QED BY Zenon, <2>1, <2>2, <2>3, PoolFrame
<1>21. ASSUME NEW c \in Conn, StoreConnect(c) PROVE PoolQuiet
  <2>1. UNCHANGED <<lowIDs, rel, id, hasLowID, logins>>
    BY Zenon, <1>21 DEF StoreConnect, runtime
  <2>2. /\ pc[c] = "connect" /\ pc'[c] = "register"
        /\ \A d \in Conn : d # c => /\ pc'[d] = pc[d] /\ target'[d] = target[d] /\ ret'[d] = ret[d]
                                  /\ logged'[d] = logged[d]
    BY Zenon, <1>21, <1>a DEF StoreConnect, Goto, At
  <2>3. /\ LoggingIn(c)' => LoggingIn(c)
        /\ pc'[c] = "lowID" => pc[c] = "lowID"
        /\ Settled(c)' => Settled(c)
        /\ PastID(c) => PastID(c)'
    BY Zenon, <2>2 DEF LoggingIn, LoginLabels, Settled, PastID, BeforeID
  <2> QED BY Zenon, <2>1, <2>2, <2>3, PoolFrame
<1>22. ASSUME NEW c \in Conn, StoreConnectFails(c) PROVE PoolQuiet
  <2>1. UNCHANGED <<lowIDs, rel, id, hasLowID, logins, logged, target, ret>>
    BY Zenon, <1>22 DEF StoreConnectFails
  <2>2. /\ pc[c] = "connect" /\ pc'[c] \in {"read"}
        /\ \A d \in Conn : d # c => pc'[d] = pc[d] /\ target'[d] = target[d] /\ ret'[d] = ret[d]
    BY Zenon, <1>22, <1>a, <2>1 DEF StoreConnectFails, CloseAndReturn, Goto, At
  <2>3. /\ LoggingIn(c)' => LoggingIn(c)
        /\ pc'[c] = "lowID" => pc[c] = "lowID"
        /\ Settled(c)' => Settled(c)
        /\ PastID(c) => PastID(c)'
    BY Zenon, <2>1, <2>2 DEF LoggingIn, LoginLabels, Settled, PastID, BeforeID
  <2> QED BY Zenon, <2>1, <2>2, <2>3, PoolFrame
<1>23. ASSUME NEW c \in Conn, RegisterSession(c) PROVE PoolQuiet
  <2>1. UNCHANGED <<lowIDs, rel, id, hasLowID, logins, logged, target, ret>>
    BY Zenon, <1>23 DEF RegisterSession
  <2>2. /\ pc[c] = "register" /\ pc'[c] \in {"greet"}
        /\ \A d \in Conn : d # c => pc'[d] = pc[d] /\ target'[d] = target[d] /\ ret'[d] = ret[d]
    BY Zenon, <1>23, <1>a, <2>1 DEF RegisterSession, Goto, At
  <2>3. /\ LoggingIn(c)' => LoggingIn(c)
        /\ pc'[c] = "lowID" => pc[c] = "lowID"
        /\ Settled(c)' => Settled(c)
        /\ PastID(c) => PastID(c)'
    BY Zenon, <2>1, <2>2 DEF LoggingIn, LoginLabels, Settled, PastID, BeforeID
  <2> QED BY Zenon, <2>1, <2>2, <2>3, PoolFrame
<1>24. ASSUME NEW c \in Conn, Greet(c) PROVE PoolQuiet
  <2>1. UNCHANGED <<lowIDs, rel, id, hasLowID, logins, logged, target, ret>>
    BY Zenon, <1>24 DEF Greet
  <2>2. /\ pc[c] = "greet" /\ pc'[c] \in {"read"}
        /\ \A d \in Conn : d # c => pc'[d] = pc[d] /\ target'[d] = target[d] /\ ret'[d] = ret[d]
    BY Zenon, <1>24, <1>a, <2>1 DEF Greet, Goto, At
  <2>3. /\ LoggingIn(c)' => LoggingIn(c)
        /\ pc'[c] = "lowID" => pc[c] = "lowID"
        /\ Settled(c)' => Settled(c)
        /\ PastID(c) => PastID(c)'
    BY Zenon, <2>1, <2>2 DEF LoggingIn, LoginLabels, Settled, PastID, BeforeID
  <2> QED BY Zenon, <2>1, <2>2, <2>3, PoolFrame
<1>29. ASSUME NEW c \in Conn, ReleaseReturn(c) PROVE PoolQuiet
  <2>1. UNCHANGED <<lowIDs, rel, id, hasLowID, logins, logged>>
    BY Zenon, <1>29 DEF ReleaseReturn, runtime
  <2>2. /\ pc[c] = "release" /\ ret[c] \in {"untrack", "dualStack", "lastCheck"}
        /\ ret[c] = "untrack" <=> target[c] = c
    BY Zenon, <1>29 DEF ReleaseReturn, At, Goroutines, GoroutineOf
  <2>3. /\ pc'[c] = ret[c]
        /\ \A d \in Conn : d # c => pc'[d] = pc[d] /\ target'[d] = target[d] /\ ret'[d] = ret[d]
    BY Zenon, <1>29, <1>a DEF ReleaseReturn, Goto
  <2>4. /\ LoggingIn(c)' => LoggingIn(c)
        /\ pc'[c] = "lowID" => pc[c] = "lowID"
        /\ Settled(c)' => Settled(c)
        /\ PastID(c) => PastID(c)'
    BY Zenon, <2>1, <2>2, <2>3 DEF LoggingIn, LoginLabels, Settled, PastID, BeforeID
  <2> QED BY Zenon, <2>1, <2>3, <2>4, PoolFrame
<1>30. CASE UNCHANGED vars
  BY Zenon, <1>30 DEF vars, session, runtime, PoolQuiet, LoggingIn, LoginLabels, Settled, PastID, BeforeID
<1> QED
  BY Zenon, <1>1, <1>2, <1>3, <1>4, <1>5, <1>7, <1>8, <1>9, <1>10, <1>11, <1>12, <1>13, <1>17, <1>18, <1>19, <1>20, <1>21, <1>22, <1>23, <1>24, <1>29, <1>30 DEF Next, Step, Arbitrate, AssignID, HandShake, Release, PoolStep

-----------------------------------------------------------------------------
\* What a release and a login know.

\* Every step keeps what a release read true.
LEMMA SnapshotStep ==
  ASSUME TypeOK, Goroutines, Snapshot, [Next]_vars
  PROVE  Snapshot'
<1>a. id \in [Conn -> IDs] /\ hasLowID \in [Conn -> BOOLEAN]
  BY Zenon DEF TypeOK, SessionTypes
<1>q. CASE PoolQuiet
  BY Zenon, <1>q DEF PoolQuiet, Snapshot
<1>l. ASSUME NEW c \in Conn, pc[c] \in Deciding, UNCHANGED rel,
             \A d \in Conn : d # c => id'[d] = id[d] /\ hasLowID'[d] = hasLowID[d]
      PROVE  Snapshot'
  <2>1. rel[c].step = "idle"
    BY Zenon, <1>l, NotYetLogged
  <2> QED BY Zenon, <1>l, <2>1 DEF Snapshot
<1>6. ASSUME NEW c \in Conn, NEW h \in Hash, NEW v6 \in Addr6 \cup {None}, NEW banned \in BOOLEAN, LoginRequest(c, h, v6, banned) PROVE Snapshot'
  BY Zenon, <1>6 DEF LoginRequest, Snapshot
<1>14. ASSUME NEW c \in Conn, NEW r \in RequestID, Firewalled(c, r) PROVE Snapshot'
  <2>1. pc[c] \in Deciding /\ UNCHANGED rel
    BY Zenon, <1>14 DEF Firewalled, At, Deciding
  <2>2. \A d \in Conn : d # c => id'[d] = id[d] /\ hasLowID'[d] = hasLowID[d]
    BY Zenon, <1>14, <1>a DEF Firewalled
  <2> QED BY Zenon, <1>l, <2>1, <2>2
<1>15. ASSUME NEW c \in Conn, Reachable(c) PROVE Snapshot'
  <2>1. pc[c] \in Deciding /\ UNCHANGED rel
    BY Zenon, <1>15 DEF Reachable, At, Deciding
  <2>2. \A d \in Conn : d # c => id'[d] = id[d] /\ hasLowID'[d] = hasLowID[d]
    BY Zenon, <1>15, <1>a DEF Reachable
  <2> QED BY Zenon, <1>l, <2>1, <2>2
<1>16. ASSUME NEW c \in Conn, NEW i \in LowID, AddLowID(c, i) PROVE Snapshot'
  <2>1. pc[c] \in Deciding /\ UNCHANGED rel
    BY Zenon, <1>16 DEF AddLowID, At, Deciding
  <2>2. \A d \in Conn : d # c => id'[d] = id[d] /\ hasLowID'[d] = hasLowID[d]
    BY Zenon, <1>16, <1>a DEF AddLowID
  <2> QED BY Zenon, <1>l, <2>1, <2>2
<1>25. ASSUME NEW c \in Conn, ReleaseStart(c) PROVE Snapshot'
  BY <1>25, ReleaseStartMoves DEF Releases, Snapshot
<1>26. ASSUME NEW c \in Conn, ReleaseLowID(c) PROVE Snapshot'
  BY <1>26, ReleaseLowIDMoves DEF Releases, Snapshot
<1>27. ASSUME NEW c \in Conn, Unregister(c) PROVE Snapshot'
  BY <1>27, UnregisterMoves DEF Releases, Snapshot
<1>28. ASSUME NEW c \in Conn, ReleaseStore(c) PROVE Snapshot'
  BY <1>28, ReleaseStoreMoves DEF Releases, Snapshot
<1> QED BY Zenon, <1>q, <1>6, <1>14, <1>15, <1>16, <1>25, <1>26, <1>27, <1>28, QuietOrPool DEF PoolStep

\* Every step keeps what a login asked for.
LEMMA AskedStep ==
  ASSUME TypeOK, Goroutines, Asked, [Next]_vars
  PROVE  Asked'
<1>a. /\ pc \in [Conn -> Labels] /\ target \in [Conn -> Conn \cup {None}]
      /\ hasLowID \in [Conn -> BOOLEAN] /\ logins \in [Conn -> 0..MaxLogins]
  BY Zenon DEF TypeOK, SessionTypes
<1>q. CASE PoolQuiet
  BY Zenon, <1>q DEF PoolQuiet, Asked
<1>r. ASSUME NEW c \in Conn, NEW from, NEW to, Releases(c, from, to) PROVE Asked'
  BY Zenon, <1>r DEF Releases, Asked, LoggingIn
<1>6. ASSUME NEW c \in Conn, NEW h \in Hash, NEW v6 \in Addr6 \cup {None}, NEW banned \in BOOLEAN, LoginRequest(c, h, v6, banned) PROVE Asked'
  <2>1. logins'[c] = logins[c] + 1 /\ \A d \in Conn : d # c => logins'[d] = logins[d]
    BY Zenon, <1>6, <1>a DEF LoginRequest
  <2>2. logins'[c] >= 1
    BY <1>a, <2>1, ConstantsOK
  <2>3. /\ pc'[c] # "lowID" /\ \A d \in Conn : d # c => pc'[d] = pc[d]
        /\ UNCHANGED <<target, hasLowID>>
    BY Zenon, <1>6, <1>a DEF LoginRequest, CloseAndReturn, Goto
  <2> QED BY Zenon, <2>1, <2>2, <2>3 DEF Asked, LoggingIn
<1>14. ASSUME NEW c \in Conn, NEW r \in RequestID, Firewalled(c, r) PROVE Asked'
  <2>1. /\ pc[c] \in LoginLabels /\ pc'[c] = "lowID" /\ UNCHANGED <<logins, target>>
        /\ \A d \in Conn : d # c => pc'[d] = pc[d] /\ hasLowID'[d] = hasLowID[d]
        /\ hasLowID'[c]
    BY Zenon, <1>14, <1>a DEF Firewalled, Goto, At, LoginLabels
  <2>2. logins[c] >= 1
    BY Zenon, <2>1 DEF Asked, LoggingIn
  <2> QED BY Zenon, <2>1, <2>2 DEF Asked, LoggingIn
<1>15. ASSUME NEW c \in Conn, Reachable(c) PROVE Asked'
  <2>1. /\ pc[c] \in LoginLabels /\ pc'[c] = "takeOver" /\ UNCHANGED <<logins, target>>
        /\ \A d \in Conn : d # c => pc'[d] = pc[d] /\ hasLowID'[d] = hasLowID[d]
        /\ ~hasLowID'[c]
    BY Zenon, <1>15, <1>a DEF Reachable, Goto, At, LoginLabels
  <2>2. logins[c] >= 1
    BY Zenon, <2>1 DEF Asked, LoggingIn
  <2> QED BY Zenon, <2>1, <2>2 DEF Asked, LoggingIn
<1>16. ASSUME NEW c \in Conn, NEW i \in LowID, AddLowID(c, i) PROVE Asked'
  <2>1. /\ pc[c] \in LoginLabels /\ pc'[c] = "takeOver" /\ UNCHANGED <<logins, target>>
        /\ \A d \in Conn : d # c => pc'[d] = pc[d] /\ hasLowID'[d] = hasLowID[d]
        /\ TRUE
    BY Zenon, <1>16, <1>a DEF AddLowID, Goto, At, LoginLabels
  <2>2. logins[c] >= 1
    BY Zenon, <2>1 DEF Asked, LoggingIn
  <2> QED BY Zenon, <2>1, <2>2 DEF Asked, LoggingIn
<1>25. ASSUME NEW c \in Conn, ReleaseStart(c) PROVE Asked'
  BY Zenon, <1>25, <1>r, ReleaseStartMoves
<1>26. ASSUME NEW c \in Conn, ReleaseLowID(c) PROVE Asked'
  BY Zenon, <1>26, <1>r, ReleaseLowIDMoves
<1>27. ASSUME NEW c \in Conn, Unregister(c) PROVE Asked'
  BY Zenon, <1>27, <1>r, UnregisterMoves
<1>28. ASSUME NEW c \in Conn, ReleaseStore(c) PROVE Asked'
  BY Zenon, <1>28, <1>r, ReleaseStoreMoves
<1> QED BY Zenon, <1>q, <1>6, <1>14, <1>15, <1>16, <1>25, <1>26, <1>27, <1>28, QuietOrPool DEF PoolStep

-----------------------------------------------------------------------------
\* What the pool holds, and where an ID leads.

\* Every step keeps the owners of what the pool holds.
LEMMA OwnedStep ==
  ASSUME TypeOK, Goroutines, Snapshot, Asked, Owned, MaxLogins <= 1, [Next]_vars
  PROVE  Owned'
<1>a. /\ pc \in [Conn -> Labels] /\ id \in [Conn -> IDs] /\ hasLowID \in [Conn -> BOOLEAN]
      /\ logins \in [Conn -> 0..MaxLogins] /\ lowIDs \in [LowID -> Conn \cup {None}]
  BY Zenon DEF TypeOK, SessionTypes, RuntimeTypes
<1>q. CASE PoolQuiet
  <2>1. \A i \in LowID : lowIDs[i] # None => lowIDs[i] \in Conn
    BY Zenon, <1>a
  <2> QED BY Zenon, <1>q, <2>1 DEF PoolQuiet, Owned
\* A step of goroutine c, which holds nothing, changes nothing for the owners.
<1>o. ASSUME NEW c \in Conn, \A i \in LowID : lowIDs[i] # c, UNCHANGED <<lowIDs, rel, ret>>,
             \A d \in Conn : d # c => /\ pc'[d] = pc[d] /\ id'[d] = id[d] /\ logins'[d] = logins[d]
                                      /\ hasLowID'[d] = hasLowID[d]
      PROVE  Owned'
  <2> SUFFICES ASSUME NEW i \in LowID, lowIDs[i] # None
               PROVE  /\ hasLowID'[lowIDs[i]] /\ id'[lowIDs[i]] = i
                      /\ rel[lowIDs[i]].step \in {"idle", "lowID"}
                      /\ logins'[lowIDs[i]] >= 1
                      /\ pc'[lowIDs[i]] \notin BeforeID /\ (pc'[lowIDs[i]] = "release" => ret[lowIDs[i]] # "dualStack")
    BY Zenon, <1>o DEF Owned, PastID
  <2>1. lowIDs[i] \in Conn /\ lowIDs[i] # c
    BY Zenon, <1>a, <1>o
  <2> QED BY ZenonT(60), <1>o, <2>1 DEF Owned, PastID
<1>6. ASSUME NEW c \in Conn, NEW h \in Hash, NEW v6 \in Addr6 \cup {None}, NEW banned \in BOOLEAN, LoginRequest(c, h, v6, banned) PROVE Owned'
  <2>1. ~(logins[c] >= 1)
    BY <1>6, <1>a, ConstantsOK DEF LoginRequest
  <2>2. \A i \in LowID : lowIDs[i] # c
    BY <2>1, ConstantsOK DEF Owned
  <2>3. /\ \A d \in Conn : d # c => pc'[d] = pc[d] /\ logins'[d] = logins[d]
        /\ UNCHANGED <<lowIDs, hasLowID, id, rel, ret>>
    BY Zenon, <1>6, <1>a DEF LoginRequest, CloseAndReturn, Goto, runtime
  <2> QED BY Zenon, <1>o, <2>2, <2>3
<1>14. ASSUME NEW c \in Conn, NEW r \in RequestID, Firewalled(c, r) PROVE Owned'
  <2>1. pc[c] \in BeforeID
    BY Zenon, <1>14 DEF Firewalled, At, BeforeID
  <2>2. \A i \in LowID : lowIDs[i] # c
    BY <2>1, ConstantsOK DEF Owned, PastID
  <2>3. /\ \A d \in Conn : d # c => pc'[d] = pc[d] /\ id'[d] = id[d] /\ hasLowID'[d] = hasLowID[d]
        /\ UNCHANGED <<lowIDs, logins, rel, ret>>
    BY Zenon, <1>14, <1>a DEF Firewalled, Goto, runtime
  <2> QED BY Zenon, <1>o, <2>2, <2>3
<1>15. ASSUME NEW c \in Conn, Reachable(c) PROVE Owned'
  <2>1. pc[c] \in BeforeID
    BY Zenon, <1>15 DEF Reachable, At, BeforeID
  <2>2. \A i \in LowID : lowIDs[i] # c
    BY <2>1, ConstantsOK DEF Owned, PastID
  <2>3. /\ \A d \in Conn : d # c => pc'[d] = pc[d] /\ id'[d] = id[d] /\ hasLowID'[d] = hasLowID[d]
        /\ UNCHANGED <<lowIDs, logins, rel, ret>>
    BY Zenon, <1>15, <1>a DEF Reachable, Goto, runtime
  <2> QED BY Zenon, <1>o, <2>2, <2>3
<1>16. ASSUME NEW c \in Conn, NEW i \in LowID, AddLowID(c, i) PROVE Owned'
  <2>1. hasLowID[c] /\ logins[c] >= 1 /\ rel[c].step = "idle" /\ pc[c] = "lowID"
    <3>1. pc[c] = "lowID"
      BY Zenon, <1>16 DEF AddLowID, At
    <3>2. rel[c].step = "idle"
      BY Zenon, <3>1, NotYetLogged DEF Deciding
    <3> QED BY Zenon, <3>1, <3>2 DEF Asked, LoggingIn, LoginLabels
  <2>2. \A j \in LowID : lowIDs[j] # c
    BY <2>1, ConstantsOK DEF Owned, PastID, BeforeID
  <2>3. /\ pc'[c] = "takeOver" /\ id'[c] = i
        /\ \A d \in Conn : d # c => pc'[d] = pc[d] /\ id'[d] = id[d]
        /\ \A j \in LowID : lowIDs'[j] = IF j = i THEN c ELSE lowIDs[j]
        /\ UNCHANGED <<logins, hasLowID, rel, ret>>
    BY Zenon, <1>16, <1>a DEF AddLowID, Goto
  <2> SUFFICES ASSUME NEW j \in LowID, lowIDs'[j] # None
               PROVE  /\ hasLowID'[lowIDs'[j]] /\ id'[lowIDs'[j]] = j
                      /\ rel'[lowIDs'[j]].step \in {"idle", "lowID"}
                      /\ logins'[lowIDs'[j]] >= 1
                      /\ pc'[lowIDs'[j]] \notin BeforeID /\ (pc'[lowIDs'[j]] = "release" => ret'[lowIDs'[j]] # "dualStack")
    BY ZenonT(60) DEF Owned, PastID
  <2>4. CASE j = i
    BY Zenon, <2>1, <2>3, <2>4 DEF BeforeID
  <2>5. CASE j # i
    <3>1. lowIDs'[j] = lowIDs[j] /\ lowIDs[j] \in Conn /\ lowIDs[j] # c
      BY <1>a, <2>2, <2>3, <2>5
    <3> QED BY <2>3, <3>1 DEF Owned, PastID
  <2> QED BY Zenon, <2>4, <2>5
<1>r. ASSUME NEW c \in Conn, NEW from, NEW to, Releases(c, from, to), UNCHANGED lowIDs,
             to \in {"idle", "lowID"} \/ from \notin {"idle", "lowID"}
      PROVE  Owned'
  <2> SUFFICES ASSUME NEW i \in LowID, lowIDs[i] # None
               PROVE  rel'[lowIDs[i]].step \in {"idle", "lowID"}
    BY Zenon, <1>r DEF Releases, Owned, PastID
  <2>1. lowIDs[i] \in Conn /\ rel[lowIDs[i]].step \in {"idle", "lowID"}
    BY Zenon, <1>a DEF Owned
  <2> QED BY Zenon, <1>r, <2>1 DEF Releases
<1>25. ASSUME NEW c \in Conn, ReleaseStart(c) PROVE Owned'
  <2>1. UNCHANGED lowIDs
    BY Zenon, <1>25 DEF ReleaseStart, runtime
  <2> QED BY Zenon, <1>25, <1>r, <2>1, ReleaseStartMoves
<1>26. ASSUME NEW c \in Conn, ReleaseLowID(c) PROVE Owned'
  <2> PICK v : v = target[c]
    BY Zenon
  <2>1. /\ v \in Conn /\ rel[v].step = "lowID"
        /\ \A d \in Conn : d # v => rel'[d] = rel[d]
        /\ UNCHANGED <<pc, id, logins, hasLowID, ret>>
    BY Zenon, <1>26, ReleaseLowIDMoves DEF Releases
  <2>2. rel[v].id = IF hasLowID[v] THEN id[v] ELSE None
    BY Zenon, <2>1 DEF Snapshot
  <2>3. \A i \in LowID : lowIDs'[i] = IF rel[v].id = i THEN None ELSE lowIDs[i]
    BY Zenon, <1>26, <1>a DEF ReleaseLowID
  <2>4. \A i \in LowID : lowIDs'[i] # None => lowIDs'[i] = lowIDs[i] /\ lowIDs[i] \in Conn /\ lowIDs[i] # v
    BY <1>a, <2>1, <2>2, <2>3 DEF Owned
  <2>5. \A i \in LowID : lowIDs'[i] # None =>
          rel'[lowIDs[i]] = rel[lowIDs[i]] /\ lowIDs[i] # None /\ lowIDs'[i] = lowIDs[i]
    BY Zenon, <2>1, <2>4
  <2> QED BY <2>1, <2>5 DEF Owned, PastID
<1>27. ASSUME NEW c \in Conn, Unregister(c) PROVE Owned'
  <2>1. UNCHANGED lowIDs
    BY Zenon, <1>27 DEF Unregister, runtime
  <2> QED BY Zenon, <1>27, <1>r, <2>1, UnregisterMoves
<1>28. ASSUME NEW c \in Conn, ReleaseStore(c) PROVE Owned'
  <2>1. UNCHANGED lowIDs
    BY Zenon, <1>28 DEF ReleaseStore, runtime
  <2> QED BY Zenon, <1>28, <1>r, <2>1, ReleaseStoreMoves
<1> QED BY Zenon, <1>q, <1>6, <1>14, <1>15, <1>16, <1>25, <1>26, <1>27, <1>28, QuietOrPool DEF PoolStep

\* Every step keeps the ID a client was told leading to it.
LEMMA RoutedStep ==
  ASSUME TypeOK, Goroutines, Snapshot, Routed, RequestID \cap LowID = {}, [Next]_vars
  PROVE  Routed'
<1>a. /\ pc \in [Conn -> Labels] /\ id \in [Conn -> IDs] /\ hasLowID \in [Conn -> BOOLEAN]
      /\ lowIDs \in [LowID -> Conn \cup {None}]
  BY Zenon DEF TypeOK, SessionTypes, RuntimeTypes
<1>q. CASE PoolQuiet
  BY Zenon, <1>q DEF PoolQuiet, Routed
<1>6. ASSUME NEW c \in Conn, NEW h \in Hash, NEW v6 \in Addr6 \cup {None}, NEW banned \in BOOLEAN, LoginRequest(c, h, v6, banned) PROVE Routed'
  <2>1. /\ UNCHANGED <<lowIDs, rel, id, hasLowID, logged, ret>>
        /\ pc'[c] \in {"read", "replace", "identify"} /\ \A d \in Conn : d # c => pc'[d] = pc[d]
    BY Zenon, <1>6, <1>a DEF LoginRequest, CloseAndReturn, Goto, runtime
  <2>2. \A d \in Conn : Settled(d)' => Settled(d)
    BY Zenon, <2>1 DEF Settled
  <2> QED BY Zenon, <2>1, <2>2 DEF Routed
<1>14. ASSUME NEW c \in Conn, NEW r \in RequestID, Firewalled(c, r) PROVE Routed'
  <2>1. ~logged[c] /\ r \notin LowID
    BY Zenon, <1>14, NotYetLogged DEF Firewalled, At, Deciding
  <2>2. /\ id'[c] = r /\ pc'[c] = "lowID"
        /\ \A d \in Conn : d # c => pc'[d] = pc[d] /\ id'[d] = id[d] /\ hasLowID'[d] = hasLowID[d]
        /\ UNCHANGED <<logged, ret, rel, lowIDs>>
    BY Zenon, <1>14, <1>a DEF Firewalled, Goto, runtime
  <2>3. ~Settled(c)' /\ \A d \in Conn : d # c => (Settled(d)' <=> Settled(d))
    BY Zenon, <2>1, <2>2 DEF Settled
  <2> QED BY Zenon, <2>1, <2>2, <2>3 DEF Routed
<1>15. ASSUME NEW c \in Conn, Reachable(c) PROVE Routed'
  <2>1. peer[c] \notin LowID
    BY Zenon, <1>15, ConstantsOK DEF Reachable, Addr
  <2>2. /\ id'[c] = peer[c] /\ ~hasLowID'[c]
        /\ \A d \in Conn : d # c => pc'[d] = pc[d] /\ id'[d] = id[d] /\ hasLowID'[d] = hasLowID[d]
        /\ UNCHANGED <<logged, ret, rel, lowIDs>>
    BY Zenon, <1>15, <1>a DEF Reachable, Goto, runtime
  <2>3. \A d \in Conn : d # c => (Settled(d)' <=> Settled(d))
    BY Zenon, <2>2 DEF Settled
  <2> QED BY Zenon, <2>1, <2>2, <2>3 DEF Routed
<1>16. ASSUME NEW c \in Conn, NEW i \in LowID, AddLowID(c, i) PROVE Routed'
  <2>1. /\ id'[c] = i /\ lowIDs[i] = None /\ lowIDs'[i] = c
        /\ \A d \in Conn : d # c => pc'[d] = pc[d] /\ id'[d] = id[d]
        /\ \A j \in LowID : j # i => lowIDs'[j] = lowIDs[j]
        /\ UNCHANGED <<logged, hasLowID, ret, rel>>
    BY Zenon, <1>16, <1>a DEF AddLowID, Goto
  <2>2. \A d \in Conn : d # c /\ id[d] \in LowID /\ rel[d].step \in {"idle", "lowID"} => id[d] # i
    BY <2>1, ConstantsOK DEF Routed
  <2>3. \A d \in Conn : d # c => (Settled(d)' <=> Settled(d))
    BY Zenon, <2>1 DEF Settled
  <2> SUFFICES ASSUME NEW d \in Conn
               PROVE  /\ id'[d] \in LowID /\ rel'[d].step \in {"idle", "lowID"} => lowIDs'[id'[d]] = d
                      /\ hasLowID'[d] /\ Settled(d)' => id'[d] \in LowID
    BY Zenon DEF Routed
  <2>4. CASE d = c
    BY Zenon, <2>1, <2>4
  <2>5. CASE d # c
    BY Zenon, <2>1, <2>2, <2>3, <2>5 DEF Routed
  <2> QED BY Zenon, <2>4, <2>5
<1>r. ASSUME NEW c \in Conn, NEW from, NEW to, Releases(c, from, to), UNCHANGED lowIDs,
             to \in {"idle", "lowID"} => from \in {"idle", "lowID"}
      PROVE  Routed'
  <2>1. \A d \in Conn : Settled(d)' <=> Settled(d)
    BY Zenon, <1>r DEF Releases, Settled
  <2>2. \A d \in Conn : rel'[d].step \in {"idle", "lowID"} => rel[d].step \in {"idle", "lowID"}
    BY Zenon, <1>r DEF Releases
  <2> QED BY Zenon, <1>r, <2>1, <2>2 DEF Releases, Routed
<1>25. ASSUME NEW c \in Conn, ReleaseStart(c) PROVE Routed'
  <2>1. UNCHANGED lowIDs
    BY Zenon, <1>25 DEF ReleaseStart, runtime
  <2> QED BY Zenon, <1>25, <1>r, <2>1, ReleaseStartMoves
<1>26. ASSUME NEW c \in Conn, ReleaseLowID(c) PROVE Routed'
  <2> PICK v : v = target[c]
    BY Zenon
  <2>1. /\ v \in Conn /\ rel[v].step = "lowID" /\ rel'[v].step = "unregister"
        /\ \A d \in Conn : d # v => rel'[d] = rel[d]
        /\ UNCHANGED <<pc, id, logged, hasLowID, ret>>
    BY Zenon, <1>26, ReleaseLowIDMoves DEF Releases
  <2>2. rel[v].id = IF hasLowID[v] THEN id[v] ELSE None
    BY Zenon, <2>1 DEF Snapshot
  <2>3. \A i \in LowID : lowIDs'[i] = IF rel[v].id = i THEN None ELSE lowIDs[i]
    BY Zenon, <1>26, <1>a DEF ReleaseLowID
  <2>4. \A d \in Conn : d # v /\ id[d] \in LowID /\ rel[d].step \in {"idle", "lowID"} => rel[v].id # id[d]
    BY <2>1, <2>2, ConstantsOK DEF Routed
  <2>5. \A d \in Conn : Settled(d)' <=> Settled(d)
    BY Zenon, <2>1 DEF Settled
  <2> QED BY Zenon, <2>1, <2>3, <2>4, <2>5 DEF Routed
<1>27. ASSUME NEW c \in Conn, Unregister(c) PROVE Routed'
  <2>1. UNCHANGED lowIDs
    BY Zenon, <1>27 DEF Unregister, runtime
  <2> QED BY Zenon, <1>27, <1>r, <2>1, UnregisterMoves
<1>28. ASSUME NEW c \in Conn, ReleaseStore(c) PROVE Routed'
  <2>1. UNCHANGED lowIDs
    BY Zenon, <1>28 DEF ReleaseStore, runtime
  <2> QED BY Zenon, <1>28, <1>r, <2>1, ReleaseStoreMoves
<1> QED BY Zenon, <1>q, <1>6, <1>14, <1>15, <1>16, <1>25, <1>26, <1>27, <1>28, QuietOrPool DEF PoolStep

PoolInv == IndexInv /\ Snapshot /\ Asked

\* The inductive invariant.
LEMMA PoolInvariant == Spec => []PoolInv
<1>1. Init => Snapshot /\ Asked
  BY DEF Init, Snapshot, Asked, NotReleased, LoggingIn, LoginLabels
<1>2. IndexInv /\ Snapshot /\ Asked /\ [Next]_vars => Snapshot' /\ Asked'
  BY Zenon, SnapshotStep, AskedStep DEF IndexInv
<1> QED BY <1>1, <1>2, IndexInvariant, PTL DEF Spec, PoolInv

\* No LowID is stranded in the pool while a connection logs in at most once:
\* its holder knows it and has still to give it back (AddByAddress in
\* handleLoginRequest, Remove in releaseSession).
THEOREM LowIDHeldCorrect ==
  ASSUME MaxLogins <= 1
  PROVE  Spec => []LowIDHeld
<1>1. Init => Owned
  BY Zenon DEF Init, Owned
<1>2. PoolInv /\ Owned /\ [Next]_vars => Owned'
  BY Zenon, OwnedStep, MaxLogins <= 1 DEF PoolInv, IndexInv
<1>3. Owned => LowIDHeld
  BY Zenon DEF Owned, LowIDHeld
<1> QED BY <1>1, <1>2, <1>3, PoolInvariant, PTL DEF Spec

\* A callback for a LowID reaches the session that was told it, as long as no
\* login request carries an ID of the pool as its own.
THEOREM LowIDRoutesCorrect ==
  ASSUME RequestID \cap LowID = {}
  PROVE  Spec => []LowIDRoutes
<1>1. Init => Routed
  BY ConstantsOK DEF Init, Routed, Settled
<1>2. PoolInv /\ Routed /\ [Next]_vars => Routed'
  BY Zenon, RoutedStep, RequestID \cap LowID = {} DEF PoolInv, IndexInv
<1>3. Routed => LowIDRoutes
  BY Zenon DEF Routed, Settled, LowIDRoutes
<1> QED BY <1>1, <1>2, <1>3, PoolInvariant, PTL DEF Spec

-----------------------------------------------------------------------------
\* The connection slots.

\* A connection that has not been accepted has no address.
Unplaced == \A c \in Conn : pc[c] = "new" => peer[c] = None

\* The connections that hold a slot of the address.
Holders(a) == {c \in Conn : peer[c] = a /\ pc[c] # "done"}

\* A step that neither takes a slot nor gives one back.
KeepsSlots ==
  /\ UNCHANGED <<peer, connsPerIP>>
  /\ \A d \in Conn : (pc'[d] = "done" <=> pc[d] = "done") /\ (pc'[d] = "new" => pc[d] = "new")

\* A step opens, refuses or ends a connection, or keeps the slots.
LEMMA SlotSteps ==
  ASSUME TypeOK, Goroutines, [Next]_vars
  PROVE  KeepsSlots \/ \E c \in Conn : Untrack(c) \/ \E a \in Addr : Accept(c, a) \/ Refuse(c, a)
<1>a. pc \in [Conn -> Labels]
  BY Zenon DEF TypeOK, SessionTypes
<1>1. ASSUME NEW c \in Conn, ReadEnds(c) PROVE KeepsSlots
  <2>1. UNCHANGED <<peer, connsPerIP>>
    BY Zenon, <1>1 DEF ReadEnds, session, runtime
  <2>2. \A d \in Conn : (pc'[d] = "done" <=> pc[d] = "done") /\ (pc'[d] = "new" => pc[d] = "new")
    BY Zenon, <1>1, <1>a DEF ReadEnds, CallRelease, Goto, At
  <2> QED BY Zenon, <2>1, <2>2 DEF KeepsSlots
<1>2. ASSUME NEW c \in Conn, OfferFiles(c) PROVE KeepsSlots
  <2>1. UNCHANGED <<peer, connsPerIP>>
    BY Zenon, <1>2 DEF OfferFiles, session, runtime
  <2>2. \A d \in Conn : (pc'[d] = "done" <=> pc[d] = "done") /\ (pc'[d] = "new" => pc[d] = "new")
    BY Zenon, <1>2, <1>a DEF OfferFiles, session, runtime
  <2> QED BY Zenon, <2>1, <2>2 DEF KeepsSlots
<1>3. ASSUME NEW c \in Conn, NEW h \in Hash, NEW v6 \in Addr6 \cup {None}, NEW banned \in BOOLEAN, LoginRequest(c, h, v6, banned) PROVE KeepsSlots
  <2>1. UNCHANGED <<peer, connsPerIP>>
    BY Zenon, <1>3 DEF LoginRequest, session, runtime
  <2>2. \A d \in Conn : (pc'[d] = "done" <=> pc[d] = "done") /\ (pc'[d] = "new" => pc[d] = "new")
    BY Zenon, <1>3, <1>a DEF LoginRequest, CloseAndReturn, Goto, At
  <2> QED BY Zenon, <2>1, <2>2 DEF KeepsSlots
<1>4. ASSUME NEW c \in Conn, ReplaceSameIP(c) PROVE KeepsSlots
  <2>1. UNCHANGED <<peer, connsPerIP>>
    BY Zenon, <1>4 DEF ReplaceSameIP, session, runtime
  <2>2. \A d \in Conn : (pc'[d] = "done" <=> pc[d] = "done") /\ (pc'[d] = "new" => pc[d] = "new")
    BY Zenon, <1>4, <1>a DEF ReplaceSameIP, CallRelease, Goto, At
  <2> QED BY Zenon, <2>1, <2>2 DEF KeepsSlots
<1>5. ASSUME NEW c \in Conn, DualStackCheck(c) PROVE KeepsSlots
  <2>1. UNCHANGED <<peer, connsPerIP>>
    BY Zenon, <1>5 DEF DualStackCheck, session, runtime
  <2>2. \A d \in Conn : (pc'[d] = "done" <=> pc[d] = "done") /\ (pc'[d] = "new" => pc[d] = "new")
    BY Zenon, <1>5, <1>a DEF DualStackCheck, Goto, At
  <2> QED BY Zenon, <2>1, <2>2 DEF KeepsSlots
<1>6. ASSUME NEW c \in Conn, Poke(c) PROVE KeepsSlots
  <2>1. UNCHANGED <<peer, connsPerIP>>
    BY Zenon, <1>6 DEF Poke, session, runtime
  <2>2. \A d \in Conn : (pc'[d] = "done" <=> pc[d] = "done") /\ (pc'[d] = "new" => pc[d] = "new")
    BY Zenon, <1>6, <1>a DEF Poke, Goto, At
  <2> QED BY Zenon, <2>1, <2>2 DEF KeepsSlots
<1>7. ASSUME NEW c \in Conn, ProbeDone(c) PROVE KeepsSlots
  <2>1. UNCHANGED <<peer, connsPerIP>>
    BY Zenon, <1>7 DEF ProbeDone, session, runtime
  <2>2. \A d \in Conn : (pc'[d] = "done" <=> pc[d] = "done") /\ (pc'[d] = "new" => pc[d] = "new")
    BY Zenon, <1>7, <1>a DEF ProbeDone, Goto, At
  <2> QED BY Zenon, <2>1, <2>2 DEF KeepsSlots
<1>8. ASSUME NEW c \in Conn, Recheck(c) PROVE KeepsSlots
  <2>1. UNCHANGED <<peer, connsPerIP>>
    BY Zenon, <1>8 DEF Recheck, session, runtime
  <2>2. \A d \in Conn : (pc'[d] = "done" <=> pc[d] = "done") /\ (pc'[d] = "new" => pc[d] = "new")
    BY Zenon, <1>8, <1>a DEF Recheck, Goto, At
  <2> QED BY Zenon, <2>1, <2>2 DEF KeepsSlots
<1>9. ASSUME NEW c \in Conn, HeldCheck(c) PROVE KeepsSlots
  <2>1. UNCHANGED <<peer, connsPerIP>>
    BY Zenon, <1>9 DEF HeldCheck, session, runtime
  <2>2. \A d \in Conn : (pc'[d] = "done" <=> pc[d] = "done") /\ (pc'[d] = "new" => pc[d] = "new")
    BY Zenon, <1>9, <1>a DEF HeldCheck, CloseAndReturn, Goto, At
  <2> QED BY Zenon, <2>1, <2>2 DEF KeepsSlots
<1>10. ASSUME NEW c \in Conn, FreeOrphan(c) PROVE KeepsSlots
  <2>1. UNCHANGED <<peer, connsPerIP>>
    BY Zenon, <1>10 DEF FreeOrphan, session, runtime
  <2>2. \A d \in Conn : (pc'[d] = "done" <=> pc[d] = "done") /\ (pc'[d] = "new" => pc[d] = "new")
    BY Zenon, <1>10, <1>a DEF FreeOrphan, Goto, At
  <2> QED BY Zenon, <2>1, <2>2 DEF KeepsSlots
<1>11. ASSUME NEW c \in Conn, NEW r \in RequestID, Firewalled(c, r) PROVE KeepsSlots
  <2>1. UNCHANGED <<peer, connsPerIP>>
    BY Zenon, <1>11 DEF Firewalled, session, runtime
  <2>2. \A d \in Conn : (pc'[d] = "done" <=> pc[d] = "done") /\ (pc'[d] = "new" => pc[d] = "new")
    BY Zenon, <1>11, <1>a DEF Firewalled, Goto, At
  <2> QED BY Zenon, <2>1, <2>2 DEF KeepsSlots
<1>12. ASSUME NEW c \in Conn, Reachable(c) PROVE KeepsSlots
  <2>1. UNCHANGED <<peer, connsPerIP>>
    BY Zenon, <1>12 DEF Reachable, session, runtime
  <2>2. \A d \in Conn : (pc'[d] = "done" <=> pc[d] = "done") /\ (pc'[d] = "new" => pc[d] = "new")
    BY Zenon, <1>12, <1>a DEF Reachable, Goto, At
  <2> QED BY Zenon, <2>1, <2>2 DEF KeepsSlots
<1>13. ASSUME NEW c \in Conn, NEW i \in LowID, AddLowID(c, i) PROVE KeepsSlots
  <2>1. UNCHANGED <<peer, connsPerIP>>
    BY Zenon, <1>13 DEF AddLowID, session, runtime
  <2>2. \A d \in Conn : (pc'[d] = "done" <=> pc[d] = "done") /\ (pc'[d] = "new" => pc[d] = "new")
    BY Zenon, <1>13, <1>a DEF AddLowID, Goto, At
  <2> QED BY Zenon, <2>1, <2>2 DEF KeepsSlots
<1>14. ASSUME NEW c \in Conn, LowIDPoolExhausted(c) PROVE KeepsSlots
  <2>1. UNCHANGED <<peer, connsPerIP>>
    BY Zenon, <1>14 DEF LowIDPoolExhausted, session, runtime
  <2>2. \A d \in Conn : (pc'[d] = "done" <=> pc[d] = "done") /\ (pc'[d] = "new" => pc[d] = "new")
    BY Zenon, <1>14, <1>a DEF LowIDPoolExhausted, CloseAndReturn, Goto, At
  <2> QED BY Zenon, <2>1, <2>2 DEF KeepsSlots
<1>15. ASSUME NEW c \in Conn, TakeOver(c) PROVE KeepsSlots
  <2>1. UNCHANGED <<peer, connsPerIP>>
    BY Zenon, <1>15 DEF TakeOver, session, runtime
  <2>2. \A d \in Conn : (pc'[d] = "done" <=> pc[d] = "done") /\ (pc'[d] = "new" => pc[d] = "new")
    BY Zenon, <1>15, <1>a DEF TakeOver, CallRelease, Goto, At
  <2> QED BY Zenon, <2>1, <2>2 DEF KeepsSlots
<1>16. ASSUME NEW c \in Conn, LastCheck(c) PROVE KeepsSlots
  <2>1. UNCHANGED <<peer, connsPerIP>>
    BY Zenon, <1>16 DEF LastCheck, session, runtime
  <2>2. \A d \in Conn : (pc'[d] = "done" <=> pc[d] = "done") /\ (pc'[d] = "new" => pc[d] = "new")
    BY Zenon, <1>16, <1>a DEF LastCheck, CloseAndReturn, Goto, At
  <2> QED BY Zenon, <2>1, <2>2 DEF KeepsSlots
<1>17. ASSUME NEW c \in Conn, BeginHandshake(c) PROVE KeepsSlots
  <2>1. UNCHANGED <<peer, connsPerIP>>
    BY Zenon, <1>17 DEF BeginHandshake, session, runtime
  <2>2. \A d \in Conn : (pc'[d] = "done" <=> pc[d] = "done") /\ (pc'[d] = "new" => pc[d] = "new")
    BY Zenon, <1>17, <1>a DEF BeginHandshake, Goto, At
  <2> QED BY Zenon, <2>1, <2>2 DEF KeepsSlots
<1>18. ASSUME NEW c \in Conn, StoreConnect(c) PROVE KeepsSlots
  <2>1. UNCHANGED <<peer, connsPerIP>>
    BY Zenon, <1>18 DEF StoreConnect, session, runtime
  <2>2. \A d \in Conn : (pc'[d] = "done" <=> pc[d] = "done") /\ (pc'[d] = "new" => pc[d] = "new")
    BY Zenon, <1>18, <1>a DEF StoreConnect, Goto, At
  <2> QED BY Zenon, <2>1, <2>2 DEF KeepsSlots
<1>19. ASSUME NEW c \in Conn, StoreConnectFails(c) PROVE KeepsSlots
  <2>1. UNCHANGED <<peer, connsPerIP>>
    BY Zenon, <1>19 DEF StoreConnectFails, session, runtime
  <2>2. \A d \in Conn : (pc'[d] = "done" <=> pc[d] = "done") /\ (pc'[d] = "new" => pc[d] = "new")
    BY Zenon, <1>19, <1>a DEF StoreConnectFails, CloseAndReturn, Goto, At
  <2> QED BY Zenon, <2>1, <2>2 DEF KeepsSlots
<1>20. ASSUME NEW c \in Conn, RegisterSession(c) PROVE KeepsSlots
  <2>1. UNCHANGED <<peer, connsPerIP>>
    BY Zenon, <1>20 DEF RegisterSession, session, runtime
  <2>2. \A d \in Conn : (pc'[d] = "done" <=> pc[d] = "done") /\ (pc'[d] = "new" => pc[d] = "new")
    BY Zenon, <1>20, <1>a DEF RegisterSession, Goto, At
  <2> QED BY Zenon, <2>1, <2>2 DEF KeepsSlots
<1>21. ASSUME NEW c \in Conn, Greet(c) PROVE KeepsSlots
  <2>1. UNCHANGED <<peer, connsPerIP>>
    BY Zenon, <1>21 DEF Greet, session, runtime
  <2>2. \A d \in Conn : (pc'[d] = "done" <=> pc[d] = "done") /\ (pc'[d] = "new" => pc[d] = "new")
    BY Zenon, <1>21, <1>a DEF Greet, Goto, At
  <2> QED BY Zenon, <2>1, <2>2 DEF KeepsSlots
<1>22. ASSUME NEW c \in Conn, ReleaseStart(c) PROVE KeepsSlots
  <2>1. UNCHANGED <<peer, connsPerIP>>
    BY Zenon, <1>22 DEF ReleaseStart, session, runtime
  <2>2. \A d \in Conn : (pc'[d] = "done" <=> pc[d] = "done") /\ (pc'[d] = "new" => pc[d] = "new")
    BY Zenon, <1>22, <1>a DEF ReleaseStart
  <2> QED BY Zenon, <2>1, <2>2 DEF KeepsSlots
<1>23. ASSUME NEW c \in Conn, ReleaseLowID(c) PROVE KeepsSlots
  <2>1. UNCHANGED <<peer, connsPerIP>>
    BY Zenon, <1>23 DEF ReleaseLowID, session, runtime
  <2>2. \A d \in Conn : (pc'[d] = "done" <=> pc[d] = "done") /\ (pc'[d] = "new" => pc[d] = "new")
    BY Zenon, <1>23, <1>a DEF ReleaseLowID
  <2> QED BY Zenon, <2>1, <2>2 DEF KeepsSlots
<1>24. ASSUME NEW c \in Conn, Unregister(c) PROVE KeepsSlots
  <2>1. UNCHANGED <<peer, connsPerIP>>
    BY Zenon, <1>24 DEF Unregister, session, runtime
  <2>2. \A d \in Conn : (pc'[d] = "done" <=> pc[d] = "done") /\ (pc'[d] = "new" => pc[d] = "new")
    BY Zenon, <1>24, <1>a DEF Unregister
  <2> QED BY Zenon, <2>1, <2>2 DEF KeepsSlots
<1>25. ASSUME NEW c \in Conn, ReleaseStore(c) PROVE KeepsSlots
  <2>1. UNCHANGED <<peer, connsPerIP>>
    BY Zenon, <1>25 DEF ReleaseStore, session, runtime
  <2>2. \A d \in Conn : (pc'[d] = "done" <=> pc[d] = "done") /\ (pc'[d] = "new" => pc[d] = "new")
    BY Zenon, <1>25, <1>a DEF ReleaseStore
  <2> QED BY Zenon, <2>1, <2>2 DEF KeepsSlots
<1>26. ASSUME NEW c \in Conn, ReleaseReturn(c) PROVE KeepsSlots
  <2>1. ret[c] \notin {"new", "done"}
    BY Zenon, <1>26 DEF Goroutines, GoroutineOf, ReleaseReturn, At
  <2>2. \A d \in Conn : (pc'[d] = "done" <=> pc[d] = "done") /\ (pc'[d] = "new" => pc[d] = "new")
    BY Zenon, <1>26, <1>a, <2>1 DEF ReleaseReturn, Goto, At
  <2>3. UNCHANGED <<peer, connsPerIP>>
    BY Zenon, <1>26 DEF ReleaseReturn, runtime
  <2> QED BY Zenon, <2>2, <2>3 DEF KeepsSlots
<1>27. CASE UNCHANGED vars
  BY Zenon, <1>27 DEF vars, session, runtime, KeepsSlots
<1> QED
  BY Zenon, <1>1, <1>2, <1>3, <1>4, <1>5, <1>6, <1>7, <1>8, <1>9, <1>10, <1>11, <1>12, <1>13, <1>14, <1>15, <1>16, <1>17, <1>18, <1>19, <1>20, <1>21, <1>22, <1>23, <1>24, <1>25, <1>26, <1>27 DEF Next, Step, Arbitrate, AssignID, HandShake, Release

\* The connections are finitely many, and so are those of an address.
LEMMA HoldersFinite ==
  ASSUME NEW a
  PROVE  IsFiniteSet(Holders(a)) /\ Cardinality(Holders(a)) \in Nat
<1>1. IsFiniteSet(Holders(a))
  BY Zenon, ConstantsOK, FS_Subset DEF Holders
<1> QED BY Zenon, <1>1, FS_CardinalityType

\* Every step keeps the counters.
LEMMA SlotsStep ==
  ASSUME TypeOK, Goroutines, Unplaced, SlotsExact, [Next]_vars
  PROVE  Unplaced' /\ SlotsExact'
<1>a. /\ pc \in [Conn -> Labels] /\ peer \in [Conn -> Addr \cup {None}]
      /\ connsPerIP \in [Addr -> Nat] /\ None \notin Addr
  BY Zenon, ConstantsOK DEF TypeOK, SessionTypes, RuntimeTypes
<1>b. \A a \in Addr : connsPerIP[a] = Cardinality(Holders(a))
  BY Zenon DEF SlotsExact, Holders
<1>c. ASSUME \A a \in Addr : connsPerIP'[a] = Cardinality(Holders(a)')
      PROVE  SlotsExact'
  BY Zenon, <1>c DEF SlotsExact, Holders
<1>1. CASE KeepsSlots
  <2>1. \A a \in Addr : Holders(a)' = Holders(a)
    BY Zenon, <1>1 DEF KeepsSlots, Holders
  <2> QED BY Zenon, <1>1, <1>b, <1>c, <2>1 DEF KeepsSlots, Unplaced
<1>2. ASSUME NEW c \in Conn, Untrack(c) PROVE Unplaced' /\ SlotsExact'
  <2>1. /\ peer[c] \in Addr /\ pc[c] = "untrack" /\ pc' = [pc EXCEPT ![c] = "done"]
        /\ connsPerIP' = [connsPerIP EXCEPT ![peer[c]] = IF @ <= 1 THEN 0 ELSE @ - 1]
        /\ UNCHANGED peer
    BY Zenon, <1>2 DEF Untrack, At, Goto, Goroutines, GoroutineOf
  <2>2. Unplaced'
    BY Zenon, <1>a, <2>1 DEF Unplaced
  <2>3. ASSUME NEW a \in Addr PROVE connsPerIP'[a] = Cardinality(Holders(a)')
    <3>1. CASE a = peer[c]
      <4>1. c \in Holders(a) /\ Holders(a)' = Holders(a) \ {c}
        BY Zenon, <1>a, <2>1, <3>1 DEF Holders
      <4>2. Cardinality(Holders(a)') = Cardinality(Holders(a)) - 1
        BY Zenon, <4>1, HoldersFinite, FS_RemoveElement
      <4>3. Cardinality(Holders(a)') \in Nat
        BY Zenon, <4>1, HoldersFinite, FS_RemoveElement, FS_CardinalityType
      <4>4. connsPerIP'[a] = IF connsPerIP[a] <= 1 THEN 0 ELSE connsPerIP[a] - 1
        BY Zenon, <1>a, <2>1, <3>1
      <4>5. ASSUME NEW n \in Nat, NEW m \in Nat, m = n - 1
            PROVE  m = IF n <= 1 THEN 0 ELSE n - 1
        BY <4>5
      <4> QED BY Zenon, <1>a, <1>b, <4>2, <4>3, <4>4, <4>5
    <3>2. CASE a # peer[c]
      <4>1. Holders(a)' = Holders(a)
        BY Zenon, <1>a, <2>1, <3>2 DEF Holders
      <4> QED BY Zenon, <1>a, <1>b, <2>1, <3>2, <4>1
    <3> QED BY Zenon, <3>1, <3>2
  <2> QED BY Zenon, <1>c, <2>2, <2>3
<1>3. ASSUME NEW c \in Conn, NEW b \in Addr, Accept(c, b) PROVE Unplaced' /\ SlotsExact'
  <2>1. /\ pc[c] = "new" /\ peer[c] = None /\ pc' = [pc EXCEPT ![c] = "read"]
        /\ peer' = [peer EXCEPT ![c] = b]
        /\ connsPerIP' = [connsPerIP EXCEPT ![b] = @ + 1]
    BY Zenon, <1>3 DEF Accept, At, Goto, Unplaced
  <2>2. Unplaced'
    BY Zenon, <1>a, <2>1 DEF Unplaced
  <2>3. ASSUME NEW a \in Addr PROVE connsPerIP'[a] = Cardinality(Holders(a)')
    <3>1. CASE a = b
      <4>1. c \notin Holders(a) /\ Holders(a)' = Holders(a) \cup {c}
        BY Zenon, <1>a, <2>1, <3>1 DEF Holders
      <4>2. Cardinality(Holders(a)') = Cardinality(Holders(a)) + 1
        BY Zenon, <4>1, HoldersFinite, FS_AddElement
      <4> QED BY Zenon, <1>a, <1>b, <2>1, <3>1, <4>2
    <3>2. CASE a # b
      <4>1. Holders(a)' = Holders(a)
        BY Zenon, <1>a, <2>1, <3>2 DEF Holders
      <4> QED BY Zenon, <1>a, <1>b, <2>1, <3>2, <4>1
    <3> QED BY Zenon, <3>1, <3>2
  <2> QED BY Zenon, <1>c, <2>2, <2>3
<1>4. ASSUME NEW c \in Conn, NEW b \in Addr, Refuse(c, b) PROVE Unplaced' /\ SlotsExact'
  <2>1. /\ pc[c] = "new" /\ peer[c] = None /\ pc' = [pc EXCEPT ![c] = "done"]
        /\ UNCHANGED <<peer, connsPerIP>>
    BY Zenon, <1>4 DEF Refuse, At, Goto, Unplaced, runtime
  <2>2. Unplaced'
    BY Zenon, <1>a, <2>1 DEF Unplaced
  <2>3. \A a \in Addr : Holders(a)' = Holders(a)
    BY Zenon, <1>a, <2>1 DEF Holders
  <2> QED BY Zenon, <1>b, <1>c, <2>1, <2>2, <2>3
<1> QED BY Zenon, <1>1, <1>2, <1>3, <1>4, SlotSteps

\* The count the per-address limit is enforced with (acquireConnSlot,
\* releaseConnSlot) is the number of connections of the address, for any number
\* of connections and whatever limits reloads set: a refused connection gives
\* nothing back, an accepted one gives its slot back exactly once, at the end
\* of TCPHandler, whoever released its session.
THEOREM SlotsCorrect == Spec => []SlotsExact
<1>1. Init => Unplaced /\ SlotsExact
  <2> SUFFICES ASSUME Init PROVE Unplaced /\ SlotsExact
    OBVIOUS
  <2>1. Unplaced
    BY Zenon DEF Init, Unplaced
  <2>2. ASSUME NEW a \in Addr PROVE connsPerIP[a] = Cardinality({c \in Conn : peer[c] = a /\ pc[c] # "done"})
    <3>1. {c \in Conn : peer[c] = a /\ pc[c] # "done"} = {}
      BY Zenon, ConstantsOK DEF Init
    <3> QED BY Zenon, <3>1, FS_EmptySet DEF Init
  <2> QED BY Zenon, <2>1, <2>2 DEF SlotsExact
<1>2. IndexInv /\ Unplaced /\ SlotsExact /\ [Next]_vars => Unplaced' /\ SlotsExact'
  BY Zenon, SlotsStep DEF IndexInv
<1> QED BY <1>1, <1>2, IndexInvariant, PTL DEF Spec

=============================================================================
