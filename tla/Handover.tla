------------------------------- MODULE Handover -------------------------------
(***************************************************************************)
(* Handing every TCP session to a successor process: ed2k/handoff.go       *)
(* (parking, export, restore), internal/handoff/handover_unix.go (the two  *)
(* sides of the protocol) and cmd/enode/handoff_unix.go (what they drive). *)
(* A session's read loop, the writers of its socket, the handover          *)
(* goroutine and the successor run concurrently; the successor may die and *)
(* either side may give up waiting at any time.  What a login and a        *)
(* release do in detail is the subject of Sessions.                        *)
(***************************************************************************)
EXTENDS Naturals, FiniteSets, Sequences

CONSTANTS Session,       \* TCP connections of the predecessor
          Initial,       \* those logged in when the model starts
          Stores,        \* how the index may be kept: see store
          SlowLogins,    \* a login may outlast the parking timeout
          SocketsFail,   \* the stores with which a socket may fail to be handed over
          MaxWrites,     \* bound: writes to a socket in the predecessor
          MaxHandovers   \* bound: SIGUSR2 signals

ASSUME HandoverConstants ==
  /\ Initial \subseteq Session
  /\ Stores \subseteq {"memory", "file", "database"} /\ SocketsFail \subseteq Stores
  /\ SlowLogins \in BOOLEAN
  /\ MaxWrites \in Nat /\ MaxHandovers \in Nat

VARIABLES
  store,     \* "memory": streamed to the successor; "file": handed over through
             \* the file (handoff.memory); "database": shared by both processes
  loop,      \* where each read loop of the predecessor is
  past,      \* sessions whose read deadline was set to the past
  closed,    \* sessions whose socket the predecessor closed
  lowID,     \* sessions holding a LowID of the predecessor
  logged,    \* sessions whose login is complete
  released,  \* sessions whose releaseSession has run
  moved,     \* sessions marked handedOff
  writing,   \* sessions a writer holds the write lock of
  stream,    \* position of each session's send keystream
  rows,      \* client rows of the predecessor's engine, or of the database
  pred,      \* where the handover goroutine is
  parking,   \* a park round is in progress
  clean,     \* clean passes in a row
  toList,    \* sessions ParkSessions has still to sort
  locked,    \* sessions whose write lock the handover holds
  exported,  \* keystream positions sent, by session
  image,     \* rows written to the successor or to the handover file
  filed,     \* the index is in the file and no longer in the engine
  handovers, \* handovers started
  succ,      \* where the successor is
  toSucc,    \* control lane, predecessor to successor
  toPred,    \* control lane, successor to predecessor
  restored,  \* sessions the successor rebuilt
  imported   \* client rows of the successor's own engine

sessions == <<loop, past, closed, lowID, logged, released, moved>>
writers == <<writing, stream>>
handover == <<pred, parking, clean, toList, locked, exported, image, filed, handovers>>
successor == <<succ, restored, imported>>
lanes == <<toSucc, toPred>>
vars == <<store, sessions, writers, rows, handover, successor, lanes>>

LoopLabel == {"none", "fresh", "top", "arming", "reading", "busy", "login", "gotID", "parked", "leaving", "gone"}
PredLabel == {"serving", "awaitReady", "passing", "listing", "storage",
              "awaitImported", "readBack", "resume", "release", "done"}
SuccLabel == {"none", "booting", "awaitBegin", "awaitSessions", "awaitCommit",
              "starting", "serving", "dead"}
Message == {"ready", "begin", "sessions", "imported", "commit", "abort"}

TypeOK ==
  /\ store \in Stores
  /\ loop \in [Session -> LoopLabel]
  /\ \A set \in {past, closed, lowID, logged, released, moved, writing, rows, toList,
                 locked, image, restored, imported} : set \subseteq Session
  /\ stream \in [Session -> 0..MaxWrites]
  /\ pred \in PredLabel /\ succ \in SuccLabel
  /\ parking \in BOOLEAN /\ filed \in BOOLEAN /\ clean \in 0..2
  /\ DOMAIN exported \subseteq Session /\ \A s \in DOMAIN exported : exported[s] \in 0..MaxWrites
  /\ handovers \in 0..MaxHandovers
  /\ toSucc \in Seq(Message) /\ toPred \in Seq(Message)

NoneExported == [s \in {} |-> 0]

Init ==
  /\ store \in Stores
  /\ loop = [s \in Session |-> IF s \in Initial THEN "top" ELSE "none"]
  /\ past = {} /\ closed = {} /\ released = {} /\ moved = {} /\ writing = {}
  /\ lowID = Initial /\ logged = Initial /\ rows = Initial
  /\ stream = [s \in Session |-> 0]
  /\ pred = "serving" /\ parking = FALSE /\ clean = 0
  /\ toList = {} /\ locked = {} /\ exported = NoneExported /\ image = {} /\ filed = FALSE
  /\ handovers = 0
  /\ succ = "none" /\ restored = {} /\ imported = {}
  /\ toSucc = <<>> /\ toPred = <<>>

-----------------------------------------------------------------------------
(* The predecessor's sessions *)

At(s, l) == loop[s] = l
Goto(s, l) == loop' = [loop EXCEPT ![s] = l]
Live == {s \in Session : loop[s] \notin {"none", "fresh", "gone"}}
Gate == pred \in {"serving", "awaitReady"}

\* releaseSession, once per session: its LowID, and its row when it is logged
\* in, unless it has moved to the successor.
Release(set) ==
  LET ending == {s \in set \ released : s \notin moved} IN
  /\ released' = released \union set
  /\ lowID' = lowID \ ending
  /\ rows' = rows \ (ending \cap logged)
  /\ closed' = closed \union set

Accept(s) ==
  /\ At(s, "none") /\ Gate
  /\ Goto(s, "fresh")
  /\ UNCHANGED <<store, past, closed, lowID, logged, released, moved, writers, rows, handover, successor, lanes>>

Track(s) ==
  /\ At(s, "fresh")
  /\ Goto(s, "top")
  /\ UNCHANGED <<store, past, closed, lowID, logged, released, moved, writers, rows, handover, successor, lanes>>

\* The loop looks for a handover before each read, then sets its deadline,
\* unless no timeout is configured.
CheckParking(s) ==
  /\ At(s, "top")
  /\ Goto(s, IF parking THEN "parked" ELSE "arming")
  /\ UNCHANGED <<store, past, closed, lowID, logged, released, moved, writers, rows, handover, successor, lanes>>

SetDeadline(s) ==
  /\ At(s, "arming")
  /\ Goto(s, "reading")
  /\ past' \in {past, past \ {s}}
  /\ UNCHANGED <<store, closed, lowID, logged, released, moved, writers, rows, handover, successor, lanes>>

\* The read times out on the past deadline while a handover is on.
ReadInterrupted(s) ==
  /\ At(s, "reading") /\ s \in past \ closed /\ parking
  /\ Goto(s, "parked")
  /\ UNCHANGED <<store, past, closed, lowID, logged, released, moved, writers, rows, handover, successor, lanes>>

\* Bytes arrive: a login request, or any other packet.
ReadBytes(s) ==
  /\ At(s, "reading") /\ s \notin closed
  /\ \/ s \notin logged /\ Goto(s, "login")
     \/ Goto(s, "busy")
  /\ UNCHANGED <<store, past, closed, lowID, logged, released, moved, writers, rows, handover, successor, lanes>>

HandlerReturns(s) ==
  /\ At(s, "busy")
  /\ Goto(s, "top")
  /\ UNCHANGED <<store, past, closed, lowID, logged, released, moved, writers, rows, handover, successor, lanes>>

\* A login, in the two steps a release can fall between.
LoginTakesID(s) ==
  /\ At(s, "login")
  /\ Goto(s, "gotID")
  /\ lowID' = lowID \union {s}
  /\ UNCHANGED <<store, past, closed, logged, released, moved, writers, rows, handover, successor, lanes>>

LoginConnects(s) ==
  /\ At(s, "gotID")
  /\ Goto(s, "top")
  /\ logged' = logged \union {s}
  /\ rows' = rows \union {s}
  /\ UNCHANGED <<store, past, closed, lowID, released, moved, writers, handover, successor, lanes>>

\* The client hangs up, the socket was closed here, or the read timed out on a
\* deadline a handover has left behind: the loop ends and releases the session.
ReadFails(s) ==
  /\ At(s, "reading")
  /\ ~(s \in past \ closed /\ parking)
  /\ Goto(s, "gone")
  /\ Release({s})
  /\ UNCHANGED <<store, past, logged, moved, writers, handover, successor, lanes>>

\* Faulty: the deadline of the handover is left on the session.
Unpark_KeepsDeadline(s) ==
  /\ At(s, "leaving")
  /\ Goto(s, "top")
  /\ UNCHANGED <<store, past, closed, lowID, logged, released, moved, writers, rows, handover, successor, lanes>>

\* park returns: the round was resumed, or the session has moved.
Unpark(s) ==
  /\ At(s, "leaving")
  /\ Goto(s, "top")
  /\ past' = past \ {s}
  /\ UNCHANGED <<store, closed, lowID, logged, released, moved, writers, rows, handover, successor, lanes>>

LeaveHandedOff(s) ==
  /\ At(s, "parked") /\ pred = "done"
  /\ Goto(s, "gone")
  /\ Release({s})
  /\ UNCHANGED <<store, past, logged, moved, writers, handover, successor, lanes>>

\* A write by any goroutine: the status ticker, a peer's callback request.  One
\* that fails closes the socket.
BeginWrite(s) ==
  /\ s \in Live \cap logged
  /\ s \notin writing \union locked
  /\ stream[s] < MaxWrites
  /\ writing' = writing \union {s}
  /\ UNCHANGED <<store, sessions, stream, rows, handover, successor, lanes>>

EndWrite(s) ==
  /\ s \in writing
  /\ writing' = writing \ {s}
  /\ stream' = [stream EXCEPT ![s] = @ + 1]
  /\ closed' \in {closed, closed \union {s}}
  /\ UNCHANGED <<store, loop, past, lowID, logged, released, moved, rows, handover, successor, lanes>>

-----------------------------------------------------------------------------
(* The predecessor's side of the handover *)

\* SIGUSR2: a successor is started, its gates closed, and the lanes are new.
StartHandover ==
  /\ pred = "serving" /\ handovers < MaxHandovers
  /\ pred' = "awaitReady" /\ handovers' = handovers + 1
  /\ succ' = "booting" /\ restored' = {} /\ imported' = {}
  /\ toSucc' = <<>> /\ toPred' = <<>>
  /\ UNCHANGED <<store, sessions, writers, rows, parking, clean, toList, locked, exported, image, filed>>

\* Not ready in time, dead, or of another protocol version: nothing was parked.
NotReady ==
  /\ pred = "awaitReady"
  /\ pred' = "serving" /\ succ' = "dead"
  /\ UNCHANGED <<store, sessions, writers, rows, parking, clean, toList, locked, exported, image, filed,
                 handovers, restored, imported, lanes>>

\* Quiesce: the TCP gate closes (see Gate) and the round is published.
Quiesce ==
  /\ pred = "awaitReady" /\ toPred # <<>> /\ Head(toPred) = "ready"
  /\ toPred' = Tail(toPred)
  /\ pred' = "passing" /\ parking' = TRUE /\ clean' = 0
  /\ UNCHANGED <<store, sessions, writers, rows, toList, locked, exported, image, filed, handovers,
                 successor, toSucc>>

Unparked == {s \in Live : ~At(s, "parked")}

\* Faulty: each read is interrupted once, by the first pass.
Pass_Once ==
  /\ pred = "passing" /\ clean < 2
  /\ past' = IF past = {} THEN Unparked ELSE past
  /\ clean' = IF Unparked = {} THEN clean + 1 ELSE 0
  /\ UNCHANGED <<store, loop, closed, lowID, logged, released, moved, writers, rows, pred, parking, toList,
                 locked, exported, image, filed, handovers, successor, lanes>>

\* One pass of ParkSessions: interrupt every read again, count clean passes.
Pass ==
  /\ pred = "passing" /\ clean < 2
  /\ past' = past \union Unparked
  /\ clean' = IF Unparked = {} THEN clean + 1 ELSE 0
  /\ UNCHANGED <<store, loop, closed, lowID, logged, released, moved, writers, rows, pred, parking, toList,
                 locked, exported, image, filed, handovers, successor, lanes>>

\* Two clean passes, or the timeout: by then only sessions busy in a handler,
\* a login among them when SlowLogins, have not parked.
PassesEnd ==
  /\ pred = "passing"
  /\ clean = 2 \/ \A s \in Unparked : At(s, "busy") \/ (SlowLogins /\ loop[s] \in {"login", "gotID"})
  /\ pred' = "listing" /\ toList' = Live
  /\ UNCHANGED <<store, sessions, writers, rows, parking, clean, locked, exported, image, filed, handovers,
                 successor, lanes>>

\* Faulty: a write in progress is not waited for.
List_IgnoresWriter(s) ==
  /\ pred = "listing" /\ s \in toList
  /\ toList' = toList \ {s}
  /\ IF At(s, "parked")
     THEN /\ locked' = locked \union {s}
          /\ UNCHANGED <<closed, lowID, released, rows>>
     ELSE Release({s}) /\ UNCHANGED locked
  /\ UNCHANGED <<store, loop, past, logged, moved, writers, pred, parking, clean, exported, image, filed,
                 handovers, successor, lanes>>

\* A parked session is held by its write lock; a straggler is closed and
\* released from this goroutine.
List(s) ==
  /\ pred = "listing" /\ s \in toList
  /\ toList' = toList \ {s}
  /\ IF At(s, "parked")
     THEN /\ s \notin writing
          /\ locked' = locked \union {s}
          /\ UNCHANGED <<closed, lowID, released, rows>>
     ELSE Release({s}) /\ UNCHANGED locked
  /\ UNCHANGED <<store, loop, past, logged, moved, writers, pred, parking, clean, exported, image, filed,
                 handovers, successor, lanes>>

\* Export, and BEGIN with the number of sessions: a session whose socket cannot
\* be duplicated, or that was tracked after the list was made, is released.
Export ==
  /\ pred = "listing" /\ toList = {}
  /\ \E gone \in SUBSET locked :
       /\ locked \cap closed \subseteq gone
       /\ gone \subseteq closed \/ store \in SocketsFail
       /\ exported' = [s \in locked \ gone |-> stream[s]]
       /\ Release(gone \union (Live \ locked))
  /\ pred' = "storage" /\ toSucc' = Append(toSucc, "begin")
  /\ UNCHANGED <<store, loop, past, logged, moved, writers, parking, clean, toList, locked, image, filed,
                 handovers, successor, toPred>>

\* ExportStorage, streamed or through the file that lets the engine forget it,
\* then the session states and their sockets.
ExportStorage ==
  /\ pred = "storage"
  /\ image' = rows /\ filed' = (store = "file")
  /\ rows' = IF store = "file" THEN {} ELSE rows
  /\ pred' = "awaitImported" /\ toSucc' = Append(toSucc, "sessions")
  /\ UNCHANGED <<store, sessions, writers, parking, clean, toList, locked, exported, handovers,
                 successor, toPred>>

\* Any error before the commit is out: the successor is killed first.
Abort ==
  /\ pred \in {"storage", "awaitImported"}
  /\ pred' = "readBack" /\ succ' = "dead"
  /\ UNCHANGED <<store, sessions, writers, rows, parking, clean, toList, locked, exported, image, filed,
                 handovers, restored, imported, lanes>>

\* Faulty: the sessions go back to serving with the index still in the file.
ReadBack_Skips ==
  /\ pred = "readBack"
  /\ pred' = "resume" /\ filed' = FALSE
  /\ UNCHANGED <<store, sessions, writers, rows, parking, clean, toList, locked, exported, image, handovers,
                 successor, lanes>>

\* Resume, in its two parts: the index comes back, then the sessions do.
ReadBack ==
  /\ pred = "readBack"
  /\ pred' = "resume" /\ filed' = FALSE
  /\ rows' = IF filed THEN image ELSE rows
  /\ UNCHANGED <<store, sessions, writers, parking, clean, toList, locked, exported, image, handovers,
                 successor, lanes>>

\* Faulty: the round is withdrawn but its channel is never closed.
Resume_NeverWakes ==
  /\ pred = "resume"
  /\ pred' = "serving" /\ parking' = FALSE
  /\ locked' = {} /\ exported' = NoneExported /\ image' = {} /\ clean' = 0
  /\ UNCHANGED <<store, sessions, writers, rows, toList, filed, handovers, successor, lanes>>

Resume ==
  /\ pred = "resume"
  /\ pred' = "serving" /\ parking' = FALSE
  /\ loop' = [s \in Session |-> IF At(s, "parked") THEN "leaving" ELSE loop[s]]
  /\ locked' = {} /\ exported' = NoneExported /\ image' = {} /\ clean' = 0
  /\ UNCHANGED <<store, past, closed, lowID, logged, released, moved, writers, rows, toList, filed,
                 handovers, successor, lanes>>

\* IMPORTED is read and COMMIT sent: no way back from here.
Commit ==
  /\ pred = "awaitImported" /\ toPred # <<>> /\ Head(toPred) = "imported"
  /\ toPred' = Tail(toPred) /\ toSucc' = Append(toSucc, "commit")
  /\ pred' = "release"
  /\ UNCHANGED <<store, sessions, writers, rows, parking, clean, toList, locked, exported, image, filed,
                 handovers, successor>>

\* Faulty: the loops are let go without the mark, and release their sessions.
HandOff_Unmarked ==
  /\ pred = "release"
  /\ pred' = "done"
  /\ UNCHANGED <<store, sessions, writers, rows, parking, clean, toList, locked, exported, image, filed,
                 handovers, successor, lanes>>

\* Release: the sessions are marked moved and their loops let go.
HandOff ==
  /\ pred = "release"
  /\ pred' = "done"
  /\ moved' = moved \union DOMAIN exported
  /\ UNCHANGED <<store, loop, past, closed, lowID, logged, released, writers, rows, parking, clean, toList,
                 locked, exported, image, filed, handovers, successor, lanes>>

-----------------------------------------------------------------------------
(* The successor *)

Ready ==
  /\ succ = "booting"
  /\ succ' = "awaitBegin" /\ toPred' = Append(toPred, "ready")
  /\ UNCHANGED <<store, sessions, writers, rows, handover, restored, imported, toSucc>>

Receives(m) == toSucc # <<>> /\ Head(toSucc) = m /\ toSucc' = Tail(toSucc)

ReadBegin ==
  /\ succ = "awaitBegin" /\ Receives("begin")
  /\ succ' = "awaitSessions"
  /\ UNCHANGED <<store, sessions, writers, rows, handover, restored, imported, toPred>>

\* ImportStorage and Restore, then IMPORTED.  A socket that cannot be adopted
\* has its client disconnected in storage, which may be the shared database.
Restore ==
  /\ succ = "awaitSessions" /\ Receives("sessions")
  /\ \E failed \in SUBSET DOMAIN exported :
       /\ failed = {} \/ store \in SocketsFail
       /\ restored' = DOMAIN exported \ failed
       /\ rows' = IF store = "database" THEN rows \ failed ELSE rows
       /\ imported' = IF store = "database" THEN {} ELSE image \ failed
  /\ succ' = "awaitCommit" /\ toPred' = Append(toPred, "imported")
  /\ UNCHANGED <<store, sessions, writers, handover>>

\* Start: rows no restored session holds are swept, then the sessions are served.
Sweep ==
  /\ succ = "awaitCommit" /\ Receives("commit")
  /\ succ' = "starting"
  /\ rows' = IF store = "database" THEN rows \cap restored ELSE rows
  /\ imported' = imported \cap restored
  /\ UNCHANGED <<store, sessions, writers, handover, restored, toPred>>

Start ==
  /\ succ = "starting"
  /\ succ' = "serving"
  /\ UNCHANGED <<store, sessions, writers, rows, handover, restored, imported, lanes>>

\* The successor dies, or gives up: a message is overdue, or the lane is closed.
\* It drops its copies of the sockets and touches nothing else.
GiveUp ==
  /\ succ \in {"booting", "awaitBegin", "awaitSessions", "awaitCommit"}
  /\ succ' = "dead" /\ restored' = {}
  /\ UNCHANGED <<store, sessions, writers, rows, handover, imported, lanes>>

-----------------------------------------------------------------------------
LoopStep(s) ==
  \/ Track(s) \/ CheckParking(s) \/ SetDeadline(s) \/ ReadInterrupted(s) \/ HandlerReturns(s)
  \/ LoginTakesID(s) \/ LoginConnects(s) \/ Unpark(s) \/ LeaveHandedOff(s)
  \/ s \in closed /\ ReadFails(s)

PredStep ==
  \/ Quiesce \/ Pass \/ PassesEnd \/ (\E s \in Session : List(s)) \/ Export \/ ExportStorage
  \/ ReadBack \/ Resume \/ Commit \/ HandOff

SuccStep == Ready \/ ReadBegin \/ Restore \/ Sweep \/ Start

Next ==
  \/ \E s \in Session : \/ LoopStep(s) \/ Accept(s) \/ ReadBytes(s) \/ ReadFails(s)
                        \/ BeginWrite(s) \/ EndWrite(s)
  \/ PredStep \/ StartHandover \/ NotReady \/ Abort
  \/ SuccStep \/ GiveUp

Spec == Init /\ [][Next]_vars

\* Goroutines are scheduled, writes end, waits end in a message or a timeout.
\* A client need not send or hang up, and no handover need be asked for.
FairSpec ==
  /\ Spec
  /\ \A s \in Session : WF_vars(LoopStep(s)) /\ WF_vars(EndWrite(s))
  /\ WF_vars(PredStep) /\ WF_vars(SuccStep)
  /\ WF_vars(NotReady) /\ WF_vars(Abort)

-----------------------------------------------------------------------------
(* Properties *)

\* A socket is read and written by one process: once the successor starts a
\* session, the predecessor has committed, its loop for it is parked or over, no
\* writer is inside its lock, and it was not released as a disconnect.
OneServer ==
  /\ TypeOK
  /\ succ \in {"starting", "serving"} =>
       /\ pred \in {"release", "done"}
       /\ \A s \in restored : /\ loop[s] \in {"parked", "gone"}
                              /\ s \notin writing
                              /\ s \in released => s \in moved

\* The keystream position sent with a session stays the current one for as long
\* as the successor may use it: nothing is written between export and commit.
StreamExact == \A s \in DOMAIN exported : exported[s] = stream[s]

\* Searches find who is served.  The rows the successor serves from are those of
\* the sessions it restored: no row of a session that was not handed over, and no
\* restored user without one.  In this process the row of a logged-in session that
\* is neither parked nor released is in the engine, also after a handover that
\* failed with the index in the file.
RowsFollow ==
  /\ succ = "serving" => (IF store = "database" THEN rows ELSE imported) = restored \cap logged
  /\ \A s \in Live : (s \in logged \ released /\ loop[s] \notin {"parked", "leaving"}) => s \in rows

\* A handover that failed leaves no read deadline behind: a session that reads
\* while none is in progress is not about to be timed out by the last one.
NoStaleDeadline ==
  ~parking => \A s \in past \ closed : ~At(s, "reading")

\* A handover ends, with the predecessor serving again or gone, however the read
\* loops' own deadlines race the interruptions and whatever the successor does.
HandoverEnds == (pred # "serving") ~> (pred \in {"serving", "done"})

\* A parked session is not held for ever: it reads again or has been let go.
ParkingEnds == \A s \in Session : At(s, "parked") ~> ~At(s, "parked")
=============================================================================
