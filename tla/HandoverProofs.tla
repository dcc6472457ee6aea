--------------------------- MODULE HandoverProofs ---------------------------
(***************************************************************************)
(* The handover of the TCP sessions, for any sets of connections and       *)
(* stores, any number of handovers and of writes.                          *)
(*                                                                         *)
(* The argument follows the handover goroutine.  Lanes says how far the    *)
(* successor and the messages to it can be at each of its labels, Held     *)
(* what the write lock of a listed session guarantees until it is resumed  *)
(* or moved, Deadlines where a session interrupted by a pass can be.       *)
(* Together they give OneServer, StreamExact and NoStaleDeadline.  The     *)
(* rows need two more: Settled, that no login is under way once the        *)
(* passes are over, and Indexed, that the row of whoever is still served,  *)
(* or was exported, is in the engine or in the handover file.              *)
(***************************************************************************)
EXTENDS Handover, TLAPS

\* The handover goroutine before it closes the gate, and from Export on.
Early == {"serving", "awaitReady"}
Moving == {"storage", "awaitImported", "readBack", "resume", "release", "done"}

\* What the handover goroutine holds at each of its labels.
Control ==
  /\ parking <=> pred \notin Early
  /\ pred \notin Moving => DOMAIN exported = {} /\ ~filed
  /\ pred \notin Moving \union {"listing"} => locked = {}
  /\ pred # "listing" => toList = {}
  /\ filed => store = "file" /\ pred \in {"awaitImported", "readBack", "release", "done"}

InLane(m) == \E i \in 1..Len(toSucc) : toSucc[i] = m

\* How far the successor can be, and which messages can be on their way.
Lanes ==
  /\ pred = "serving" => succ \in {"none", "dead"}
  /\ pred \in {"awaitReady", "passing", "listing"} =>
       toSucc = <<>> /\ succ \in {"booting", "awaitBegin", "dead"}
  /\ pred = "storage" =>
       ~InLane("sessions") /\ ~InLane("commit") /\ succ \in {"booting", "awaitBegin", "awaitSessions", "dead"}
  /\ pred = "awaitImported" => ~InLane("commit") /\ succ \notin {"none", "starting", "serving"}
  /\ pred \in {"readBack", "resume"} => succ = "dead"
  /\ succ \in {"awaitCommit", "starting", "serving"} => restored \subseteq DOMAIN exported

\* A session whose write lock the handover holds is parked and nobody writes to
\* it; one that was exported is as it was exported, and released only as moved.
Held ==
  /\ \A s \in locked : loop[s] = "parked" \/ (pred = "done" /\ loop[s] = "gone")
  /\ locked \cap writing = {}
  /\ DOMAIN exported \subseteq locked
  /\ released \subseteq closed
  /\ \A s \in DOMAIN exported : exported[s] = stream[s] /\ (s \in released => pred = "done")
  /\ pred = "done" => DOMAIN exported \subseteq moved
  /\ \A s \in writing : stream[s] < MaxWrites

\* A session with the deadline of a handover, and its socket open, is on its way
\* to park, is parked, or is about to take the deadline off.
Deadlines ==
  /\ \A s \in past : loop[s] \notin {"none", "fresh"}
  /\ \A s \in past \ closed : /\ pred \in Moving => loop[s] \in {"parked", "gone"}
                              /\ pred \in Early => loop[s] \in {"leaving", "gone"}

HandoverInv == TypeOK /\ Control /\ Lanes /\ Held /\ Deadlines

\* No login is under way once the passes are over.
Settled ==
  \A s \in Session :
    /\ pred \in Moving \union {"listing"} => loop[s] \in {"none", "fresh", "top", "busy", "parked", "gone"}
    /\ pred = "passing" /\ clean > 0 => loop[s] \in {"none", "fresh", "top", "parked", "gone"}
    /\ loop[s] \in {"none", "fresh"} => s \notin logged

\* Where the rows of the predecessor are.
Index == IF filed THEN image ELSE rows

Served == {s \in Live : s \in logged \ released}

Indexed ==
  /\ rows \subseteq logged /\ image \subseteq logged
  /\ Served \union (logged \cap DOMAIN exported) \subseteq Index
  /\ pred \in Moving => Served \subseteq DOMAIN exported
  /\ pred \in {"awaitImported", "release", "done"} =>
       logged \cap DOMAIN exported \subseteq image

\* What the successor makes of them.
Imported ==
  /\ succ \in {"awaitCommit", "starting", "serving"} /\ store \notin SocketsFail => restored = DOMAIN exported
  /\ succ = "awaitCommit" /\ store # "database" => imported = image \ (DOMAIN exported \ restored)
  /\ succ \in {"starting", "serving"} =>
       (IF store = "database" THEN rows ELSE imported) = restored \cap logged

RowsInv == HandoverInv /\ Settled /\ Indexed /\ Imported

-----------------------------------------------------------------------------
\* The types, one by one.
Types ==
  /\ store \in Stores /\ loop \in [Session -> LoopLabel] /\ stream \in [Session -> 0..MaxWrites]
  /\ past \subseteq Session /\ closed \subseteq Session /\ lowID \subseteq Session
  /\ logged \subseteq Session /\ released \subseteq Session /\ moved \subseteq Session
  /\ writing \subseteq Session /\ rows \subseteq Session /\ toList \subseteq Session
  /\ locked \subseteq Session /\ image \subseteq Session /\ restored \subseteq Session
  /\ imported \subseteq Session
  /\ pred \in PredLabel /\ succ \in SuccLabel
  /\ parking \in BOOLEAN /\ filed \in BOOLEAN /\ clean \in 0..2
  /\ DOMAIN exported \subseteq Session /\ \A s \in DOMAIN exported : exported[s] \in 0..MaxWrites
  /\ handovers \in 0..MaxHandovers
  /\ toSucc \in Seq(Message) /\ toPred \in Seq(Message)

\* The sets the provers read, and the type invariant.
LEMMA TypesOK == TypeOK <=> Types
BY Zenon DEF TypeOK, Types

\* What the goroutines of a session do.
SessionStep(s) ==
  \/ LoopStep(s) \/ Accept(s) \/ ReadBytes(s) \/ ReadFails(s) \/ BeginWrite(s) \/ EndWrite(s)

\* Where the read loop of a session can go.
Moves(s, l) ==
  \/ l = loop[s]
  \/ loop[s] = "none" /\ l = "fresh" /\ pred \in Early
  \/ loop[s] = "top" /\ l = IF parking THEN "parked" ELSE "arming"
  \/ loop[s] = "arming" /\ l = "reading"
  \/ loop[s] = "reading" /\ (l \in {"login", "busy", "gone"} \/ (l = "parked" /\ parking))
  \/ loop[s] \in {"fresh", "busy", "leaving"} /\ l = "top"
  \/ loop[s] = "login" /\ l = "gotID"
  \/ loop[s] = "gotID" /\ l = "top"
  \/ loop[s] = "parked" /\ l = "gone" /\ pred = "done"

\* A session's goroutines leave the handover and the successor alone.
LEMMA SessionFrame ==
  ASSUME NEW s \in Session, SessionStep(s)
  PROVE  UNCHANGED <<store, moved, handover, successor, lanes>>
BY DEF SessionStep, LoopStep, Accept, Track, CheckParking, SetDeadline, ReadInterrupted, ReadBytes,
       HandlerReturns, LoginTakesID, LoginConnects, ReadFails, Unpark, LeaveHandedOff, BeginWrite,
       EndWrite, sessions, writers

\* Where a session's read loop goes, and what becomes of its deadline.
LEMMA SessionLoop ==
  ASSUME Types, NEW s \in Session, SessionStep(s)
  PROVE  \E l \in LoopLabel :
           /\ Moves(s, l) /\ loop' = [loop EXCEPT ![s] = l]
           /\ loop[s] = "leaving" => s \notin past' \/ l = "leaving"
           /\ past' \subseteq past
<1>1. CASE BeginWrite(s) \/ EndWrite(s)
  BY <1>1 DEF BeginWrite, EndWrite, Types, Moves, sessions
<1>2. CASE LoopStep(s) \/ Accept(s) \/ ReadBytes(s) \/ ReadFails(s)
  BY <1>2 DEF LoopStep, Accept, Track, CheckParking, SetDeadline, ReadInterrupted, ReadBytes,
       HandlerReturns, LoginTakesID, LoginConnects, ReadFails, Unpark, LeaveHandedOff,
       Goto, At, Gate, Early, Types, Moves, LoopLabel
<1> QED BY <1>1, <1>2 DEF SessionStep

\* releaseSession deletes the row of the session it is given, and no other.
LEMMA ReleaseOne ==
  ASSUME NEW s \in Session, Release({s})
  PROVE  rows' = rows \/ (s \notin released \union moved /\ rows' = rows \ {s})
<1>1. CASE s \in released \union moved \/ s \notin logged
  BY <1>1 DEF Release
<1>2. CASE s \notin released \union moved /\ s \in logged
  BY <1>2 DEF Release
<1> QED BY <1>1, <1>2

\* A response is begun without the lock, and ends as one more message of the stream.
LEMMA SessionSets ==
  ASSUME Types, NEW s \in Session, SessionStep(s)
  PROVE  /\ \/ UNCHANGED writing
            \/ writing' = writing \union {s} /\ s \notin locked /\ stream[s] < MaxWrites /\ UNCHANGED stream
            \/ writing' = writing \ {s} /\ s \in writing
         /\ UNCHANGED stream \/ (s \in writing /\ s \notin writing' /\ stream' = [stream EXCEPT ![s] = @ + 1])
         /\ closed \subseteq closed' /\ closed' \subseteq Session
         /\ \/ released' = released /\ rows \subseteq rows'
            \/ /\ released' = released \union {s} /\ s \in closed' /\ loop'[s] = "gone"
               /\ loop[s] = "reading" \/ (loop[s] = "parked" /\ pred = "done")
               /\ rows' = rows \/ (s \notin released \union moved /\ rows' = rows \ {s})
         /\ \/ logged' = logged /\ rows' \subseteq rows
            \/ logged' = logged \union {s} /\ rows' = rows \union {s} /\ loop[s] = "gotID"
         /\ lowID' \subseteq Session
<1>1. CASE BeginWrite(s) \/ EndWrite(s)
  BY <1>1 DEF BeginWrite, EndWrite, Types, sessions
<1>2. CASE ReadFails(s) \/ LeaveHandedOff(s)
  <2>1. /\ UNCHANGED <<writing, stream, logged>> /\ Release({s}) /\ loop' = [loop EXCEPT ![s] = "gone"]
        /\ loop[s] = "reading" \/ (loop[s] = "parked" /\ pred = "done")
    BY <1>2 DEF ReadFails, LeaveHandedOff, Goto, At, writers
  <2>2. rows' = rows \/ (s \notin released \union moved /\ rows' = rows \ {s})
    BY Zenon, <2>1, ReleaseOne
  <2>3. rows' \subseteq rows /\ lowID' \subseteq lowID
    BY <2>1 DEF Release
  <2>4. released' = released \union {s} /\ closed' = closed \union {s} /\ loop'[s] = "gone"
    BY <2>1 DEF Release, Types
  <2> QED BY <2>1, <2>2, <2>3, <2>4 DEF Types
<1>3. CASE LoopStep(s) \/ Accept(s) \/ ReadBytes(s)
  BY <1>2, <1>3 DEF LoopStep, Accept, Track, CheckParking, SetDeadline, ReadInterrupted, ReadBytes,
       HandlerReturns, LoginTakesID, LoginConnects, Unpark, At, Types, writers
<1> QED BY Zenon, <1>1, <1>2, <1>3 DEF SessionStep

\* What the handover goroutine and the successor leave alone of the sessions.
LEMMA PredFrame ==
  ASSUME PredStep \/ StartHandover \/ NotReady \/ Abort
  PROVE  UNCHANGED <<store, logged, writers>>
BY DEF PredStep, Quiesce, Pass, PassesEnd, List, Export, ExportStorage, ReadBack, Resume, Commit, HandOff,
       StartHandover, NotReady, Abort, sessions

\* The successor leaves the predecessor alone.
LEMMA SuccFrame ==
  ASSUME SuccStep \/ GiveUp
  PROVE  UNCHANGED <<store, sessions, writers, handover>>
BY DEF SuccStep, Ready, ReadBegin, Restore, Sweep, Start, GiveUp

-----------------------------------------------------------------------------
\* The types are kept.

\* The sessions' goroutines.
LEMMA SessionTypes ==
  ASSUME Types, Held, NEW s \in Session, SessionStep(s)
  PROVE  Types'
<1>1. UNCHANGED <<store, moved, handover, successor, lanes>>
  BY Zenon, SessionFrame
<1>2. loop' \in [Session -> LoopLabel] /\ past' \subseteq Session
  BY SessionLoop DEF Types
<1>3. /\ writing' \subseteq Session /\ closed' \subseteq Session /\ released' \subseteq Session
      /\ rows' \subseteq Session /\ logged' \subseteq Session /\ lowID' \subseteq Session
  <2>1. released' = released \/ released' = released \union {s}
    BY Zenon, SessionSets
  <2>2. writing' = writing \/ writing' = writing \union {s} \/ writing' = writing \ {s}
    BY Zenon, SessionSets
  <2>3. (logged' = logged /\ rows' \subseteq rows) \/ (logged' = logged \union {s} /\ rows' = rows \union {s})
    BY Zenon, SessionSets
  <2>4. closed' \subseteq Session /\ lowID' \subseteq Session
    BY Zenon, SessionSets
  <2> QED BY <2>1, <2>2, <2>3, <2>4 DEF Types
<1>4. stream' \in [Session -> 0..MaxWrites]
  <2>1. UNCHANGED stream \/ (s \in writing /\ stream' = [stream EXCEPT ![s] = @ + 1])
    BY Zenon, SessionSets
  <2>2. s \in writing => stream[s] + 1 \in 0..MaxWrites
    BY HandoverConstants DEF Types, Held
  <2> QED BY <2>1, <2>2 DEF Types
<1> QED BY <1>1, <1>2, <1>3, <1>4 DEF Types, handover, successor, lanes

\* releaseSession, for any sessions.
LEMMA ReleaseTypes ==
  ASSUME Types, NEW set \in SUBSET Session, Release(set)
  PROVE  /\ released' \subseteq Session /\ lowID' \subseteq Session /\ rows' \subseteq Session
         /\ closed' \subseteq Session
BY DEF Types, Release

\* The handover goroutine.
LEMMA PredTypes ==
  ASSUME Types, PredStep \/ StartHandover \/ NotReady \/ Abort
  PROVE  Types'
<1> USE DEF Types, sessions, writers, successor, lanes, PredLabel, SuccLabel, Message
<1>1. CASE Quiesce
  BY <1>1 DEF Quiesce
<1>2. CASE Pass
  BY <1>2 DEF Pass, Unparked, Live
<1>3. CASE PassesEnd
  BY <1>3 DEF PassesEnd, Live
<1>4. ASSUME NEW s \in Session, List(s) PROVE Types'
  <2>1. CASE At(s, "parked")
    BY <1>4, <2>1 DEF List
  <2>2. CASE ~At(s, "parked")
    BY <1>4, <2>2, ReleaseTypes DEF List
  <2> QED BY <2>1, <2>2
<1>5. CASE Export
  <2>1. PICK gone \in SUBSET locked : /\ exported' = [s \in locked \ gone |-> stream[s]]
                                      /\ Release(gone \union (Live \ locked))
    BY Zenon, <1>5 DEF Export
  <2>2. gone \union (Live \ locked) \subseteq Session
    BY DEF Live
  <2>3. toSucc' \in Seq(Message)
    BY <1>5 DEF Export
  <2> QED BY <1>5, <2>1, <2>2, <2>3, ReleaseTypes DEF Export
<1>6. CASE ExportStorage
  BY <1>6 DEF ExportStorage
<1>7. CASE ReadBack
  BY <1>7 DEF ReadBack
<1>8. CASE Resume
  <2>1. DOMAIN exported' = {}
    BY <1>8 DEF Resume, NoneExported
  <2>2. loop' \in [Session -> LoopLabel]
    BY <1>8 DEF Resume, LoopLabel
  <2>3. /\ UNCHANGED <<store, past, closed, lowID, logged, released, moved, writing, stream, rows, toList,
                       filed, handovers, succ, restored, imported, toSucc, toPred>>
        /\ pred' = "serving" /\ parking' = FALSE /\ locked' = {} /\ image' = {} /\ clean' = 0
    BY <1>8 DEF Resume
  <2>4. locked' \subseteq Session /\ image' \subseteq Session
    BY <2>3
  <2>5. pred' \in PredLabel /\ clean' \in 0..2
    BY <2>3
  <2>7. parking' \in BOOLEAN
    BY Zenon, <2>3
  <2>6. DOMAIN exported' \subseteq Session /\ \A s \in DOMAIN exported' : exported'[s] \in 0..MaxWrites
    BY <2>1
  <2> QED BY Zenon, <2>2, <2>3, <2>4, <2>5, <2>6, <2>7
<1>9. CASE Commit
  BY <1>9 DEF Commit
<1>10. CASE HandOff
  BY <1>10 DEF HandOff
<1>11. CASE StartHandover
  BY <1>11, HandoverConstants DEF StartHandover
<1>12. CASE NotReady
  BY <1>12 DEF NotReady
<1>13. CASE Abort
  BY <1>13 DEF Abort
<1> QED BY Zenon, <1>1, <1>2, <1>3, <1>4, <1>5, <1>6, <1>7, <1>8, <1>9, <1>10, <1>11, <1>12, <1>13 DEF PredStep

\* The successor.
LEMMA SuccTypes ==
  ASSUME Types, SuccStep \/ GiveUp
  PROVE  Types'
<1> USE DEF Types, sessions, writers, handover, SuccLabel, Message
<1>1. CASE Ready
  BY <1>1 DEF Ready
<1>4. CASE ReadBegin
  BY <1>4 DEF ReadBegin, Receives
<1>5. CASE Start \/ GiveUp
  BY <1>5 DEF Start, GiveUp, lanes
<1>2. CASE Restore
  <2>1. /\ rows' \subseteq Session /\ restored' \subseteq Session /\ imported' \subseteq Session
        /\ toSucc' \in Seq(Message) /\ toPred' \in Seq(Message)
    BY <1>2 DEF Restore, Receives
  <2> QED BY <1>2, <2>1 DEF Restore
<1>3. CASE Sweep
  BY <1>3 DEF Sweep, Receives
<1> QED BY Zenon, <1>1, <1>2, <1>3, <1>4, <1>5 DEF SuccStep

\* Every step is one of a session, of the handover goroutine or of the successor.
LEMMA Steps ==
  ASSUME [Next]_vars
  PROVE  \/ \E s \in Session : SessionStep(s)
         \/ PredStep \/ StartHandover \/ NotReady \/ Abort
         \/ SuccStep \/ GiveUp
         \/ UNCHANGED vars
BY Zenon DEF Next, SessionStep

\* Every step.
LEMMA TypeStep ==
  ASSUME Types, Held, [Next]_vars
  PROVE  Types'
<1>1. CASE UNCHANGED vars
  BY <1>1 DEF vars, Types, sessions, writers, handover, successor, lanes
<1> QED BY Zenon, <1>1, Steps, SessionTypes, PredTypes, SuccTypes

-----------------------------------------------------------------------------
\* The handover goroutine and the successor.

\* What is locked, exported and moved follows from where the handover is.
LEMMA ControlStep ==
  ASSUME Types, Control, [Next]_vars
  PROVE  Control'
<1> USE DEF Control, Early, Moving
<1>1. CASE UNCHANGED <<store, handover>>
  BY <1>1 DEF handover
<1>2. CASE Quiesce \/ Pass \/ PassesEnd \/ StartHandover \/ NotReady \/ Abort
  BY <1>2 DEF Quiesce, Pass, PassesEnd, StartHandover, NotReady, Abort
<1>3. ASSUME NEW s \in Session, List(s) PROVE Control'
  BY <1>3 DEF List
<1>4. CASE Export
  <2>1. pred = "listing" /\ toList = {} /\ pred' = "storage" /\ UNCHANGED <<store, parking, toList, filed>>
    BY Zenon, <1>4 DEF Export
  <2> QED BY <2>1
<1>9. CASE ExportStorage
  BY <1>9 DEF ExportStorage
<1>7. CASE Resume
  BY <1>7 DEF Resume, NoneExported
<1>8. CASE ReadBack \/ Commit \/ HandOff
  BY <1>8 DEF ReadBack, Commit, HandOff
<1>5. CASE SuccStep \/ GiveUp
  BY Zenon, <1>1, <1>5, SuccFrame
<1>6. CASE UNCHANGED vars
  BY Zenon, <1>1, <1>6 DEF vars
<1> QED BY Zenon, <1>1, <1>2, <1>3, <1>4, <1>5, <1>6, <1>7, <1>8, <1>9, Steps, SessionFrame DEF PredStep

\* What a message sent and a message read do to the lane.
LEMMA Sent ==
  ASSUME NEW m, NEW n, NEW q \in Seq(Message), m \in Message, n \in Message,
         \E i \in 1..Len(Append(q, n)) : Append(q, n)[i] = m
  PROVE  m = n \/ \E i \in 1..Len(q) : q[i] = m
OBVIOUS

\* A message left in a lane was in it before the one in front was read.
LEMMA Read ==
  ASSUME NEW m, NEW q \in Seq(Message), q # <<>>,
         \E i \in 1..Len(Tail(q)) : Tail(q)[i] = m
  PROVE  \E i \in 1..Len(q) : q[i] = m
OBVIOUS

\* A message received was in the lane, and none enters it by that.
LEMMA Received ==
  ASSUME Types, NEW m \in Message, Receives(m)
  PROVE  /\ InLane(m) /\ toSucc # <<>>
         /\ \A n \in Message : InLane(n)' => InLane(n)
<1>1. toSucc # <<>> /\ toSucc[1] = m /\ 1 \in 1..Len(toSucc) /\ toSucc' = Tail(toSucc)
  BY DEF Receives, Types
<1> QED BY Zenon, <1>1, Read DEF InLane, Types

\* What is in the lanes follows from where both processes are.
LEMMA LanesStep ==
  ASSUME Types, Control, Lanes, [Next]_vars
  PROVE  Lanes'
<1> USE DEF Lanes, Moving, Early
<1>1. CASE UNCHANGED <<handover, successor, lanes>>
  BY <1>1 DEF handover, successor, lanes, InLane
<1>2. CASE StartHandover \/ NotReady \/ Abort
  BY <1>2 DEF StartHandover, NotReady, Abort, lanes, InLane
<1>3. CASE Quiesce \/ Pass \/ PassesEnd
  BY <1>3 DEF Quiesce, Pass, PassesEnd, successor, lanes, InLane
<1>4. ASSUME NEW s \in Session, List(s) PROVE Lanes'
  BY <1>4 DEF List, successor, lanes
<1>5. CASE Export
  <2>1. pred = "listing" /\ pred' = "storage" /\ toSucc' = Append(toSucc, "begin") /\ UNCHANGED successor
    BY Zenon, <1>5 DEF Export
  <2>2. ~InLane("sessions")' /\ ~InLane("commit")'
    BY <2>1 DEF InLane
  <2> QED BY <2>1, <2>2 DEF successor
<1>6. CASE ExportStorage
  <2>1. pred = "storage" /\ pred' = "awaitImported" /\ toSucc' = Append(toSucc, "sessions") /\ UNCHANGED <<exported, successor>>
    BY <1>6 DEF ExportStorage
  <2>2. ~InLane("commit")'
    BY <2>1 DEF InLane, Types, Message
  <2> QED BY <2>1, <2>2 DEF successor
<1>7. CASE ReadBack \/ Resume
  BY <1>7 DEF ReadBack, Resume, successor
<1>8. CASE Commit \/ HandOff
  BY <1>8 DEF Commit, HandOff, successor
<1>9. CASE Ready \/ Start \/ GiveUp
  BY <1>9 DEF Ready, Start, GiveUp, handover, lanes, InLane
<1>10. CASE ReadBegin
  <2>1. /\ toSucc # <<>> /\ \A n \in Message : InLane(n)' => InLane(n)
        /\ succ = "awaitBegin" /\ succ' = "awaitSessions" /\ UNCHANGED <<pred, exported, restored>>
    BY <1>10, Received DEF ReadBegin, Message, handover
  <2> QED BY <2>1 DEF Message
<1>11. CASE Restore
  <2>1. /\ InLane("sessions") /\ toSucc # <<>> /\ \A n \in Message : InLane(n)' => InLane(n)
        /\ succ = "awaitSessions" /\ succ' = "awaitCommit" /\ UNCHANGED <<pred, exported>>
        /\ restored' \subseteq DOMAIN exported
    BY <1>11, Received DEF Restore, Message, handover
  <2> QED BY <2>1 DEF Message
<1>12. CASE Sweep
  <2>1. /\ InLane("commit") /\ toSucc # <<>> /\ \A n \in Message : InLane(n)' => InLane(n)
        /\ succ = "awaitCommit" /\ succ' = "starting" /\ UNCHANGED <<pred, exported, restored>>
    BY <1>12, Received DEF Sweep, Message, handover
  <2> QED BY <2>1 DEF Message
<1>13. CASE UNCHANGED vars
  BY Zenon, <1>1, <1>13 DEF vars
<1> QED BY Zenon, <1>1, <1>2, <1>3, <1>4, <1>5, <1>6, <1>7, <1>8, <1>9, <1>10, <1>11, <1>12, <1>13,
           Steps, SessionFrame DEF PredStep, SuccStep

-----------------------------------------------------------------------------
\* The locks.

\* A session's goroutines keep clear of a write lock the handover holds.
LEMMA HeldSession ==
  ASSUME Types, Control, Held, NEW s \in Session, SessionStep(s)
  PROVE  Held'
<1>1. UNCHANGED <<pred, locked, exported, moved>>
  BY SessionFrame DEF handover
<1>2. PICK l \in LoopLabel : Moves(s, l) /\ loop' = [loop EXCEPT ![s] = l]
  BY Zenon, SessionLoop
<1>3. \A q \in locked : loop'[q] = "parked" \/ (pred = "done" /\ loop'[q] = "gone")
  BY <1>2 DEF Moves, Held, Types
<1>4. locked \cap writing' = {} /\ \A q \in writing' : stream'[q] < MaxWrites
  BY SessionSets DEF Held, Types
<1>5. /\ released' \subseteq closed'
      /\ \A q \in released' \ released : q = s /\ (loop[s] = "reading" \/ pred = "done")
  BY SessionSets DEF Held
<1>6. \A q \in DOMAIN exported : exported[q] = stream'[q] /\ (q \in released' => pred = "done")
  <2>1. \A q \in DOMAIN exported : q \notin writing /\ (loop[q] = "reading" => FALSE)
    BY DEF Held
  <2>2. \A q \in DOMAIN exported : stream'[q] = stream[q]
    BY <2>1, SessionSets DEF Types
  <2> QED BY <1>5, <2>1, <2>2 DEF Held
<1> QED BY <1>1, <1>3, <1>4, <1>5, <1>6 DEF Held

\* The handover takes a session's write lock with nothing half written, and keeps it.
LEMMA HeldPred ==
  ASSUME Types, Control, Held, PredStep \/ StartHandover \/ NotReady \/ Abort
  PROVE  Held'
<1> USE DEF Held, sessions, writers
<1>1. CASE Quiesce \/ Pass \/ PassesEnd \/ StartHandover \/ NotReady \/ Abort
  BY <1>1 DEF Control, Early, Moving, Quiesce, Pass, PassesEnd, StartHandover, NotReady, Abort
<1>2. ASSUME NEW s \in Session, List(s) PROVE Held'
  <2>1. /\ pred = "listing" /\ DOMAIN exported = {}
        /\ UNCHANGED <<loop, writing, stream, pred, moved, exported>>
    BY <1>2 DEF List, Control, Moving
  <2>2. CASE At(s, "parked")
    BY <1>2, <2>1, <2>2 DEF List, At
  <2>3. CASE ~At(s, "parked")
    BY <1>2, <2>1, <2>3 DEF List, Release
  <2> QED BY <2>2, <2>3
<1>3. CASE Export
  <2>1. PICK gone \in SUBSET locked : /\ locked \cap closed \subseteq gone
                                      /\ exported' = [s \in locked \ gone |-> stream[s]]
                                      /\ Release(gone \union (Live \ locked))
    BY Zenon, <1>3 DEF Export
  <2>2. pred = "listing" /\ pred' = "storage" /\ UNCHANGED <<loop, writing, stream, locked, moved>>
    BY <1>3 DEF Export
  <2>3. released' = released \union gone \union (Live \ locked) /\ released' \subseteq closed'
    BY <2>1 DEF Release
  <2>4. DOMAIN exported' = locked \ gone /\ \A s \in locked \ gone : exported'[s] = stream[s] /\ s \notin released'
    BY <2>1, <2>3
  <2> QED BY <2>2, <2>3, <2>4
<1>4. CASE ExportStorage \/ ReadBack
  BY <1>4 DEF ExportStorage, ReadBack
<1>5. CASE Resume
  <2>1. DOMAIN exported' = {} /\ locked' = {}
    BY <1>5 DEF Resume, NoneExported
  <2> QED BY <1>5, <2>1 DEF Resume
<1>6. CASE Commit \/ HandOff
  BY <1>6 DEF Commit, HandOff
<1> QED BY Zenon, <1>1, <1>2, <1>3, <1>4, <1>5, <1>6 DEF PredStep

\* Every step keeps what the write locks are held for.
LEMMA HeldStep ==
  ASSUME Types, Control, Held, [Next]_vars
  PROVE  Held'
<1>1. CASE UNCHANGED <<sessions, writers, handover>>
  BY Zenon, <1>1 DEF Held, sessions, writers, handover
<1>2. CASE SuccStep \/ GiveUp
  BY Zenon, <1>1, <1>2, SuccFrame
<1>3. CASE UNCHANGED vars
  BY Zenon, <1>1, <1>3 DEF vars
<1> QED BY Zenon, <1>2, <1>3, Steps, HeldSession, HeldPred

-----------------------------------------------------------------------------
\* The deadlines.

\* A read loop that goes on has its deadline set again first.
LEMMA DeadlinesSession ==
  ASSUME Types, Deadlines, NEW s \in Session, SessionStep(s)
  PROVE  Deadlines'
<1>1. pred' = pred
  BY SessionFrame DEF handover
<1>2. PICK l \in LoopLabel : /\ Moves(s, l) /\ loop' = [loop EXCEPT ![s] = l]
                             /\ loop[s] = "leaving" => s \notin past' \/ l = "leaving"
                             /\ past' \subseteq past
  BY Zenon, SessionLoop
<1>3. closed \subseteq closed'
  BY Zenon, SessionSets
<1>4. \A q \in past' : q # s => loop'[q] = loop[q]
  BY <1>2 DEF Types
<1>5. s \in past' => loop'[s] = l
  BY <1>2 DEF Types
<1>6. s \in past' => /\ l \notin {"none", "fresh"}
                     /\ s \notin closed' => /\ pred \in Moving => l \in {"parked", "gone"}
                                            /\ pred \in Early => l \in {"leaving", "gone"}
  BY <1>2, <1>3 DEF Deadlines, Moves, Early, Moving
<1> QED BY <1>1, <1>2, <1>3, <1>4, <1>5, <1>6 DEF Deadlines

\* The handover moves deadlines into the past only while it parks.
LEMMA DeadlinesPred ==
  ASSUME Types, Control, Held, Deadlines, PredStep \/ StartHandover \/ NotReady \/ Abort
  PROVE  Deadlines'
<1> USE DEF Deadlines, Early, Moving, sessions
<1>1. CASE Quiesce \/ PassesEnd \/ StartHandover \/ NotReady \/ Abort
  BY <1>1 DEF Quiesce, PassesEnd, StartHandover, NotReady, Abort
<1>2. CASE Pass
  BY <1>2 DEF Pass, Unparked, Live
<1>3. ASSUME NEW s \in Session, List(s) PROVE Deadlines'
  BY <1>3 DEF List, Release
<1>4. CASE Export
  <2>1. PICK gone \in SUBSET locked : closed' = closed \union (gone \union (Live \ locked))
    BY Zenon, <1>4 DEF Export, Release
  <2>2. pred' = "storage" /\ UNCHANGED <<loop, past>> /\ \A s \in locked : loop[s] = "parked"
    BY <1>4 DEF Export, Held
  <2> QED BY <2>1, <2>2 DEF Live, Types, LoopLabel
<1>5. CASE ExportStorage \/ ReadBack \/ Commit \/ HandOff
  BY <1>5 DEF ExportStorage, ReadBack, Commit, HandOff
<1>6. CASE Resume
  BY <1>6 DEF Resume, At, Types
<1> QED BY Zenon, <1>1, <1>2, <1>3, <1>4, <1>5, <1>6 DEF PredStep

\* Every step keeps what a past deadline says of its session.
LEMMA DeadlinesStep ==
  ASSUME Types, Control, Held, Deadlines, [Next]_vars
  PROVE  Deadlines'
<1>1. CASE UNCHANGED <<sessions, handover>>
  BY Zenon, <1>1 DEF Deadlines, sessions, handover
<1>2. CASE SuccStep \/ GiveUp
  BY Zenon, <1>1, <1>2, SuccFrame
<1>3. CASE UNCHANGED vars
  BY Zenon, <1>1, <1>3 DEF vars
<1> QED BY Zenon, <1>2, <1>3, Steps, DeadlinesSession, DeadlinesPred

-----------------------------------------------------------------------------
\* The invariant at the start.
LEMMA HandoverInvInit ==
  ASSUME Init
  PROVE  HandoverInv
<1>1. Types
  <2>1. parking \in BOOLEAN /\ filed \in BOOLEAN
    BY Zenon DEF Init
  <2>2. loop \in [Session -> LoopLabel] /\ stream \in [Session -> 0..MaxWrites]
    BY HandoverConstants DEF Init, LoopLabel
  <2>3. DOMAIN exported = {} /\ toSucc \in Seq(Message) /\ toPred \in Seq(Message)
    BY DEF Init, NoneExported
  <2> QED BY <2>1, <2>2, <2>3, HandoverConstants DEF Init, Types, PredLabel, SuccLabel
<1>2. Control /\ Lanes
  BY DEF Init, Control, Lanes, Early, Moving, NoneExported
<1>3. Held /\ Deadlines
  BY DEF Init, Held, Deadlines, NoneExported
<1> QED BY Zenon, <1>1, <1>2, <1>3, TypesOK DEF HandoverInv

\* The invariant is inductive.
LEMMA HandoverInvStep ==
  ASSUME HandoverInv, [Next]_vars
  PROVE  HandoverInv'
<1>1. Types /\ Control /\ Lanes /\ Held /\ Deadlines
  BY Zenon, TypesOK DEF HandoverInv
<1>2. TypeOK'
  <2>1. Types'
    BY Zenon, <1>1, TypeStep
  <2> QED BY Zenon, <2>1 DEF Types, TypeOK
<1> QED BY Zenon, <1>1, <1>2, ControlStep, LanesStep, HeldStep, DeadlinesStep DEF HandoverInv

\* Whatever the successor does and whenever either side gives up, a session is
\* served by one process: by the time the successor starts one, the predecessor
\* has committed, holds its loop parked or has let it go, has no writer inside
\* its lock and has not released it as a disconnect.
THEOREM OneServerCorrect == Spec => []OneServer
<1>1. HandoverInv => OneServer
  <2> SUFFICES ASSUME HandoverInv PROVE OneServer
    OBVIOUS
  <2>1. Types /\ TypeOK /\ Lanes /\ Held
    BY Zenon, TypesOK DEF HandoverInv
  <2>2. ASSUME succ \in {"starting", "serving"}
        PROVE  /\ pred \in {"release", "done"} /\ restored \subseteq DOMAIN exported
    BY <2>1, <2>2 DEF Lanes, Types, PredLabel
  <2> QED BY <2>1, <2>2 DEF OneServer, Held
<1> QED BY <1>1, HandoverInvInit, HandoverInvStep, PTL DEF Spec

\* The position of the send keystream that goes with a session is the one the
\* last write left, for as long as the successor may use it.
THEOREM StreamExactCorrect == Spec => []StreamExact
<1>1. HandoverInv => StreamExact
  BY DEF HandoverInv, Held, StreamExact
<1> QED BY <1>1, HandoverInvInit, HandoverInvStep, PTL DEF Spec

\* A handover that failed leaves no session about to time out on its deadline.
THEOREM NoStaleDeadlineCorrect == Spec => []NoStaleDeadline
<1>1. HandoverInv => NoStaleDeadline
  BY DEF HandoverInv, Control, Deadlines, NoStaleDeadline, At
<1> QED BY <1>1, HandoverInvInit, HandoverInvStep, PTL DEF Spec

-----------------------------------------------------------------------------
\* The rows.

\* A session's goroutines, which park instead of reading on.
LEMMA SettledSession ==
  ASSUME Types, Control, Settled, NEW s \in Session, SessionStep(s)
  PROVE  Settled'
<1>1. pred' = pred /\ clean' = clean
  BY SessionFrame DEF handover
<1>2. PICK l \in LoopLabel : Moves(s, l) /\ loop' = [loop EXCEPT ![s] = l]
  BY Zenon, SessionLoop
<1>3. logged' = logged \/ (logged' = logged \union {s} /\ loop[s] = "gotID")
  BY Zenon, SessionSets
<1>4. \A q \in Session : loop'[q] = IF q = s THEN l ELSE loop[q]
  BY <1>2 DEF Types
<1>5. pred \in Moving \union {"listing", "passing"} => parking /\ pred \notin Early
  BY DEF Control, Early, Moving
<1>6. /\ pred \in Moving \union {"listing"} => l \in {"none", "fresh", "top", "busy", "parked", "gone"}
      /\ pred = "passing" /\ clean > 0 => l \in {"none", "fresh", "top", "parked", "gone"}
      /\ l \in {"none", "fresh"} => s \notin logged'
  BY <1>2, <1>3, <1>5 DEF Moves, Settled
<1>7. \A q \in Session : q # s /\ loop[q] \in {"none", "fresh"} => q \notin logged'
  BY <1>3 DEF Settled
<1> QED BY <1>1, <1>4, <1>6, <1>7 DEF Settled

\* The handover, whose passes go on while a login is under way.
LEMMA SettledPred ==
  ASSUME ~SlowLogins, Types, Settled, PredStep \/ StartHandover \/ NotReady \/ Abort
  PROVE  Settled'
<1> USE DEF Settled, Moving
<1>0. logged' = logged
  BY Zenon, PredFrame
<1>1. CASE Quiesce \/ StartHandover \/ NotReady \/ Abort
  BY <1>0, <1>1 DEF Quiesce, StartHandover, NotReady, Abort, sessions
<1>2. CASE Pass
  <2>1. UNCHANGED <<loop, pred>> /\ pred = "passing" /\ (clean' > 0 => Unparked = {})
    BY <1>2 DEF Pass
  <2>2. \A s \in Session : clean' > 0 => loop[s] \in {"none", "fresh", "parked", "gone"}
    BY <2>1 DEF Unparked, Live, At, Types, LoopLabel
  <2> QED BY <1>0, <2>1, <2>2
<1>3. CASE PassesEnd
  <2>1. pred' = "listing" /\ UNCHANGED loop /\ pred = "passing" /\ (clean = 2 \/ \A s \in Unparked : At(s, "busy"))
    BY <1>3 DEF PassesEnd, sessions
  <2>2. \A s \in Session : loop[s] \in {"none", "fresh", "top", "busy", "parked", "gone"}
    BY <2>1 DEF Unparked, Live, At, Types, LoopLabel
  <2> QED BY <1>0, <2>1, <2>2
<1>4. CASE (\E s \in Session : List(s)) \/ Export \/ ExportStorage
  BY Zenon, <1>0, <1>4 DEF List, Export, ExportStorage, sessions
<1>5. CASE ReadBack \/ Commit \/ HandOff
  BY <1>0, <1>5 DEF ReadBack, Commit, HandOff, sessions
<1>6. CASE Resume
  BY <1>0, <1>6 DEF Resume, At
<1> QED BY Zenon, <1>1, <1>2, <1>3, <1>4, <1>5, <1>6 DEF PredStep

\* Every step.
LEMMA SettledStep ==
  ASSUME ~SlowLogins, Types, Control, Settled, [Next]_vars
  PROVE  Settled'
<1>1. CASE UNCHANGED <<sessions, handover>>
  BY Zenon, <1>1 DEF Settled, sessions, handover
<1>2. CASE SuccStep \/ GiveUp
  BY Zenon, <1>1, <1>2, SuccFrame
<1>3. CASE UNCHANGED vars
  BY Zenon, <1>1, <1>3 DEF vars
<1> QED BY Zenon, <1>2, <1>3, Steps, SettledSession, SettledPred

\* A step of a session adds nobody to those served, but a login that ends.
LEMMA ServedSession ==
  ASSUME Types, Control, Held, Settled, NEW s \in Session, SessionStep(s)
  PROVE  /\ \/ logged' = logged /\ Served' \subseteq Served
            \/ /\ logged' = logged \union {s} /\ rows' = rows \union {s}
               /\ Served' \subseteq Served \union {s} /\ pred \notin Moving /\ ~filed
         /\ \/ rows \subseteq rows'
            \/ rows' = rows \ {s} /\ s \notin Served' /\ s \notin DOMAIN exported
<1>1. UNCHANGED <<pred, exported, moved, filed>>
  BY SessionFrame DEF handover
<1>2. PICK l \in LoopLabel : Moves(s, l) /\ loop' = [loop EXCEPT ![s] = l]
  BY Zenon, SessionLoop
<1>3. \A q \in Session : loop'[q] = IF q = s THEN l ELSE loop[q]
  BY <1>2 DEF Types
<1>4. \/ logged' = logged /\ rows' \subseteq rows
      \/ logged' = logged \union {s} /\ rows' = rows \union {s} /\ loop[s] = "gotID"
  BY Zenon, SessionSets
<1>5. released \subseteq released'
  BY SessionSets
<1>6. s \in logged /\ l \notin {"none", "fresh", "gone"} => loop[s] \notin {"none", "fresh", "gone"}
  BY <1>2 DEF Moves, Settled
<1>7. \A q \in Served' : q \in Served \/ (q = s /\ s \notin logged)
  BY <1>3, <1>4, <1>5, <1>6 DEF Served, Live
<1>8. loop[s] = "gotID" => pred \notin Moving /\ ~filed
  BY DEF Settled, Control
<1>9. \/ rows \subseteq rows'
      \/ rows' = rows \ {s} /\ s \notin Served' /\ s \notin DOMAIN exported
  <2>1. \/ rows \subseteq rows'
        \/ /\ s \in released' /\ s \notin moved /\ rows' = rows \ {s}
           /\ loop[s] = "reading" \/ (loop[s] = "parked" /\ pred = "done")
    BY SessionSets
  <2> QED BY <2>1 DEF Served, Held
<1>10. Served' \subseteq logged'
  BY DEF Served
<1> QED BY <1>4, <1>7, <1>8, <1>9, <1>10

\* A session's login and release keep rows and connections in step.
LEMMA IndexedSession ==
  ASSUME Types, Control, Held, Settled, Indexed, NEW s \in Session, SessionStep(s)
  PROVE  Indexed'
<1>1. UNCHANGED <<pred, exported, image, filed>>
  BY SessionFrame DEF handover
<1>2. pred \notin Moving => DOMAIN exported = {}
  BY DEF Control
<1>3. rows' \subseteq logged'
  BY SessionSets DEF Indexed
<1>4. \/ logged' = logged /\ Served' \subseteq Served
      \/ /\ logged' = logged \union {s} /\ rows' = rows \union {s}
         /\ Served' \subseteq Served \union {s} /\ pred \notin Moving /\ ~filed
  BY Zenon, ServedSession
<1>5. \/ rows \subseteq rows'
      \/ rows' = rows \ {s} /\ s \notin Served' /\ s \notin DOMAIN exported
  BY Zenon, ServedSession
<1>6. Served' \union (logged' \cap DOMAIN exported) \subseteq IF filed THEN image ELSE rows'
  BY <1>2, <1>4, <1>5 DEF Indexed, Index
<1> QED BY <1>1, <1>2, <1>3, <1>4, <1>6 DEF Indexed, Index, Moving

\* So does the handover, which exports what is still served.
LEMMA IndexedPred ==
  ASSUME Types, Control, Held, Indexed, PredStep \/ StartHandover \/ NotReady \/ Abort
  PROVE  Indexed'
<1>0. logged' = logged
  BY Zenon, PredFrame
<1>1. ASSUME UNCHANGED <<loop, released, rows, image, filed, exported>>,
             pred' \in Moving => pred \in Moving,
             pred' \in {"awaitImported", "release", "done"} => pred \in {"awaitImported", "release", "done"}
      PROVE  Indexed'
  BY <1>0, <1>1 DEF Indexed, Index, Served, Live
<1>2. CASE Quiesce \/ Pass \/ PassesEnd \/ StartHandover \/ NotReady
  BY <1>1, <1>2 DEF Quiesce, Pass, PassesEnd, StartHandover, NotReady, sessions, Moving
<1>3. CASE Abort \/ Commit \/ HandOff
  BY <1>1, <1>3 DEF Abort, Commit, HandOff, sessions, Moving
<1>4. ASSUME NEW s \in Session, List(s) PROVE Indexed'
  <2>1. UNCHANGED <<loop, image, filed, exported, pred>> /\ pred = "listing" /\ DOMAIN exported = {} /\ ~filed
    BY <1>4 DEF List, Control, Moving
  <2>2. CASE At(s, "parked")
    BY <1>1, <1>4, <2>1, <2>2 DEF List
  <2>3. CASE ~At(s, "parked")
    <3>1. Release({s})
      BY <1>4, <2>3 DEF List
    <3>2. released' = released \union {s} /\ (rows' = rows \/ rows' = rows \ {s})
      BY <3>1, ReleaseOne DEF Release
    <3>3. Served' \subseteq Served \ {s}
      BY <1>0, <2>1, <3>2 DEF Served, Live
    <3> QED BY <1>0, <2>1, <3>2, <3>3 DEF Indexed, Index, Moving
  <2> QED BY <2>2, <2>3
<1>5. CASE Export
  <2>1. PICK gone \in SUBSET locked : /\ locked \cap closed \subseteq gone
                                      /\ exported' = [s \in locked \ gone |-> stream[s]]
                                      /\ Release(gone \union (Live \ locked))
    BY Zenon, <1>5 DEF Export
  <2>2. pred = "listing" /\ pred' = "storage" /\ UNCHANGED <<loop, image, filed>> /\ ~filed
    BY <1>5 DEF Export, Control, Moving
  <2>3. /\ DOMAIN exported' = locked \ gone /\ released' = released \union (gone \union (Live \ locked))
        /\ rows' \subseteq rows /\ \A q \in rows : q \notin gone \union (Live \ locked) => q \in rows'
    BY <2>1 DEF Release
  <2>4. Served' \subseteq Served /\ Served' \subseteq locked \ gone
    BY <1>0, <2>2, <2>3 DEF Served, Live
  <2>5. logged \cap (locked \ gone) \subseteq Served
    BY <2>1, <2>2 DEF Served, Live, Held, Types
  <2> QED BY <1>0, <2>2, <2>3, <2>4, <2>5 DEF Indexed, Index, Moving
<1>6. CASE ExportStorage
  <2>1. /\ pred = "storage" /\ pred' = "awaitImported" /\ UNCHANGED <<loop, released, exported>> /\ ~filed
        /\ image' = rows /\ rows' = IF store = "file" THEN {} ELSE rows
        /\ filed' <=> store = "file"
    BY <1>6 DEF ExportStorage, sessions, Control
  <2>2. Served' = Served
    BY <1>0, <2>1 DEF Served, Live
  <2> QED BY <1>0, <2>1, <2>2 DEF Indexed, Index, Moving
<1>7. CASE ReadBack
  <2>1. /\ pred = "readBack" /\ pred' = "resume" /\ UNCHANGED <<loop, released, exported, image>>
        /\ rows' = Index /\ ~filed'
    BY <1>7 DEF ReadBack, sessions, Index
  <2>2. Served' = Served
    BY <1>0, <2>1 DEF Served, Live
  <2> QED BY <1>0, <2>1, <2>2 DEF Indexed, Index, Moving
<1>8. CASE Resume
  <2>1. /\ pred' = "serving" /\ UNCHANGED <<released, rows, filed>> /\ ~filed /\ image' = {}
        /\ DOMAIN exported' = {}
    BY <1>8 DEF Resume, Control, NoneExported
  <2>2. Served' \subseteq Served
    BY <1>0, <1>8 DEF Resume, Served, Live, At
  <2> QED BY <1>0, <2>1, <2>2 DEF Indexed, Index, Moving
<1> QED BY Zenon, <1>2, <1>3, <1>4, <1>5, <1>6, <1>7, <1>8 DEF PredStep

\* So does the successor, which imports what was exported.
LEMMA IndexedSucc ==
  ASSUME "database" \notin SocketsFail, Types, Control, Lanes, Indexed, Imported, SuccStep \/ GiveUp
  PROVE  Indexed'
<1>0. UNCHANGED <<store, sessions, handover>>
  BY Zenon, SuccFrame
<1>1. Served' = Served /\ UNCHANGED <<logged, pred, exported, image, filed>>
  BY <1>0 DEF sessions, handover, Served, Live
<1>2. CASE rows' = rows
  BY Zenon, <1>1, <1>2 DEF Indexed, Index
<1>3. CASE Ready \/ ReadBegin \/ Start \/ GiveUp
  BY <1>2, <1>3 DEF Ready, ReadBegin, Start, GiveUp
<1>4. CASE Restore
  BY <1>2, <1>4 DEF Restore
<1>5. CASE Sweep
  <2>1. store # "database" => rows' = rows
    BY <1>5 DEF Sweep
  <2>2. CASE store = "database"
    <3>1. succ = "awaitCommit" /\ rows' = rows \cap DOMAIN exported /\ ~filed
      BY <1>5, <2>2 DEF Sweep, Imported, Control
    <3>2. pred \in Moving
      <4>1. InLane("commit") /\ toSucc # <<>>
        BY <1>5, Received DEF Sweep, Message
      <4> QED BY <3>1, <4>1 DEF Lanes, Types, PredLabel, Moving
    <3> QED BY <1>1, <3>1, <3>2 DEF Indexed, Index
  <2> QED BY <1>2, <2>1, <2>2
<1> QED BY Zenon, <1>3, <1>4, <1>5 DEF SuccStep

\* Every step.
LEMMA IndexedStep ==
  ASSUME "database" \notin SocketsFail, Types, Control, Lanes, Held, Settled, Indexed, Imported, [Next]_vars
  PROVE  Indexed'
<1>1. CASE UNCHANGED vars
  BY Zenon, <1>1 DEF vars, sessions, handover, Indexed, Index, Served, Live
<1> QED BY Zenon, <1>1, Steps, IndexedSession, IndexedPred, IndexedSucc

\* Nobody logs in or leaves at the predecessor once the successor starts.
LEMMA ImportedSession ==
  ASSUME Types, Control, Lanes, Held, Settled, Imported, NEW s \in Session, SessionStep(s)
  PROVE  Imported'
<1>1. UNCHANGED <<store, exported, image, succ, restored, imported>>
  BY SessionFrame DEF handover, successor
<1>2. ASSUME succ \in {"starting", "serving"}
      PROVE  logged' = logged /\ (store = "database" => rows' = rows)
  <2>1. pred \in Moving /\ restored \subseteq DOMAIN exported
    BY <1>2 DEF Lanes, Types, PredLabel, Moving
  <2>2. logged' = logged
    BY Zenon, <2>1, ServedSession DEF Types
  <2>3. rows' \subseteq rows
    BY SessionSets, <2>1 DEF Settled
  <2>4. rows \subseteq rows' \/ (rows' = rows \ {s} /\ s \notin DOMAIN exported)
    BY Zenon, ServedSession
  <2> QED BY <1>2, <2>1, <2>2, <2>3, <2>4 DEF Imported
<1> QED BY <1>1, <1>2 DEF Imported

\* Nor does the handover change what it sent.
LEMMA ImportedPred ==
  ASSUME Types, Lanes, Imported, PredStep \/ StartHandover \/ NotReady \/ Abort
  PROVE  Imported'
<1>0. UNCHANGED <<store, logged>>
  BY Zenon, PredFrame
<1>1. CASE StartHandover \/ NotReady \/ Abort
  BY <1>1 DEF StartHandover, NotReady, Abort, Imported
<1>2. CASE Commit \/ HandOff
  BY <1>0, <1>2 DEF Commit, HandOff, Imported, successor
<1>3. ASSUME PredStep, ~Commit, ~HandOff
      PROVE  UNCHANGED successor /\ pred \notin {"awaitImported", "release", "done"}
  BY <1>3 DEF PredStep, Quiesce, Pass, PassesEnd, List, Export, ExportStorage, ReadBack, Resume
<1>4. CASE PredStep /\ ~Commit /\ ~HandOff
  <2>1. UNCHANGED successor /\ succ \notin {"awaitCommit", "starting", "serving"}
    BY <1>3, <1>4 DEF Lanes, Types, PredLabel
  <2> QED BY <2>1 DEF Imported, successor
<1> QED BY Zenon, <1>1, <1>2, <1>4

\* What the successor restores is what was exported.
LEMMA ImportedSucc ==
  ASSUME Types, Control, Lanes, Indexed, Imported, SuccStep \/ GiveUp
  PROVE  Imported'
<1>0. UNCHANGED <<store, logged, pred, exported, image, filed>>
  BY SuccFrame DEF sessions, handover
<1>1. CASE Ready \/ ReadBegin \/ GiveUp
  BY <1>1 DEF Ready, ReadBegin, GiveUp, Imported
<1>2. CASE Start
  BY <1>0, <1>2 DEF Start, Imported
<1>3. CASE Restore
  <2>1. PICK failed \in SUBSET DOMAIN exported :
          /\ failed = {} \/ store \in SocketsFail
          /\ restored' = DOMAIN exported \ failed
          /\ imported' = IF store = "database" THEN {} ELSE image \ failed
    BY Zenon, <1>3 DEF Restore
  <2>2. succ' = "awaitCommit"
    BY <1>3 DEF Restore
  <2>3. DOMAIN exported \ restored' = failed
    BY <2>1
  <2> QED BY <1>0, <2>1, <2>2, <2>3 DEF Imported
<1>4. CASE Sweep
  <2>1. /\ succ = "awaitCommit" /\ succ' = "starting" /\ restored' = restored
        /\ rows' = IF store = "database" THEN rows \cap restored ELSE rows
        /\ imported' = imported \cap restored
    BY <1>4 DEF Sweep
  <2>2. pred \in {"release", "done"} /\ restored \subseteq DOMAIN exported
    <3>1. InLane("commit") /\ toSucc # <<>>
      BY <1>4, Received DEF Sweep, Message
    <3> QED BY <2>1, <3>1 DEF Lanes, Types, PredLabel
  <2>3. CASE store = "database"
    <3>1. rows \cap restored = restored \cap logged
      BY <2>2, <2>3 DEF Indexed, Index, Control
    <3> QED BY <1>0, <2>1, <2>3, <3>1 DEF Imported
  <2>4. CASE store # "database"
    <3>1. imported \cap restored = restored \cap logged
      BY <2>1, <2>2, <2>4 DEF Indexed, Imported
    <3> QED BY <1>0, <2>1, <2>4, <3>1 DEF Imported
  <2> QED BY <2>3, <2>4
<1> QED BY Zenon, <1>1, <1>2, <1>3, <1>4 DEF SuccStep

\* Every step.
LEMMA ImportedStep ==
  ASSUME Types, Control, Lanes, Held, Settled, Indexed, Imported, [Next]_vars
  PROVE  Imported'
<1>1. CASE UNCHANGED vars
  BY Zenon, <1>1 DEF vars, sessions, handover, successor, Imported
<1> QED BY Zenon, <1>1, Steps, ImportedSession, ImportedPred, ImportedSucc

\* Searches find who is served, after a handover and after one that failed,
\* provided logins are over within the parking timeout and, with a shared
\* database, no socket fails to be adopted.
THEOREM RowsFollowCorrect == ~SlowLogins /\ "database" \notin SocketsFail => (Spec => []RowsFollow)
<1> SUFFICES ASSUME ~SlowLogins, "database" \notin SocketsFail
             PROVE  Spec => []RowsFollow
  OBVIOUS
<1>1. Init => RowsInv
  <2> SUFFICES ASSUME Init PROVE RowsInv
    OBVIOUS
  <2>1. Settled /\ Indexed /\ Imported
    BY DEF Init, Settled, Indexed, Imported, Index, Served, Live, Moving, NoneExported
  <2> QED BY Zenon, <2>1, HandoverInvInit DEF RowsInv
<1>2. RowsInv /\ [Next]_vars => RowsInv'
  <2> SUFFICES ASSUME RowsInv, [Next]_vars PROVE RowsInv'
    OBVIOUS
  <2>1. HandoverInv /\ Types /\ Control /\ Lanes /\ Held /\ Settled /\ Indexed /\ Imported
    BY Zenon, TypesOK DEF RowsInv, HandoverInv
  <2> QED BY Zenon, <2>1, HandoverInvStep, SettledStep, IndexedStep, ImportedStep DEF RowsInv
<1>3. RowsInv => RowsFollow
  <2> SUFFICES ASSUME RowsInv PROVE RowsFollow
    OBVIOUS
  <2>1. Types /\ Control /\ Held /\ Indexed /\ Imported
    BY Zenon, TypesOK DEF RowsInv, HandoverInv
  <2>2. ASSUME NEW s \in Live, s \in logged \ released, loop[s] \notin {"parked", "leaving"}
        PROVE  s \in rows
    <3>1. s \in Served /\ loop[s] # "gone"
      BY <2>2 DEF Served, Live
    <3>2. s \notin DOMAIN exported
      BY <2>1, <2>2, <3>1 DEF Held
    <3>3. pred \notin Moving
      BY <2>1, <3>1, <3>2 DEF Indexed
    <3>4. ~filed
      BY <2>1, <3>3 DEF Control
    <3> QED BY <2>1, <3>1, <3>4 DEF Indexed, Index
  <2> QED BY Zenon, <2>1, <2>2 DEF RowsFollow, Imported
<1> QED BY <1>1, <1>2, <1>3, PTL DEF Spec
=============================================================================
