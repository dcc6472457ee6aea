---------------------------- MODULE MemoryEngine ----------------------------
(***************************************************************************)
(* The memory storage engine: the file records and their hash chains, the  *)
(* source lists, every session's offered list, the free slots, the word    *)
(* index over the names and the renumbering of the records (storage.go,    *)
(* memory_index.go), with the two operations that do not run under one     *)
(* lock: Disconnect, which strips a departing session chunk by chunk, and  *)
(* a catalogue walk by BrowseFiles, one page per call.                     *)
(*                                                                         *)
(* eng is what MemoryEngine.mu guards.  A record is named by its position  *)
(* in eng.recs, the code's id plus one, so that 0 ends a chain as it does  *)
(* in memRec.next.  A hash's oldest source (memRec.first) and the others   *)
(* (more) are one sequence, in offer order, on the hash's first record.  A *)
(* name is the set of its words.                                           *)
(***************************************************************************)
EXTENDS Integers, Sequences, FiniteSets, FiniteSetsExt, Functions, Sublists

CONSTANTS Hash,        \* file hashes
          Word,        \* words of file names
          Addr,        \* the (ID, port) a session is published under
          Offer,       \* the files sessions offer: [hash, size, name]
          MaxSession,  \* bound: sessions ever connected
          MaxLayout,   \* bound: renumberings of the records
          MaxLoad,     \* bound: files a snapshot restores at the start
          Chunk,       \* disconnectChunk
          Page,        \* files per BrowseFiles page
          StaleMax     \* stale index entries tolerated before a rebuild

ASSUME MemoryAssumption ==
    /\ MaxSession \in Nat /\ MaxLayout \in Nat /\ MaxLoad \in Nat /\ StaleMax \in Nat
    /\ Chunk \in Nat \ {0} /\ Page \in Nat \ {0}
    /\ Offer \subseteq [hash : Hash, size : Nat, name : SUBSET Word]
    /\ \A f \in Offer : IsFiniteSet(f.name)

VARIABLES eng,      \* the engine's state
          addr,     \* the address each session ever connected logged in with
          leaving,  \* sessions inside Disconnect: what is left of the detached list
          walk      \* the catalogue walk under way
vars == <<eng, addr, leaving, walk>>

Session == 1..MaxSession

Blank == [live |-> FALSE, hash |-> CHOOSE h \in Hash : TRUE, size |-> 0,
          name |-> {}, next |-> 0, sib |-> FALSE, src |-> <<>>]

NewEngine == [recs |-> <<>>, files |-> [h \in Hash |-> 0], count |-> 0,
              dead |-> <<>>, free |-> <<>>, post |-> [w \in Word |-> {}],
              entries |-> 0, live |-> 0, layout |-> 0, clients |-> <<>>]

----------------------------------------------------------------------------
(* The records and the word index *)

Live(E) == {i \in DOMAIN E.recs : E.recs[i].live}

\* The record after i in its chain, 0 at the end and past it.
Link(E, i) == IF i = 0 THEN 0 ELSE E.recs[i].next

\* The records of hash h, by following memRec.next from its first one.
Chain(E, h) ==
    LET at[n \in 1..(Len(E.recs) + 1)] == IF n = 1 THEN E.files[h] ELSE Link(E, at[n - 1])
    IN SubSeq(at, 1, Cardinality({n \in DOMAIN at : at[n] # 0}))

\* The record of (h, z), or 0.
FindRec(E, h, z) ==
    LET c == Chain(E, h)
        K == {k \in DOMAIN c : E.recs[c[k]].size = z}
    IN IF K = {} THEN 0 ELSE c[Min(K)]

HeadOf(E, i) == IF E.recs[i].sib THEN E.files[E.recs[i].hash] ELSE i

IndexName(E, i, name) ==
    [E EXCEPT !.post = [w \in Word |-> IF w \in name THEN @[w] \cup {i} ELSE @[w]],
              !.entries = @ + Cardinality({w \in name : i \notin E.post[w]}),
              !.live = @ + Cardinality(name)]

\* Faulty: the new name is not indexed.
RenameFile_Never(E, i, old, name) == E

\* The words only the old name had keep the id, as stale entries.
RenameFile(E, i, old, name) ==
    IF old = name THEN E
    ELSE IndexName([E EXCEPT !.live = @ - Cardinality(old)], i, name)

\* A new record takes the slot freed last, or a new one.
Slot(E) == IF E.free # <<>> THEN E.free[Len(E.free)] ELSE Len(E.recs) + 1

\* The record is the first of its hash or goes to the end of the hash's chain.
AddRec(E, f) ==
    LET i     == Slot(E)
        chain == Chain(E, f.hash)
        rec   == [live |-> TRUE, hash |-> f.hash, size |-> f.size, name |-> f.name,
                  next |-> 0, sib |-> chain # <<>>, src |-> <<>>]
        last(k) == chain # <<>> /\ k = chain[Len(chain)]
        link(k) == IF k = i THEN rec
                   ELSE IF last(k) THEN [E.recs[k] EXCEPT !.next = i]
                   ELSE E.recs[k]
    IN IndexName([E EXCEPT !.recs = [k \in 1..(IF E.free # <<>> THEN Len(@) ELSE i) |-> link(k)],
                           !.free = IF @ # <<>> THEN SubSeq(@, 1, Len(@) - 1) ELSE @,
                           !.files[f.hash] = IF chain = <<>> THEN i ELSE @,
                           !.count = @ + 1],
                 i, f.name)

\* A known (hash, size) keeps its record.
StoreFile(E, f) ==
    LET at == FindRec(E, f.hash, f.size)
    IN IF at = 0 THEN AddRec(E, f)
       ELSE [RenameFile(E, at, E.recs[at].name, f.name) EXCEPT !.recs[at].name = f.name]

StoreFiles(E, files) ==
    LET done[n \in 0..Len(files)] == IF n = 0 THEN E ELSE StoreFile(done[n - 1], files[n])
    IN done[Len(files)]

----------------------------------------------------------------------------
(* The sources *)

\* Faulty: the displaced session keeps the hash in its list.
ForgetOffer_Never(E, owner, taker, head) == E

\* Drops head from owner's offered list once taker has its source there.
ForgetOffer(E, owner, taker, head) ==
    IF owner = taker \/ owner \notin DOMAIN E.clients THEN E
    ELSE [E EXCEPT !.clients[owner] = DropFirst(@, {k \in DOMAIN @ : @[k] = head})]

\* The new source takes over the entry of the same session, or of the same
\* address, and goes to the end; a session's first source of a hash adds the
\* hash to its offered list.
PutSource(E, head, src) ==
    LET list  == E.recs[head].src
        same  == {k \in DOMAIN list : list[k].peer = src.peer \/ list[k].addr = src.addr}
        had   == \E k \in DOMAIN list : list[k].peer = src.peer
        freed == IF same = {} THEN E ELSE ForgetOffer(E, list[Min(same)].peer, src.peer, head)
        put   == [freed EXCEPT !.recs[head].src = Append(DropFirst(list, same), src)]
    IN IF had THEN put ELSE [put EXCEPT !.clients[src.peer] = Append(@, head)]

\* The sources of session s leave the records I.
RemoveSourcesOf(E, I, s) ==
    LET kept(list) == Sublist(list, {k \in DOMAIN list : list[k].peer # s})
        rec(i)     == IF i \in I THEN [E.recs[i] EXCEPT !.src = kept(@)] ELSE E.recs[i]
    IN [E EXCEPT !.recs = [i \in DOMAIN @ |-> rec(i)]]

RemoveAllSourcesOf(E, s) == RemoveSourcesOf(E, DOMAIN E.recs, s)

\* How many sources record i's file has, and so whether it is served at all.
Sources(E, i) ==
    LET list == E.recs[HeadOf(E, i)].src
        z    == E.recs[i].size
    IN Cardinality({k \in DOMAIN list : z = 0 \/ list[k].size \in {0, z}})

----------------------------------------------------------------------------
(* Reaping, and renumbering the records *)

\* Faulty: the hash goes on naming the record it began with.
RemoveRec_KeepsFirst(E, i) ==
    LET rec == E.recs[i] IN
    [E EXCEPT !.recs = [k \in DOMAIN @ |-> IF k = i THEN Blank
                           ELSE IF @[k].next = i THEN [@[k] EXCEPT !.next = rec.next]
                           ELSE @[k]],
              !.dead = Append(@, i), !.count = @ - 1,
              !.live = @ - Cardinality(rec.name)]

\* A record whose hash has no source left leaves its chain; the next record of
\* the hash becomes the first if it was.
RemoveRec(E, i) ==
    LET rec   == E.recs[i]
        first == E.files[rec.hash] = i
        relink(k) == IF k = i THEN Blank
                     ELSE IF first /\ k = rec.next THEN [E.recs[k] EXCEPT !.sib = FALSE]
                     ELSE IF E.recs[k].next = i THEN [E.recs[k] EXCEPT !.next = rec.next]
                     ELSE E.recs[k]
    IN [E EXCEPT !.recs = [k \in DOMAIN @ |-> relink(k)],
                 !.files[rec.hash] = IF first THEN rec.next ELSE @,
                 !.dead = Append(@, i), !.count = @ - 1,
                 !.live = @ - Cardinality(rec.name)]

\* The entries of the index, and those a name of a record accounts for.
Entries(E) == {x \in Word \X DOMAIN E.recs : x[2] \in E.post[x[1]]}
Named(E) == {x \in Word \X Live(E) : x[1] \in E.recs[x[2]].name}

\* The dead ids leave every posting list.
Purge(E) ==
    [E EXCEPT !.post = [w \in Word |-> @[w] \cap Live(E)],
              !.entries = @ - Cardinality({x \in Entries(E) : x[2] \notin Live(E)})]

NeedsRebuild(E) ==
    LET stale == E.entries - E.live IN stale > StaleMax /\ stale > E.entries \div 4

\* The id a record has once the live ones are numbered densely, 0 if it has none.
NewID(E, i) == IF i \in Live(E) THEN Place(Live(E), i) ELSE 0

\* The records in their new places, with the chains, the first records and the
\* names; the offered lists follow.
Compacted(E) ==
    LET kept == Sublist(E.recs, Live(E))
        recs == [k \in DOMAIN kept |-> [kept[k] EXCEPT !.next = NewID(E, @)]]
        n    == Cardinality(Named(E))
    IN [E EXCEPT !.recs = recs, !.files = [h \in Hash |-> NewID(E, @[h])],
                 !.post = [w \in Word |-> {k \in DOMAIN recs : w \in recs[k].name}],
                 !.entries = n, !.live = n, !.dead = <<>>, !.free = <<>>]

\* An offered list with the new ids, dead records dropped.
Renumbered(E, list) ==
    LET new == [k \in DOMAIN list |-> NewID(E, list[k])]
    IN Sublist(new, {k \in DOMAIN new : new[k] # 0})

\* Faulty: the renumbering does not show.
RebuildIndex_KeepsLayout(E) ==
    [Compacted(E) EXCEPT !.clients = [s \in DOMAIN @ |-> Renumbered(E, @[s])]]

\* Everything that names a record is renumbered, and the layout says so to those
\* who hold ids from before.
RebuildIndex(E) ==
    [Compacted(E) EXCEPT !.clients = [s \in DOMAIN @ |-> Renumbered(E, @[s])],
                         !.layout = @ + 1]

\* The purge comes before the slots are free, the rebuild after.
MaintainIndex(E) ==
    LET freed == IF E.dead = <<>> THEN E
                 ELSE [Purge(E) EXCEPT !.free = @ \o E.dead, !.dead = <<>>]
    IN IF NeedsRebuild(freed) THEN RebuildIndex(freed) ELSE freed

Reap(E, i) ==
    IF E.recs[i].live /\ E.recs[HeadOf(E, i)].src = <<>> THEN RemoveRec(E, i) ELSE E

Reaped(E) ==
    LET done[n \in 0..Len(E.recs)] == IF n = 0 THEN E ELSE Reap(done[n - 1], n)
    IN done[Len(E.recs)]

Cleaned(E) == MaintainIndex(Reaped(E))

\* installFilesLocked, for files in the order the map yields them: the sessions
\* stay, sourcing nothing.
InstallFiles(E, files) ==
    StoreFiles([NewEngine EXCEPT !.layout = E.layout + 1,
                                 !.clients = [s \in DOMAIN E.clients |-> <<>>]],
               files)

----------------------------------------------------------------------------
(* A handover through a file that is read back: the whole index, hash by hash *)

\* One hash of the stream: its files in chain order, then its sources in offer
\* order, each one an entry of its session's offered list.
ImportHash(E, from, h) ==
    LET chain  == Chain(from, h)
        file(i) == [hash |-> h, size |-> from.recs[i].size, name |-> from.recs[i].name]
        stored == StoreFiles(E, [k \in DOMAIN chain |-> file(chain[k])])
        list   == from.recs[chain[1]].src
        head   == stored.files[h]
        times(s) == Cardinality({k \in DOMAIN list : list[k].peer = s})
    IN [stored EXCEPT !.recs[head].src = @ \o list,
                      !.clients = [s \in DOMAIN @ |-> @[s] \o [k \in 1..times(s) |-> head]]]

\* The engine is emptied twice, by the export and by the import.
Imported(E, hashes) ==
    LET done[n \in 0..Len(hashes)] ==
            IF n = 0 THEN [InstallFiles(E, <<>>) EXCEPT !.layout = E.layout + 2]
            ELSE ImportHash(done[n - 1], E, hashes[n])
    IN done[Len(hashes)]

----------------------------------------------------------------------------
(* Actions *)

File(r) == [hash |-> r.hash, size |-> r.size]
Served(E) == {File(E.recs[i]) : i \in {j \in DOMAIN E.recs : E.recs[j].live /\ Sources(E, j) > 0}}

NoWalk == [on |-> FALSE, layout |-> 0, next |-> 1, file |-> {}, times |-> 1]

\* walk.file and walk.times are history variables: some file that was served at
\* every moment of the walk, and how often the walk has reported it.
Watch(E) == walk' = IF walk.file \subseteq Served(E) THEN walk ELSE NoWalk

\* The map m with the entry v for s.
With(m, s, v) == [t \in DOMAIN m \cup {s} |-> IF t = s THEN v ELSE m[t]]

\* The orders in which Go's range may yield the members of a map.
Orders(S) == Injection(1..Cardinality(S), S)

\* A load runs at the start, before any session.
Init ==
    /\ \E F \in {G \in SUBSET Offer :
                    /\ IsFiniteSet(G) /\ Cardinality(G) <= MaxLoad
                    /\ \A f, g \in G : f.hash = g.hash /\ f.size = g.size => f = g} :
         \E q \in Orders(F) : eng = [InstallFiles(NewEngine, q) EXCEPT !.layout = 0]
    /\ addr = <<>> /\ leaving = <<>> /\ walk = NoWalk

Connect(a) ==
    /\ Len(addr) < MaxSession
    /\ addr' = Append(addr, a)
    /\ eng' = [eng EXCEPT !.clients = With(@, Len(addr) + 1, <<>>)]
    /\ UNCHANGED <<leaving, walk>>

\* An offer of a session that is gone by now stores nothing.
AddFile(s, f) ==
    LET stored == StoreFile(eng, f) IN
    /\ s \in DOMAIN addr
    /\ eng' = IF s \notin DOMAIN eng.clients THEN eng
              ELSE PutSource(stored, stored.files[f.hash],
                             [peer |-> s, addr |-> addr[s], size |-> f.size])
    /\ Watch(eng')
    /\ UNCHANGED <<addr, leaving>>

\* The session is gone with the first lock, its first Chunk hashes with it.
Disconnect(s) ==
    /\ s \in DOMAIN eng.clients
    /\ LET list == eng.clients[s]
           gone == [eng EXCEPT !.clients = [t \in DOMAIN @ \ {s} |-> @[t]]]
           n    == Min({Chunk, Len(list)})
       IN /\ eng' = RemoveSourcesOf(gone, Range(SubSeq(list, 1, n)), s)
          /\ leaving' = IF n = Len(list) THEN leaving
                        ELSE With(leaving, s, [list |-> SubSeq(list, n + 1, Len(list)),
                                               layout |-> eng.layout])
    /\ Watch(eng')
    /\ UNCHANGED addr

\* Faulty: the list is used after a renumbering.
DisconnectNext_TrustsList(s) ==
    /\ s \in DOMAIN leaving
    /\ LET list == leaving[s].list
           n    == Min({Chunk, Len(list)})
       IN /\ eng' = RemoveSourcesOf(eng, Range(SubSeq(list, 1, n)), s)
          /\ leaving' = IF n = Len(list) THEN [t \in DOMAIN leaving \ {s} |-> leaving[t]]
                        ELSE [leaving EXCEPT ![s].list = SubSeq(@, n + 1, Len(@))]
    /\ Watch(eng')
    /\ UNCHANGED addr

\* The next chunk, under a lock taken anew: after a renumbering the list says
\* nothing, and every record is visited instead.
DisconnectNext(s) ==
    /\ s \in DOMAIN leaving
    /\ LET list  == leaving[s].list
           stale == leaving[s].layout # eng.layout
           n     == Min({Chunk, Len(list)})
           rest  == [t \in DOMAIN leaving \ {s} |-> leaving[t]]
       IN /\ eng' = IF stale THEN RemoveAllSourcesOf(eng, s)
                    ELSE RemoveSourcesOf(eng, Range(SubSeq(list, 1, n)), s)
          /\ leaving' = IF stale \/ n = Len(list) THEN rest
                        ELSE [leaving EXCEPT ![s].list = SubSeq(@, n + 1, Len(@))]
    /\ Watch(eng')
    /\ UNCHANGED addr

CleanupStale ==
    /\ Cleaned(eng).layout <= MaxLayout
    /\ eng' = Cleaned(eng)
    /\ Watch(eng')
    /\ UNCHANGED <<addr, leaving>>

\* ExportHandoffFile and RestoreHandoffFile, with every session parked: the
\* stream has the hashes in any order.
RestoreHandoff ==
    /\ leaving = <<>> /\ eng.layout + 2 <= MaxLayout
    /\ \E q \in Orders({h \in Hash : eng.files[h] # 0}) : eng' = Imported(eng, q)
    /\ walk' = walk
    /\ UNCHANGED <<addr, leaving>>

WalkStart ==
    /\ ~walk.on
    /\ \E f \in Served(eng) :
         walk' = [on |-> TRUE, layout |-> eng.layout, next |-> 1, file |-> {f}, times |-> 0]
    /\ UNCHANGED <<eng, addr, leaving>>

\* One page: the cursor of another layout is refused, and the walk over.
BrowseFiles ==
    /\ walk.on
    /\ LET hits == {i \in walk.next..Len(eng.recs) : eng.recs[i].live /\ Sources(eng, i) > 0}
           page == {i \in hits : Place(hits, i) <= Page}
           times == walk.times + Cardinality({i \in page : File(eng.recs[i]) \in walk.file})
       IN walk' = IF walk.layout # eng.layout THEN NoWalk
                  ELSE IF Cardinality(page) = Page /\ Max(page) < Len(eng.recs)
                  THEN [walk EXCEPT !.times = times, !.next = Max(page) + 1]
                  ELSE [NoWalk EXCEPT !.times = times]
    /\ UNCHANGED <<eng, addr, leaving>>

Next ==
    \/ \E a \in Addr : Connect(a)
    \/ \E s \in Session, f \in Offer : AddFile(s, f)
    \/ \E s \in Session : Disconnect(s)
    \/ \E s \in Session : DisconnectNext(s)
    \/ CleanupStale
    \/ RestoreHandoff
    \/ WalkStart
    \/ BrowseFiles

Spec == Init /\ [][Next]_vars

----------------------------------------------------------------------------
(* Properties *)

\* The state is well formed, and every id held anywhere names a slot.
TypeOK ==
    LET slot == 1..Len(eng.recs) IN
    /\ eng.recs \in Seq([live : BOOLEAN, hash : Hash, size : Nat, name : SUBSET Word,
                         next : 0..Len(eng.recs), sib : BOOLEAN,
                         src : Seq([peer : Session, addr : Addr, size : Nat])])
    /\ eng.files \in [Hash -> 0..Len(eng.recs)]
    /\ eng.dead \in Seq(slot) /\ eng.free \in Seq(slot)
    /\ eng.post \in [Word -> SUBSET slot]
    /\ \A s \in DOMAIN eng.clients : eng.clients[s] \in Seq(slot)
    /\ DOMAIN leaving \subseteq DOMAIN addr

\* "offered lists the hashes the session sources ... each once": the list
\* Disconnect walks and OfferedCount measures names exactly the source lists the
\* session is in, across take-overs, reaping, slot reuse and renumbering.
OfferedExact ==
    \A s \in DOMAIN eng.clients :
        LET list == eng.clients[s] IN
        /\ Range(list) = {i \in Live(eng) :
                            \E k \in DOMAIN eng.recs[i].src : eng.recs[i].src[k].peer = s}
        /\ IsInjective(list)

\* No source outlives its session: a source belongs to a connected session, or to
\* one whose Disconnect is still to reach it.  A hash lists a session once and an
\* address once, which the handover's import relies on ("a session holds one
\* source per hash").
SourcesExact ==
    \A i \in DOMAIN eng.recs : \A j \in DOMAIN eng.recs[i].src :
        LET x == eng.recs[i].src[j]
            s == x.peer
        IN
        /\ \/ s \in DOMAIN eng.clients
           \/ /\ s \in DOMAIN leaving
              /\ leaving[s].layout # eng.layout \/ i \in Range(leaving[s].list)
        /\ \A k \in DOMAIN eng.recs[i].src \ {j} :
             eng.recs[i].src[k].peer # x.peer /\ eng.recs[i].src[k].addr # x.addr

\* A slot is live, dead or free, once, and the count is the live ones'.  The chain
\* of a hash holds every live record of it and each size once; only its first
\* record is no sibling, and only the first record has sources.
RecordsExact ==
    /\ TypeOK
    /\ eng.count = Cardinality(Live(eng))
    /\ IsInjective(eng.dead \o eng.free)
    /\ Range(eng.dead \o eng.free) = DOMAIN eng.recs \ Live(eng)
    /\ \A h \in Hash :
         LET c == Chain(eng, h) IN
         /\ Range(c) = {i \in Live(eng) : eng.recs[i].hash = h}
         /\ \A j, k \in DOMAIN c : j # k => eng.recs[c[j]].size # eng.recs[c[k]].size
         /\ \A k \in DOMAIN c : eng.recs[c[k]].sib <=> k > 1
    /\ \A i \in DOMAIN eng.recs :
         eng.recs[i].src # <<>> => eng.recs[i].live /\ ~eng.recs[i].sib

\* The index is a superset of what any word can match, so a search finds what a
\* full scan finds; an id that can be reused is under no word of the file that had
\* it; and the counters that decide a rebuild are exact.
NamesCover ==
    /\ \A i \in Live(eng) : \A w \in eng.recs[i].name : i \in eng.post[w]
    /\ \A w \in Word : eng.post[w] \cap Range(eng.free) = {}
    /\ eng.entries = Cardinality(Entries(eng)) /\ eng.live = Cardinality(Named(eng))

\* A walk that ran to its end reported every file that was served throughout it,
\* and reported it once: nothing the other sessions and the cleanups did to the
\* records between two pages moved a file across the cursor unnoticed.
WalkExact == ~walk.on => walk.times = 1

=============================================================================
