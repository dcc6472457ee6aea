# A TLA+ development for eNode

eNode is an eD2K/eMule index server written in Go. Clients log in over TCP and
publish files; other clients search and ask for sources. Around that core the
server keeps a table of firewalled clients (LowIDs), helps two firewalled
clients reach each other over UDP, hands its open connections to a newer
process of itself, and can sell accounts for its search API.

The modules here model the parts of it that are concurrent and keep state.
TLC checks them on small instances and TLAPS proves the results listed below
for every value of the constants. `PROJECT.json` names, for each definition,
the lines it models.

## The system's parts

| part | state | who changes it | module |
| --- | --- | --- | --- |
| TCP sessions (`ed2k/server_runtime.go`) | the session, the hash index, ed3k claims, slots per address, client rows | a goroutine per connection, and any goroutine that releases another's session | `Sessions` |
| LowID pool (`ed2k/lowidclients.go`) | the table of IDs and two counters | logins, releases, a handover | `LowIDClients` |
| PR_NAT registry (`ed2k/nattraversal.go`) | candidates by hash and family, an index by endpoint | UDP workers, the sweep | `NatRegistry` |
| PR_NAT wake (`ed2k/natwake.go`) | waits on a target, their timers | UDP workers, timers, TCP writes | `NatWake` |
| NAT callback (`ed2k/natcallback.go`) | batches of waiting requesters, keepalives, tokens | UDP workers, timers, logins and releases | `NatCallback` |
| handover (`ed2k/handoff.go`, `internal/handoff`, `cmd/enode`) | parked sessions, locks, the exported index | predecessor, successor, read loops, writers | `Handover` |
| memory engine (`storage/storage.go`, `memory_index.go`, `handoff.go`) | records, chains, sources, offered lists, word index | sessions, cleanups, walks, a handover's import | `MemoryEngine` |
| accounts and payments (`accounts`, `storage/accounts*.go`) | account row, step record, payment rows | web handlers, webhooks, the poller, operators | `Accounts`, `AccessLedger` |
| the rest | see "Not modelled" | | |

They meet in few places. A login takes an ID from the pool and a row in the
engine, and a release gives both back: `Sessions` models pool and engine by
what a session sees of them, `LowIDClients` and `MemoryEngine` model their
inside. The NAT modules ask who holds a hash or a LowID, which a login or a
release may change at any step. A handover moves sessions and the engine's
contents between processes: `Handover` models rows, `MemoryEngine` the import.
An account is used by the search API only.

## Plan

In the order followed: sessions, since everything else looks its sessions up;
the pool and the registry, small enough to be proved; the wake, the callback and
the handover, where timers and processes race; the engine, where sequences of
legal calls matter more than races; accounts, the one part whose state survives
a restart, with an abstract ledger it is shown to implement. Next would come the
server gossip and the ed3k node.

The hazards that guided this are in `PROJECT.json`, with the line where each
bites and the properties that would notice.

## Running

`tlc -config <cfg> <module>` for a run, `tlapm <module>` for a proof module: a few
minutes each, a quarter of an hour and more for `SessionsProofs`,
`NatCallbackProofs`, `MemoryEngineLemmas` and `MemoryEngineProofs`.

| run | module, configuration | asks | states |
| --- | --- | --- | --- |
| `sessions_memory` | `MCSessions`, `SessionsMemory.cfg` | three parallel logins of one hash on the memory engine | 0.66 M |
| `sessions_live` | `MCSessions`, `SessionsLive.cfg` | two dual-stack logins on a database that fails; do the waits end | 0.16 M |
| `sessions_orphan` | `MCSessions`, `SessionsOrphan.cfg` | an orphaned row freed by hash: violated | |
| `lowid_pool` | `LowIDClients`, `LowIDClients.cfg` | every configured range of five IDs | small |
| `nat_registry` | `MCNatRegistry`, `NatRegistry.cfg` | registrations, take-overs and the wrap of the tick | small |
| `nat_wake` | `MCNatWake`, `NatWake.cfg` | two SYNC2s, REGISTERs and timers; is each SYNC2 answered | 0.07 M |
| `natcallback` | `MCNatCallback`, `NatCallback.cfg` | sessions taking turns on a LowID while requesters wait | 1.89 M |
| `handover` | `MCHandover`, `Handover.cfg` | two handovers, failing sockets, all three stores | 0.91 M |
| `handover_live` | `MCHandover`, `HandoverLive.cfg` | does a handover end | 0.10 M |
| `memory_engine` | `MCMemoryEngine`, `MemoryEngine.cfg` | sessions, cleanups, walks and imports | 0.24 M |
| `accounts` | `MCAccounts`, `Accounts.cfg` | two goroutines, two purchases, a fault | 0.71 M |
| `accounts_reopen` | `MCAccounts`, `AccountsReopen.cfg` | a renewal during a status check: violated | |

Every safety property of these runs but the two that are violated is also proved,
for every value of the constants. `<Module>Proofs.tla` holds the proofs
(`RegistriesProofs` those of the pool and of the PR_NAT registry), and the
sections below give the inductive invariants. Each was checked with TLC on the
run's instance before it was proved.

`Sublists` holds the one operation on sequences that both `NatCallback` and
`MemoryEngine` use: the part of a list at some of its positions.

Every `_Name` variant marked faulty is a plausible mistake in the definition
that follows it; with it in place TLC finds the property it is there for
violated.

## Sessions: logging in, being replaced, going away

`Sessions.tla` models `ed2k/server_runtime.go` from the accept of a TCP
connection to the end of `releaseSession`. One element of `Conn` is one
connection and its reader goroutine; the goroutine's place in the code is
`pc[c]`, and a step of the model ends wherever another goroutine can see or
change shared state: at a lock, a storage call, a wait.

| state | code |
| --- | --- |
| `pc`, `target`, `ret` | where the goroutine is, and whose release it runs or waits for |
| `peer`, `open`, `hash`, `id`, `logged`, `hasLowID` | fields of `tcpClient` and its `info` |
| `rel[c]` | `releaseOnce` and the snapshot `releaseSession` takes |
| `sessionsByHash`, `handshaking`, `lowIDs`, `connsPerIP`, `sessionsByEd3k` | tables of `ServerRuntime` and `LowIDClients` |
| `rows`, `clientsByHash`, `sources` | the storage engine's client rows and sources |

`RowPerHash` chooses the engine: FALSE is the memory engine, which keeps a row
per session and an index by hash; TRUE is MySQL or MongoDB, one row per hash.
With `StoreFails` each statement of a database may fail, and a failed
statement may or may not have taken effect. An operation of the memory engine
is one step because it runs under the engine's lock.

`sessions_memory` checks that whatever the pool holds will be given back, that
the slots per address are exact, that a released session leaves neither row nor
source behind, that no source is without a row, that ed3k claims name live
logins and that a release does not take a newer session's row. `sessions_live`
checks the hash index and the routing of LowIDs on a failing database, that
every login is decided and that every closed session is wound up.

*Where the code parts from its comments.* `sessions_orphan` refutes the comment
quoted in its finding. Four more readings of comments do not hold, found with
the same module under other constants; the passing runs are configured away
from each in one named way.

- With `RequestID` holding a LowID: the ID a client asks for is in `info.ID`
  before one is allocated, so a login refused because the pool is full frees the
  ID of whoever holds it. Runs use `RequestID = {None}`.
- With `MaxLogins = 2`: a login that failed after its LowID was allocated only
  closes the socket, and a login request already read takes another one; the
  first is stranded. Runs use `MaxLogins = 1`.
- Two logins of one hash that both find it offline are both accepted, though the
  code says it rejects "the new connection when this user hash is already
  online".
- On a database a release overtaken by a login of the hash marks the newer
  session's row offline, though `storage/hashgate.go` says it prevents that.
  `NewerRowKept` is checked on the memory engine.

*Bounds.* Three connections of one hash are the smallest number at which a
login can replace a session while a third frees what it takes for an orphan.
Two connections with an address of each family suffice for the waits, which are
between two goroutines. `MaxLogins` bounds the login requests of a connection,
`MaxEd3kClaims` the claims per node.

*Fairness.* `FairSpec` asks weak fairness of each goroutine's next step
(goroutines are scheduled, storage calls return) and of the read that fails
once the socket is closed. Nothing is assumed of the client: it may stay
silent for ever, and the probe's deadline must decide the login.

*Left out.* Parking for a handover, the NAT token issued by `handShake` and
dropped by `releaseSession`, and the search and source handlers, which change
no session state.

### What is proved

`SessionsProofs.tla` proves, for every value of the constants:

- `TypeCorrect`: `Spec => []TypeOK`.
- `IndexCorrect`: the hash index names live sessions of that hash. It needs
  `Goroutines`, which ties the release record to the goroutine running it
  (who is past which step, and that a registered session is logged in), and
  `Indexed`, which says an entry is written only by a registered session and
  is gone once its release is past `unregisterSession`.
- `ClaimsCorrect`: the same for the ed3k claims, plus that the list never holds
  a session twice; it rests on two lemmas about adding to and dropping from
  the list.
- `LowIDHeldCorrect`, assuming `MaxLogins <= 1`: no LowID is stranded. The
  strengthening `Owned` follows an ID from the allocation to the release.
- `LowIDRoutesCorrect`, assuming no request carries a LowID: the pool routes a
  held ID to its holder. `Routed` adds that the snapshot of a running release
  is the session's own ID.
- `NothingLeftBehindCorrect`, assuming the memory engine: `Kept` says every row
  is that of a session whose release has still to reach storage.
- `SourcesHaveRowsCorrect` and `NewerRowKeptCorrect`, assuming the memory engine:
  the first is inductive beside `Goroutines` once the steps that can touch a row
  are told from those that cannot (`Quiet`, `Loud`), the second follows from the
  row a release deletes being that of the session it releases.
- `SlotsCorrect`, for any number of connections and limits: the count of an
  address is the size of `Holders`, the connections accepted from it whose
  goroutine has not reached `releaseConnSlot`. `Unplaced` adds that a connection
  not accepted yet has no address.

`MaxLogins <= 1` and the premise on requests are needed because of the first two
cases above. The memory engine is assumed where a row is one session's; a database
keeps one per hash, which the last case is about. The two liveness properties are
model-checked only.

## LowIDClients: the pool

`LowIDClients.tla` models `ed2k/lowidclients.go` completely; every operation
holds the pool's mutex and is one step. `New` clamps any configured range as
`NewLowIDClients` does, and the run starts from every configuration of
`0..MaxCfg` squared, past the ceiling of the ID space included. Counters are
uint32 in the code, modulo `Word` here. Where the hash probing of an `Add` ends
is left open among the IDs `Reach` says it visits.

The run checks that the two counters are the numbers of IDs and of odd IDs in
use, that the probing visits exactly the IDs of the range with the parity asked
for, that an Add the counters let through can succeed, and that no holder is
replaced. `RegistriesProofs.tla` proves the type invariant with the first
(`CountsCorrect`; together they are inductive: a counter is decremented only for
an ID in the table, so it is positive), the second (`ReachCorrect`, from the range
alone), the third (`RoomIsRealCorrect`: the IDs the probing visits are as many as
`Span` says, by a bijection with an interval, so fewer used than that leave one
free, restored IDs outside the range included) and the fourth
(`HolderKeptCorrect`), for every ceiling, word size and client set. Two clients
suffice for the run: an operation looks at one ID and its holder.

## NatRegistry: candidates by hash and by endpoint

`NatRegistry.tla` models the registry of `ed2k/nattraversal.go`: `REGISTER`,
keepalives, take-over of an endpoint by another hash, expiry on a tick that
wraps, and the sweep. `age` is true time, kept beside the stamps to say what
they should mean. `SweepEvery` bounds the time between sweeps, which the code's
ticker gives; the assumption `TTL + SweepEvery + 1 < Wrap` is what makes the
modular age sound (a lifetime of 90 seconds by default against a wrap after 49
days in the code).

Checked: the index and the slots are inverse to each other, a candidate lives
one TTL to within the tick the reserved stamp 0 costs, and an expired one is not
revived. `RegistriesProofs.tla` proves all three for any hashes, endpoints,
lifetimes and tick widths. For `IndexCorrect` the induction needs `Filed`, that a
stored endpoint is filed under its own family. `ExpiresOnTimeCorrect` and
`NoRevivalCorrect` rest on `Aged`: the tick is what a candidate's stamp and its true
age make it, modulo the wrap and the stamp 0 that is skipped, and the sweep keeps
that age below a turn of the tick. It uses `RegistryConstants`, the inequality
above included; without it a candidate could come back to life after a turn.
Two hashes whose sessions share one endpoint of each family suffice, since a
take-over is between the old and the new owner of one endpoint.

## NatWake: pairing, with the target asleep

`NatWake.tla` models SYNC2 handling and the wake of a local target
(`ed2k/nattraversal.go`, `ed2k/natwake.go`). Workers give up the lock around the
TCP write, timers fire and run their `expireWake` later, a REGISTER is stored
before it completes a wait: `pc`, `expiring`, `regs` and `finished` hold what is
between two such steps.

Checked: a SYNC2 told to wait is in one wait and an answered one in none, and no
wait exceeds its limit; every wait in the table has a timer to come; only a
REGISTER or a wait's own timer ends it; every SYNC2 is answered. The last needs
fairness of the workers, the timers and the TCP write, and nothing of the
target, which may stay silent, log out or lose its candidates. Two SYNC2s of two
requesters with room for one exercise joining, repeating and being turned away.

`NatWakeProofs.tla` proves the three safety properties (`WaitsOnceCorrect`,
`WaitWillEndCorrect`, `EndedByOwnCorrect`) for any SYNC2s, hashes, families and
limits. `WaitsOnce` counts, which an induction cannot work with: `Placed` says
instead that a SYNC2 waits exactly if it is in the table or in a wait taken from
it, and in one place only; `Single` and `Bounded` say that a requester is in a wait
once and that a wait is finite and within its limit. That every SYNC2 is answered
is model-checked.

*Where the code parts from its comments.* `wakeTarget` checks the number of
waits before the TCP write and stores its wait after it, so workers that passed
together exceed "natWakeMaxPending caps the targets waiting on a wake at once".
A SYNC2 turned away by a full wait has already added its families, so no later
one asks the target for them ("Only families not asked for yet need another
wake"). `wakeOutbound` pairs whatever is registered when the wait ends, without
asking whether both are still logged in ("SYNC2 pairs only two such hashes").

## NatCallback: clients that are not logged in here

`NatCallback.tla` models `ed2k/natcallback.go`: a foreign requester waits for the
target's keepalive or for the fallback timer of its batch. Handled concurrently
are logins and releases, which hand a LowID to the next session, keepalives with
or without a proof, copied or late, and timers of batches long answered. `proofs`
is a history of the proofs believed; `told` holds the notices of the last step.

Checked: while a batch waits exactly one timer of it is to come and it holds each
requester once, in order, within the limit; a proof is believed once; whoever is
told an endpoint is told one of the session it is told about, although holder,
recent request and keepalive are read one after the other.

*Bounds.* Two sessions on one LowID are what a change of hands takes, three
requesters for a batch of two (`MaxPending = 2`) what displacing the oldest and
keeping the order of the rest takes, one worker because the
two locks of a keepalive already interleave with timers and logins. `MaxPackets`
bounds the datagrams: three overfill a batch, or are two requests and a keepalive,
or a proof and its
copy. With windows of one tick and `MaxTime = 2` a request, a batch and a
keepalive can each outlive their window, and a timer can fire late.

*What is proved.* `NatCallbackProofs.tla`, for any sessions, LowIDs, addresses,
workers and bounds:

- `ProofOnceCorrect`. `Counters`: for as long as a session has its token its
  counter is at least every proof believed of it, and the token is set once.
- `ToldOwnEndpointCorrect`. `Endorsed`: a keepalive that passed the check carries
  its justification, its session's own address or a proof, from the check to the
  store and to whoever reads it; `Come`: by then the session's address is fixed.
- `BatchesSoundCorrect`: the types, one timer to come for each batch that waits,
  and the order, distinctness and length of the batch. `Generations`: no batch or
  timer has a generation that is still to be given out, so none is answered by
  another's timer. What filtering, expiry and displacement leave of a list is a
  `Sublist`, whose elements keep their order: the k-th of it is at the k-th of the
  positions kept, which is proved from a least counterexample.

*Where the code parts from its comments.* `releaseSession` drops the callback
state first, so the token of a login still under way re-creates it after ("dropped
when the session is released"). A keepalive is checked under one lock and stored
under another, so of two accepted ones the earlier may be stored last ("each
LowID's last accepted OpNatKeepalive source").

## Handover: giving every connection to the next process

`Handover.tla` composes the predecessor's read loops and writers
(`ed2k/handoff.go`), both sides of the protocol (`internal/handoff`) and what
drives them (`cmd/enode/handoff_unix.go`). `store` chooses how the index moves:
streamed, through the file, or in a database both processes share. The successor
may die and either side may give up waiting at any step; sockets may fail to be
exported or adopted.

Checked: no socket is served by two processes, the keystream position sent stays
the current one, the rows on either side are those of the sessions served there,
and a failed handover leaves no deadline behind that would cut a session off.
`handover_live`: every handover ends and no session stays parked. It assumes that
goroutines run, that a write or a wait ends, and nothing of the client.

*Bounds.* Two sessions, one of which may be logging in while it is parked, and two
handovers, so that one follows a failed one; `MaxWrites = 1` suffices for a write
between export and commit. The liveness run has one handover in memory.

*What is proved.* `HandoverProofs.tla` proves the four safety properties for any
sessions, stores, writes and number of handovers. `OneServerCorrect`,
`StreamExactCorrect` and `NoStaleDeadlineCorrect` follow from one invariant about
the handover goroutine: `Control`, what it holds at each of its labels; `Lanes`, how
far the successor and the messages to it can be then; `Held`, that a session whose
write lock it holds is parked, has no writer and is as it was exported; `Deadlines`,
where a session can be that a pass has interrupted. `RowsFollowCorrect` adds
`Settled` (no login is under way once the passes are over), `Indexed` (whoever is
served or was exported has its row in the engine or in the file) and `Imported`
(what the successor makes of it), and assumes `~SlowLogins` and that no socket fails
while the store is a database: the two cases below, which the run leaves out too.

*Where the code parts from its comments.* With `SlowLogins` a login that outlasts
the parking timeout goes on after its session was released and leaves a row
("closed and released as if it had disconnected"), which breaks `RowsFollow`; the
run keeps it out. With a database and failing sockets `RestoreSessions` takes a
client offline before COMMIT, so an aborted handover resumes a session without
its row ("without touching storage"); `SocketsFail` excludes that pair. And the
successor's deadline starts before READY: when it expires with COMMIT on its way,
neither process serves ("never stops serving because of a failed handover").

## MemoryEngine: the index in memory

`MemoryEngine.tla` models the records, hash chains, source lists, offered lists,
slots and word index of `storage/storage.go` and `memory_index.go`, and the
import of `storage/handoff.go`. Operations run under the engine's lock and are one
step each, except `Disconnect`, which strips a large session chunk by chunk, and a
catalogue walk, one page per call.

Checked: a session's offered list names exactly the source lists it is in; a
source belongs to a connected session or one whose Disconnect has still to reach
it, and a hash lists a session and an address once; a slot is live, dead or free,
and a chain holds every live record of its hash; the word index covers every name
and its rebuild counters are exact; a walk reports each file that was served
throughout it once, although cleanups renumber the records between two pages.

*Bounds.* Two hashes, one with two sizes, one rename and two words give chains,
siblings and stale postings; `StaleMax = 0` lets one stale posting cause a rebuild,
where the code tolerates more; two sessions ever connected give a take-over at one
address; two renumberings (`MaxLayout`) allow a cleanup during a walk and a chunked
Disconnect, and an import; the run starts from every restored index of at most one
file, whose reaping is what makes a renumbering move the others.

*What is proved.* `MemoryEngineProofs.tla` proves all five properties for any
hashes, words, files, sessions, page, chunk and rebuild limits. It extends
`MemoryEngineLemmas.tla`, which has the inductive invariant and the operations
that add files and sources or remove sources; reaping, the cleanup, the import
and the steps are in `MemoryEngineProofs.tla` itself. The invariant is

- `Sound`, of the engine alone: `Slots` (the lists of dead and free slots are
  disjoint, without repetition and hold exactly the slots that are not live),
  `Chains` (following `next` from a hash's first record gives its live records, each
  size once, all but the first siblings), `Index` (every live name is covered, no
  free slot is, both counters are the sizes of the sets they count), `Sourced` (only
  first records have sources; a session and an address occur once in a list, with
  the address the session logged in under) and `Offered` (a connected session's list
  is the records whose sources name it, each once);
- `Owned`: a source's session is connected, or leaving with the record in what is
  left of its list, or leaving with a list of an older layout;
- `Walked`: while the layout is that of the walk, the watched file has one live
  record and was counted once exactly if that record is behind the cursor.

An operation of the engine is shown to keep `Sound` on its own, whatever state it
starts in, together with what it does to the rest: `Grown` for storing a file,
`Sourcing` for a source put, `Removing` for sources removed, `Reaping` for the
records reaped, `Cleaning` for a cleanup with or without a renumbering, `Importing`
for a hash of a handover. The actions follow from those. `OneRecord`, that a live
record is determined by its hash and size, is what carries a walk across a cleanup.

The loops over records and files are recursive functions, and the chain of a hash
is one. The library's induction theorems cannot be instantiated here, so what a
loop maintains is proved from the least index at which it fails (`Least`, from the
well-foundedness of the naturals; `Induct`, `Recursion`).

## Accounts and AccessLedger: who may use the API, and until when

`Accounts.tla` models one account with one renewable payment step:
`accounts/service.go`, `accounts/payment/step.go` and the account store. A
goroutine (`Worker`) runs one request: a checkout, a webhook or return page, a
refresh, a status check, a round of the poller, or an operator action. One step of
the model is one call to the store or to the provider; `pc` names the next one.

| state | code |
| --- | --- |
| `acct`, `step`, `pay` | the account row, the payment step's record, the payment rows |
| `lock` | the account's mutex in `accountLocks`, as the set of its holders |
| `stack` | the loops over payments the goroutine is in: `Evaluate` calls `Check`, whose `reconcile` may call `RevokeAccess`, which calls `Evaluate` |
| `snap`, `cur`, `seen` | the account as it was last read, the payment being credited or revoked, the provider's answer |
| `order` | the order at the provider, outside the program |
| `granted`, `returned` | history: the payments whose days were added and taken back |
| `unsettled` | history: a revocation reopened the step of an account it had read as disabled |

Any call may fail (`Fail`), which gives up what its caller gives up, and the
process may restart with every row kept. A failed call is taken not to have had
its effect. The throttle `due` is a free choice to skip. Failed, cancelled and
refunded orders are one status, since no condition tells them apart, and an order
the provider has given up is not paid later. A goroutine that lists payments does
not list those nobody would do anything with.

`AccessLedger.tla` is what `Host` promises of the access end: each purchase adds
its days at most once and has them taken back at most once, each change counted
from the end the one before left. `Ledger == INSTANCE AccessLedger WITH until <-
acct.until` and `ImplementsLedger` say that the access end of the account row,
with the two histories, is such a ledger: no update is lost however webhook,
poller, status check and operator meet, and none is made twice.

Also checked: a step counts as done only for an account somebody paid for, and
access has no end only if a plan without an end was bought, whatever fails between
the writes of a grant; when nothing failed, marks and ledger agree once all
requests are over; an account stored as active has its step closed or its period
behind it, unless `unsettled`; nothing but the operator re-enables a disabled
account.

*Bounds.* Two goroutines, two purchases, of one day and without an end, a clock of
two days, four events (`MaxEvents`, requests and faults together) of which at most
one fault. Two checkouts and two goroutines that credit at once are four events;
so are a purchase, a status check, and an operator's extension during another
status check.

*What is proved.* `AccountsProofs.tla` proves `LedgerImplemented` (`Spec =>
ImplementsLedger`), `DisabledStays`, `OnlyPaidCorrect`, `MarksCorrect` and
`StateSettledCorrect` for any number of goroutines, payments, events and faults, any
periods and windows, from `AccountsAssumption` alone. None of the five is inductive.
The invariant `Inv`, enough for the first three, adds

- `Locks`: at most one goroutine holds the lock, and every one between the read
  and the write of the account row does;
- `Snaps`: what such a goroutine read is still what the row holds, so a write
  never undoes another's;
- `Credits` and `Refunds`: a payment being credited (revoked) is marked so, by one
  goroutine, and is not in the ledger yet, which is what the comparing writes of
  `MarkPaymentCredited` and `MarkPaymentRevoked` give;
- `Paid`: a goroutine that closes the step after a grant has a purchase behind it.

Steps are proved by kind (`Going`, `Locking`, `Writing`, `Closing`, crediting,
extending) and each action is shown to be of a kind. Frames, orders and the
provider do not enter: the ledger does not depend on which payments are looked at.

`MarksCorrect` needs the converse of `Credits` and `Refunds`: `Owed`, that while
nothing has failed a marked payment is in the ledger or in the hands of a goroutine
about to put it there. `StateSettledCorrect` needs to know who will still look at
the state. `Owes(w)` is that goroutine w will come to `Settle`: it grants, runs
`Evaluate` on a row it did not read as disabled, or is in a loop `Evaluate` called.
`Pledge` says that an active account with an open step has run out or has such a
goroutine. Since `Evaluate` and `RevokeAccess` call each other, the frames of `stack`
enter: `Loops` says that every frame but the outermost is `Evaluate`'s, and which
labels are inside a loop, so that a goroutine which leaves `Evaluate`'s loop always
goes on to `settle`.

*Where the code parts from its comments.* `accounts_reopen`: `Evaluate` decides
from the account its caller read that the period has lapsed and resets the step,
while a renewal is credited; the member who has just paid is left with an open
step. Further, not a run of their own:

- `RevokeAccess` hands `Evaluate` the row it wrote. When it read the account as
  disabled, and before it reopens the step a grant extends the access and the
  operator enables the account again, its `Evaluate` returns at once for the disabled
  row: the account stays active with an open step until its period runs out, since
  `Authorize` lets an active account in unevaluated. This takes five events; the proof of `StateSettledCorrect`
  failed on it, and `unsettled` leaves it out;
- a payment marked credited whose grant fails is, as the code says, left to the
  operator; one whose process stops between the two is not even logged, and one
  that is stored as paid but not yet marked is in no list the poller reads;
- a refunded payment is stored as refunded before it is marked revoked, and is no
  longer looked at if the second write fails;
- a period bought after a plan without an end ends the access that had none,
  since the zero end is not later than now;
- `Host` says `CompleteStep` "re-evaluates its state"; it only closes the step.

## Only model-checked

- Liveness (`LoginDecided`, `CloseCompletes`, `Sync2Answered`, `HandoverEnds`,
  `ParkingEnds`): fairness and ENABLED are outside the prover's reach.
- `HeldRowKept` and `ReopensWhenRunOut` are violated.

Everything else the passing runs check is proved, under the premises named with
each theorem.

## Not modelled

- Packet and wire formats, obfuscation, SQL, HTML: data a model would copy and not
  abstract.
- The generated protobuf code and the vendored QUIC and TLS forks, most of the
  repository's lines.
- Server gossip, the ed3k node, meta search and server links: they have state of
  their own worth modelling and no module yet.
- Search evaluation, spam and bot heuristics, filters, rate limits, the memory
  guard, configuration, the dashboard: decisions on data without interleavings, or
  heuristics without a statement of what is right.
- Login sessions and passwords of accounts, and the provider's HTTP client.

`PROJECT.json` lists every part with the reason.
