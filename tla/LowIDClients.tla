----------------------------- MODULE LowIDClients -----------------------------
(***************************************************************************)
(* The LowID pool of ed2k/lowidclients.go.  Every operation holds l.mu, so *)
(* each is one step.  The counters are uint32, here modulo Word; the range *)
(* is the one NewLowIDClients makes of any configuration.  Where the hash  *)
(* probing of an Add ends is left open.                                    *)
(***************************************************************************)
EXTENDS Integers, FiniteSets

CONSTANTS Client,   \* what an ID is registered for
          Ceiling,  \* lowIDCeiling, 0xffffff in the code
          Word,     \* number of uint32 values
          Allow,    \* allowLowIDs
          MaxCfg    \* bound: largest configured minLowID and maxLowID

ASSUME PoolConstants ==
  /\ Ceiling \in Nat \ {0} /\ Word \in Nat /\ Ceiling + 1 < Word
  /\ Allow \in BOOLEAN /\ MaxCfg \in Nat

VARIABLES min, max,  \* the range IDs are granted from
          clients,   \* the client of each ID in use
          count,     \* IDs in use
          oddCount,  \* odd IDs in use
          restored   \* IDs in use that came by Restore

poolVars == <<min, max, clients, count, oddCount, restored>>

ID == 1..Ceiling
Any == -1   \* LowIDAnyParity; LowIDEvenParity and LowIDOddParity are 0 and 1
Parity == {Any, 0, 1}
InUse == DOMAIN clients
Odd(ids) == {i \in ids : i % 2 = 1}

PoolTypes ==
  /\ min \in ID /\ max \in ID /\ min <= max
  /\ InUse \subseteq ID /\ clients \in [InUse -> Client]
  /\ count \in 0..(Word - 1) /\ oddCount \in 0..(Word - 1)
  /\ restored \subseteq InUse

\* NewLowIDClients clamps whatever was configured.
ClampMin(lo) == IF lo = 0 THEN 1 ELSE lo
ClampMax(hi) == IF hi = 0 \/ hi > Ceiling THEN Ceiling ELSE hi
New(lo, hi) ==
  LET l == ClampMin(lo) h == ClampMax(hi) IN
  /\ min = IF l > h THEN 1 ELSE l
  /\ max = IF l > h THEN Ceiling ELSE h

PoolInit ==
  /\ \E lo, hi \in 0..MaxCfg : New(lo, hi)
  /\ clients = [i \in {} |-> 0]
  /\ count = 0 /\ oddCount = 0 /\ restored = {}

-----------------------------------------------------------------------------
\* Faulty: the last ID of the half is lost.
Span_OffByOne(p) ==
  LET first == IF p = Any \/ min % 2 = p THEN min ELSE min + 1 IN
  IF p = Any THEN max - min + 1
  ELSE IF first > max THEN 0 ELSE (max - first + 1) \div 2

\* paritySpanLocked: the lowest ID of the parity and how many there are.
First(p) == IF p = Any \/ min % 2 = p THEN min ELSE min + 1
Span(p) ==
  IF p = Any THEN max - min + 1
  ELSE IF First(p) > max THEN 0 ELSE (max - First(p)) \div 2 + 1

\* Faulty: the halves are exchanged.
Used_Swapped(p) ==
  CASE p = 0 -> oddCount
    [] p = 1 -> (count - oddCount) % Word
    [] OTHER -> count

\* usedLocked.
Used(p) ==
  CASE p = 1 -> oddCount
    [] p = 0 -> (count - oddCount) % Word
    [] OTHER -> count

\* The IDs the probing can reach.
Step(p) == IF p = Any THEN 1 ELSE 2
Reach(p) == {First(p) + Step(p) * k : k \in 0..(Span(p) - 1)}

\* putLocked.
Put(i, c) ==
  /\ clients' = [j \in InUse \union {i} |-> IF j = i THEN c ELSE clients[j]]
  /\ count' = (count + 1) % Word
  /\ oddCount' = (oddCount + (i % 2)) % Word

\* addByKeyLocked, when a probe meets a free ID.
Add(c, p) ==
  /\ Allow /\ Used(p) < Span(p)
  /\ \E i \in Reach(p) \ InUse : Put(i, c)
  /\ UNCHANGED <<min, max, restored>>

\* Faulty: the taken ID gets a new client.
Restore_Overwrites(i, c) ==
  /\ Put(i, c)
  /\ restored' = restored \union {i}
  /\ UNCHANGED <<min, max>>

\* A session handed over keeps its ID, in the range or not.
Restore(i, c) ==
  /\ i \notin InUse
  /\ Put(i, c)
  /\ restored' = restored \union {i}
  /\ UNCHANGED <<min, max>>

\* Faulty: the counters fall for an ID that is not in use.
Remove_Unchecked(i) ==
  /\ clients' = [j \in InUse \ {i} |-> clients[j]]
  /\ count' = (count - 1) % Word
  /\ oddCount' = (oddCount - (i % 2)) % Word
  /\ restored' = restored \ {i}
  /\ UNCHANGED <<min, max>>

\* Remove: a second release of the ID finds nothing and changes nothing.
Remove(i) ==
  /\ i \in InUse
  /\ clients' = [j \in InUse \ {i} |-> clients[j]]
  /\ count' = (count - 1) % Word
  /\ oddCount' = (oddCount - (i % 2)) % Word
  /\ restored' = restored \ {i}
  /\ UNCHANGED <<min, max>>

PoolNext ==
  \/ \E c \in Client, p \in Parity : Add(c, p)
  \/ \E i \in ID : Remove(i) \/ \E c \in Client : Restore(i, c)

PoolSpec == PoolInit /\ [][PoolNext]_poolVars

-----------------------------------------------------------------------------
\* The two counters are the numbers of IDs and of odd IDs in use, never below
\* zero: an Add asks them, not the table, whether its half is full.
CountsExact == count = Cardinality(InUse) /\ oddCount = Cardinality(Odd(InUse))

\* paritySpanLocked against its definition, for every range a configuration
\* can give: the probing reaches the IDs of the range with the parity, all of
\* them and no other, so an ID granted to a client that asked for an odd one
\* is odd and in the range.
ReachExact ==
  \A p \in Parity : Reach(p) = {i \in min..max : p = Any \/ i % 2 = p}

\* An Add that is not refused can succeed: when the counters leave room in the
\* half there is a free ID in it, also with IDs restored from outside the range.
RoomIsReal == \A p \in Parity : Used(p) < Span(p) => Reach(p) \ InUse # {}

\* A session is never replaced under its ID: callbacks for it would reach
\* another client (Restore reports an ID that is taken, an Add skips it).
HolderKept == [][\A i \in InUse : i \in InUse' => clients'[i] = clients[i]]_poolVars
=============================================================================
