-------------------------- MODULE RegistriesProofs --------------------------
(***************************************************************************)
(* The two registries every lookup of a client goes through: the LowID     *)
(* pool (LowIDClients) and the NAT registry (NatRegistry).                 *)
(*                                                                         *)
(* The pool, for every range, every set of clients and every word size: an *)
(* Add and a Remove leave the two counters the number of IDs and of odd    *)
(* IDs in use, no subtraction wraps, and the room the counters promise an  *)
(* Add is there.                                                           *)
(*                                                                         *)
(* The NAT registry, for any hashes, endpoints, lifetimes and tick width.  *)
(* The index is exact: IndexExact becomes inductive once every stored      *)
(* endpoint is known to be in the slot of its own family.  The lifetimes   *)
(* are kept: the stamp of a stored candidate and its true age determine    *)
(* the tick, and the sweep bounds the age below a turn of it.              *)
(***************************************************************************)
EXTENDS LowIDClients, NatRegistry, FiniteSetTheorems, TLAPS

-----------------------------------------------------------------------------
(* The LowID pool *)

\* IDs are finitely many, so what is in use can be counted, and never reaches Word.
LEMMA Counting ==
  ASSUME NEW S \in SUBSET ID
  PROVE  /\ IsFiniteSet(S) /\ Cardinality(S) \in 0..Ceiling
         /\ IsFiniteSet(Odd(S)) /\ Cardinality(Odd(S)) \in 0..Ceiling
<1>1. IsFiniteSet(ID) /\ Cardinality(ID) = Ceiling
  BY PoolConstants, FS_Interval DEF ID
<1>2. \A T \in SUBSET ID : IsFiniteSet(T) /\ Cardinality(T) \in Nat /\ Cardinality(T) <= Ceiling
  BY <1>1, FS_Subset, FS_CardinalityType
<1>3. Odd(S) \subseteq ID
  BY DEF Odd
<1> QED BY <1>2, <1>3, PoolConstants

\* One more ID in use is one more counted, and counted as odd if it is.
LEMMA OneMore ==
  ASSUME NEW S \in SUBSET ID, NEW i \in ID \ S, NEW T, T = S \union {i}
  PROVE  Cardinality(T) = Cardinality(S) + 1 /\ Cardinality(Odd(T)) = Cardinality(Odd(S)) + (i % 2)
<1>1. IsFiniteSet(S) /\ IsFiniteSet(Odd(S)) /\ Cardinality(Odd(S)) \in Nat
  BY Counting
<1>2. Cardinality(T) = Cardinality(S) + 1
  BY Zenon, <1>1, FS_AddElement
<1>3. i \in Nat /\ i % 2 \in {0, 1}
  BY DEF ID
<1>4. CASE i % 2 = 1
  <2>1. Odd(T) = Odd(S) \union {i} /\ i \notin Odd(S)
    BY <1>4 DEF Odd
  <2>2. Cardinality(Odd(T)) = Cardinality(Odd(S)) + 1
    BY Zenon, <1>1, <2>1, FS_AddElement
  <2> QED BY <1>1, <1>2, <1>3, <1>4, <2>2
<1>5. CASE i % 2 = 0
  <2>1. Odd(T) = Odd(S)
    BY <1>5 DEF Odd
  <2>2. Cardinality(Odd(T)) = Cardinality(Odd(S))
    BY Zenon, <2>1
  <2> QED BY <1>1, <1>2, <1>3, <1>5, <2>2
<1> QED BY <1>3, <1>4, <1>5

-----------------------------------------------------------------------------
Counted == PoolTypes /\ CountsExact

\* The range NewLowIDClients makes of any configuration is one of IDs, not empty.
LEMMA CountedInit == PoolInit => Counted
<1> SUFFICES ASSUME PoolInit PROVE Counted
  OBVIOUS
<1>1. PICK lo \in 0..MaxCfg, hi \in 0..MaxCfg : New(lo, hi)
  BY DEF PoolInit
<1>2. min \in ID /\ max \in ID /\ min <= max
  BY <1>1, PoolConstants DEF New, ClampMin, ClampMax, ID
<1>3. InUse = {} /\ count = 0 /\ oddCount = 0 /\ restored = {}
  BY DEF PoolInit, InUse
<1>4. clients \in [InUse -> Client]
  BY <1>3 DEF PoolInit, InUse
<1>5. Odd(InUse) = {} /\ Cardinality({}) = 0
  BY <1>3, FS_EmptySet DEF Odd
<1>6. CountsExact
  BY Zenon, <1>3, <1>5 DEF CountsExact
<1> QED BY <1>2, <1>3, <1>4, <1>6, PoolConstants DEF Counted, PoolTypes

\* A grant, whoever it is for, is counted once.
LEMMA PutCounts ==
  ASSUME Counted, NEW i \in ID \ InUse, NEW c \in Client, Put(i, c)
  PROVE  /\ InUse' = InUse \union {i} /\ clients' \in [InUse' -> Client]
         /\ count' \in 0..(Word - 1) /\ oddCount' \in 0..(Word - 1)
         /\ CountsExact'
<1>1. InUse' = InUse \union {i} /\ InUse \union {i} \in SUBSET ID /\ InUse \in SUBSET ID
  BY DEF Put, InUse, Counted, PoolTypes
<1>2. clients' \in [InUse' -> Client]
  BY <1>1 DEF Put, Counted, PoolTypes
<1>3. /\ Cardinality(InUse') = count + 1 /\ Cardinality(Odd(InUse')) = oddCount + (i % 2)
      /\ Cardinality(InUse') \in 0..Ceiling /\ Cardinality(Odd(InUse')) \in 0..Ceiling
  BY <1>1, OneMore, Counting DEF Counted, CountsExact
<1>4. count' = (count + 1) % Word /\ oddCount' = (oddCount + (i % 2)) % Word
  BY DEF Put
<1>5. \A n \in 0..Ceiling : n % Word = n /\ n \in 0..(Word - 1)
  BY PoolConstants
<1>6. Odd(InUse)' = Odd(InUse')
  BY DEF Odd
<1>7. /\ count' = Cardinality(InUse') /\ oddCount' = Cardinality(Odd(InUse'))
      /\ count' \in 0..(Word - 1) /\ oddCount' \in 0..(Word - 1)
  <2>1. (count + 1) % Word = Cardinality(InUse') /\ Cardinality(InUse') \in 0..(Word - 1)
    BY Zenon, <1>3, <1>5
  <2>2. (oddCount + (i % 2)) % Word = Cardinality(Odd(InUse')) /\ Cardinality(Odd(InUse')) \in 0..(Word - 1)
    BY Zenon, <1>3, <1>5
  <2> QED BY Zenon, <1>4, <2>1, <2>2
<1>8. CountsExact'
  BY Zenon, <1>6, <1>7 DEF CountsExact
<1> QED BY Zenon, <1>1, <1>2, <1>7, <1>8

\* Every step keeps the counters exact.
LEMMA CountedStep == ASSUME Counted, [PoolNext]_poolVars PROVE Counted'
<1>1. ASSUME NEW c \in Client, NEW p \in Parity, Add(c, p) PROVE Counted'
  <2>1. PICK i \in Reach(p) \ InUse : Put(i, c)
    BY <1>1 DEF Add
  <2>2. i \in ID
    <3>1. min \in Nat /\ min >= 1 /\ max \in Nat /\ max <= Ceiling /\ min <= max
      BY PoolConstants DEF Counted, PoolTypes, ID
    <3>2. PICK k \in 0..(Span(p) - 1) : i = First(p) + Step(p) * k
      BY <2>1 DEF Reach
    <3>3. CASE p = Any
      BY <3>1, <3>2, <3>3, PoolConstants DEF First, Step, Span, ID, Any
    <3>4. CASE p # Any
      <4>1. First(p) \in Nat /\ First(p) >= 1 /\ Step(p) = 2
        BY <3>1, <3>4 DEF First, Step
      <4>2. Span(p) = IF First(p) > max THEN 0 ELSE (max - First(p)) \div 2 + 1
        BY <3>4 DEF Span
      <4> QED BY <3>1, <3>2, <4>1, <4>2, PoolConstants DEF ID
    <3> QED BY <3>3, <3>4
  <2>3. UNCHANGED <<min, max, restored>>
    BY <1>1 DEF Add
  <2> QED BY <2>1, <2>2, <2>3, PutCounts DEF Counted, PoolTypes
<1>2. ASSUME NEW i \in ID, NEW c \in Client, Restore(i, c) PROVE Counted'
  <2>1. i \notin InUse /\ Put(i, c) /\ restored' = restored \union {i} /\ UNCHANGED <<min, max>>
    BY <1>2 DEF Restore
  <2> QED BY <2>1, PutCounts DEF Counted, PoolTypes
<1>3. ASSUME NEW i \in ID, Remove(i) PROVE Counted'
  <2>1. /\ i \in InUse /\ InUse' = InUse \ {i} /\ clients' = [j \in InUse \ {i} |-> clients[j]]
        /\ count' = (count - 1) % Word /\ oddCount' = (oddCount - (i % 2)) % Word
        /\ restored' = restored \ {i} /\ UNCHANGED <<min, max>>
    BY <1>3 DEF Remove, InUse
  <2>2. InUse' \in SUBSET ID /\ i \in ID \ InUse' /\ InUse' \union {i} = InUse
    BY <2>1 DEF Counted, PoolTypes
  <2>3. count = Cardinality(InUse') + 1 /\ oddCount = Cardinality(Odd(InUse')) + (i % 2)
    <3>1. Cardinality(InUse) = Cardinality(InUse') + 1 /\ Cardinality(Odd(InUse)) = Cardinality(Odd(InUse')) + (i % 2)
      BY Zenon, <2>2, OneMore
    <3> QED BY Zenon, <3>1 DEF Counted, CountsExact
  <2>4. Cardinality(InUse') \in 0..Ceiling /\ Cardinality(Odd(InUse')) \in 0..Ceiling
    BY <2>2, Counting
  <2>5. i % 2 \in Nat
    BY DEF ID
  <2>6. count - 1 = Cardinality(InUse') /\ oddCount - (i % 2) = Cardinality(Odd(InUse'))
    <3>1. \A n \in 0..Ceiling, k \in Nat : (n + k) - k = n
      BY PoolConstants
    <3>2. 1 \in Nat
      OBVIOUS
    <3> QED BY Zenon, <2>3, <2>4, <2>5, <3>1, <3>2
  <2>7. \A n \in 0..Ceiling : n % Word = n /\ n \in 0..(Word - 1)
    BY PoolConstants
  <2>8. /\ count' = Cardinality(InUse') /\ oddCount' = Cardinality(Odd(InUse'))
        /\ count' \in 0..(Word - 1) /\ oddCount' \in 0..(Word - 1)
    BY <2>1, <2>4, <2>6, <2>7
  <2>9. clients' \in [InUse' -> Client] /\ restored' \subseteq InUse'
    BY <2>1 DEF Counted, PoolTypes
  <2>10. min' \in ID /\ max' \in ID /\ min' <= max'
    BY <2>1 DEF Counted, PoolTypes
  <2>11. Odd(InUse)' = Odd(InUse')
    BY DEF Odd
  <2> QED BY <2>2, <2>8, <2>9, <2>10, <2>11 DEF Counted, PoolTypes, CountsExact
<1>4. CASE UNCHANGED poolVars
  BY <1>4 DEF poolVars, Counted, PoolTypes, CountsExact, InUse, Odd
<1> QED BY <1>1, <1>2, <1>3, <1>4 DEF PoolNext

\* count and oddCount are exact in every reachable state and never wrap, whatever
\* sequence of Add, Restore and Remove (repeated releases included) came before.
THEOREM CountsCorrect == PoolSpec => [](PoolTypes /\ CountsExact)
<1>1. PoolInit => Counted
  BY CountedInit
<1>2. Counted /\ [PoolNext]_poolVars => Counted'
  BY CountedStep
<1>3. Counted => PoolTypes /\ CountsExact
  BY DEF Counted
<1> QED BY <1>1, <1>2, <1>3, PTL DEF PoolSpec

-----------------------------------------------------------------------------
\* What the probing can reach, whatever the range.
LEMMA ReachIs == PoolTypes => ReachExact
<1> SUFFICES ASSUME PoolTypes, NEW p \in Parity
             PROVE  Reach(p) = {i \in min..max : p = Any \/ i % 2 = p}
  BY DEF ReachExact
<1>1. min \in Nat /\ max \in Nat /\ min <= max
  BY PoolConstants DEF PoolTypes, ID
<1>2. CASE p = Any
  <2>1. Reach(p) = {min + k : k \in 0..(max - min)}
    BY <1>1, <1>2 DEF Reach, First, Step, Span, Any
  <2>2. \A i \in min..max : i - min \in 0..(max - min) /\ i = min + (i - min)
    BY <1>1
  <2> QED BY <1>1, <1>2, <2>1, <2>2
<1>3. CASE p # Any
  <2>1. p \in {0, 1} /\ First(p) \in Nat /\ First(p) >= min /\ First(p) % 2 = p /\ First(p) <= min + 1
    BY <1>1, <1>3 DEF First, Parity, Any
  <2> DEFINE f == First(p)
  <2>2. \A i \in min..max : i % 2 = p => i >= f
    BY <1>1, <1>3 DEF First
  <2>3. Reach(p) = {f + 2 * k : k \in 0..(Span(p) - 1)}
    BY <1>3 DEF Reach, Step
  <2>4. Span(p) = IF f > max THEN 0 ELSE (max - f) \div 2 + 1
    BY <1>3 DEF Span
  <2> HIDE DEF f
  <2>5. \A i \in Reach(p) : i \in min..max /\ i % 2 = p
    BY <1>1, <2>1, <2>3, <2>4 DEF f
  <2>6. ASSUME NEW i \in min..max, i % 2 = p PROVE i \in Reach(p)
    <3>1. f \in Nat /\ i >= f /\ i \in Nat /\ f % 2 = p /\ i <= max
      BY <1>1, <2>1, <2>2, <2>6 DEF f
    <3>2. PICK k \in Nat : i = f + 2 * k
      <4>1. i = 2 * (i \div 2) + p /\ f = 2 * (f \div 2) + p /\ i \div 2 \in Nat /\ f \div 2 \in Nat
        BY <2>6, <3>1
      <4>2. (i \div 2) - (f \div 2) \in Nat
        BY <2>1, <3>1, <4>1
      <4>3. i = f + 2 * ((i \div 2) - (f \div 2))
        BY <3>1, <4>1
      <4> QED BY Zenon, <4>2, <4>3
    <3>3. Span(p) = (max - f) \div 2 + 1 /\ k <= (max - f) \div 2
      BY <1>1, <2>4, <3>1, <3>2
    <3> QED BY <1>1, <2>3, <3>1, <3>2, <3>3
  <2> QED BY <1>3, <2>5, <2>6
<1> QED BY <1>2, <1>3

\* paritySpanLocked is right for every range: the probing reaches the IDs of the
\* range with the parity asked for, all of them and no other.
THEOREM ReachCorrect == PoolSpec => []ReachExact
<1>1. PoolTypes => ReachExact
  BY ReachIs
<1> QED BY <1>1, CountsCorrect, PTL

-----------------------------------------------------------------------------
\* The IDs usedLocked counts.
Taken(p) == {i \in InUse : p = Any \/ i % 2 = p}

\* The counters of Used are the sizes of the sets they count.
LEMMA UsedIs ==
  ASSUME Counted, NEW p \in Parity
  PROVE  IsFiniteSet(Taken(p)) /\ Used(p) = Cardinality(Taken(p))
<1>1. InUse \in SUBSET ID
  BY DEF Counted, PoolTypes
<1>2. /\ IsFiniteSet(InUse) /\ Cardinality(InUse) \in 0..Ceiling
      /\ IsFiniteSet(Odd(InUse)) /\ Cardinality(Odd(InUse)) \in 0..Ceiling
  BY Zenon, <1>1, Counting
<1>3. count = Cardinality(InUse) /\ oddCount = Cardinality(Odd(InUse))
  BY Zenon DEF Counted, CountsExact
<1>4. CASE p = Any
  <2>1. Taken(p) = InUse /\ Used(p) = count
    BY <1>4 DEF Taken, Used, Any
  <2> QED BY Zenon, <1>2, <1>3, <2>1
<1>5. CASE p = 1
  <2>1. Taken(p) = Odd(InUse) /\ Used(p) = oddCount
    BY <1>5 DEF Taken, Used, Any, Odd
  <2> QED BY Zenon, <1>2, <1>3, <2>1
<1>6. CASE p = 0
  <2>1. Taken(p) = InUse \ Odd(InUse) /\ InUse \cap Odd(InUse) = Odd(InUse)
    <3>1. \A i \in InUse : i % 2 = 0 \/ i % 2 = 1
      BY <1>1 DEF ID
    <3>2. p # Any /\ 0 # 1
      BY <1>6 DEF Any
    <3> QED BY Zenon, <1>6, <3>1, <3>2 DEF Taken, Odd
  <2>2. Used(p) = (count - oddCount) % Word
    BY <1>6 DEF Used
  <2>3. IsFiniteSet(Taken(p)) /\ Cardinality(Taken(p)) = Cardinality(InUse) - Cardinality(Odd(InUse))
    BY Zenon, <1>2, <2>1, FS_Difference
  <2>4. Taken(p) \in SUBSET ID
    BY <1>1 DEF Taken
  <2>5. Cardinality(Taken(p)) \in 0..Ceiling
    BY Zenon, <2>4, Counting
  <2>6. \A n \in 0..Ceiling : n % Word = n
    BY PoolConstants
  <2>7. (count - oddCount) % Word = Cardinality(Taken(p))
    BY Zenon, <1>3, <2>3, <2>5, <2>6
  <2> QED BY Zenon, <2>2, <2>3, <2>7
<1> QED BY Zenon, <1>4, <1>5, <1>6 DEF Parity

\* A half with every ID in use has as many of them counted as it has IDs.
LEMMA FullIsCounted ==
  ASSUME Counted, NEW p \in Parity, Reach(p) \subseteq InUse
  PROVE  Span(p) <= Used(p)
<1> DEFINE S == 0..(Span(p) - 1)
           at == [k \in S |-> First(p) + Step(p) * k]
<1>1. min \in Nat /\ max \in Nat /\ min <= max
  BY PoolConstants DEF Counted, PoolTypes, ID
<1>2. First(p) \in Nat /\ Step(p) \in {1, 2} /\ Span(p) \in Nat
  BY <1>1 DEF First, Step, Span, Any, Parity
<1>3. Reach(p) \subseteq Taken(p)
  <2>1. Reach(p) = {i \in min..max : p = Any \/ i % 2 = p}
    BY Zenon, ReachIs DEF Counted, ReachExact
  <2> QED BY Zenon, <2>1 DEF Taken
<1>4. \A k \in S : at[k] \in Taken(p)
  BY Zenon, <1>3 DEF Reach
<1>5. \A j, k \in S : at[j] = at[k] => j = k
  BY <1>2
<1>6. at \in Injection(S, Taken(p))
  <2>1. at \in [S -> Taken(p)]
    BY <1>4
  <2> HIDE DEF at, S
  <2> QED BY Zenon, <1>5, <2>1 DEF Injection, IsInjective
<1>7. IsFiniteSet(Taken(p)) /\ Used(p) = Cardinality(Taken(p))
  BY Zenon, UsedIs
<1>8. Cardinality(S) <= Cardinality(Taken(p))
  <2> HIDE DEF at, S
  <2> QED BY Zenon, <1>6, <1>7, FS_Injection
<1>9. Cardinality(S) = Span(p)
  BY <1>2, FS_Interval
<1> QED BY Zenon, <1>7, <1>8, <1>9

\* An Add that the counters let through finds a free ID of its half, whatever
\* was added, restored from outside the range or removed before.
THEOREM RoomIsRealCorrect == PoolSpec => []RoomIsReal
<1>1. Counted => RoomIsReal
  <2> SUFFICES ASSUME Counted, NEW p \in Parity, Used(p) < Span(p), Reach(p) \subseteq InUse
               PROVE  FALSE
    BY Zenon DEF RoomIsReal
  <2>1. Span(p) <= Used(p)
    BY Zenon, FullIsCounted
  <2>2. Span(p) \in Nat
    BY PoolConstants DEF Counted, PoolTypes, ID, Span, First, Any, Parity
  <2>3. Used(p) \in Nat
    BY PoolConstants DEF Counted, PoolTypes, Used
  <2> QED BY <2>1, <2>2, <2>3
<1>2. Counted /\ [PoolNext]_poolVars => Counted'
  BY CountedStep
<1> QED BY <1>1, <1>2, CountedInit, PTL DEF PoolSpec

\* An ID in use keeps its client until it is released.
THEOREM HolderKeptCorrect == PoolSpec => HolderKept
<1>1. [PoolNext]_poolVars => [\A i \in InUse : i \in InUse' => clients'[i] = clients[i]]_poolVars
  BY DEF PoolNext, Add, Restore, Remove, Put, InUse, poolVars
<1> QED BY <1>1, PTL DEF PoolSpec, HolderKept

-----------------------------------------------------------------------------
(* The NAT registry *)

Filed ==
  \A h \in Hash, f \in Family :
    slot[h][f].seen # 0 => slot[h][f].ep \in Endpoint /\ FamilyOf(slot[h][f].ep) = f

RegistryInv == TypeOK /\ Filed /\ IndexExact

\* A stamp is never zero, which stands for no stamp.
LEMMA TickType ==
  ASSUME clock \in 0..(Wrap - 1)
  PROVE  Tick \in 1..(Wrap - 1)
BY RegistryConstants DEF Tick

\* An endpoint has one of the two families.
LEMMA FamilyType == \A ep \in Endpoint : FamilyOf(ep) \in Family
BY DEF FamilyOf, Family

\* A registration keeps the types.
LEMMA SetSlotTypes ==
  ASSUME TypeOK, NEW h \in Hash, NEW ep \in Endpoint, NEW v \in Version, SetSlot(h, ep, v)
  PROVE  /\ slot' \in [Hash -> [Family -> Slot]]
         /\ version' \in [Hash -> Version]
         /\ byAddr' \in [Endpoint -> Hash \union {None}]
         /\ age' \in [Hash -> [Family -> Nat]]
<1> DEFINE f == FamilyOf(ep)
<1>1. f \in Family /\ Tick \in 0..(Wrap - 1) /\ EmptySlot \in Slot /\ [ep |-> ep, seen |-> Tick] \in Slot
  BY FamilyType, TickType, RegistryConstants DEF TypeOK, Slot, EmptySlot
<1>2. slot' \in [Hash -> [Family -> Slot]]
  BY <1>1 DEF SetSlot, TypeOK
<1>3. version' \in [Hash -> Version]
  BY RegistryConstants DEF SetSlot, TypeOK
<1>4. byAddr' \in [Endpoint -> Hash \union {None}]
  BY DEF SetSlot, TypeOK
<1>5. age' \in [Hash -> [Family -> Nat]]
  BY <1>1 DEF SetSlot, TypeOK
<1> QED BY <1>2, <1>3, <1>4, <1>5

\* Every step does.
LEMMA TypeStep ==
  ASSUME TypeOK, [Next]_vars
  PROVE  TypeOK'
<1>1. ASSUME NEW h \in Hash, NEW ep \in Endpoint, NEW v \in Version, SetSlot(h, ep, v), UNCHANGED <<clock, sinceSweep>>
      PROVE  TypeOK'
  BY <1>1, SetSlotTypes DEF TypeOK
<1>2. ASSUME NEW h \in Hash, NEW ep \in Endpoint, NEW v \in Version, Register(h, ep, v)
      PROVE  TypeOK'
  BY <1>1, <1>2 DEF Register
<1>3. ASSUME NEW h \in Hash, NEW ep \in Endpoint, Sync2Register(h, ep)
      PROVE  TypeOK'
  BY <1>1, <1>3, RegistryConstants DEF Sync2Register
<1>4. ASSUME NEW ep \in Endpoint, KeepAlive(ep)
      PROVE  TypeOK'
  <2>1. byAddr[ep] \in Hash /\ FamilyOf(ep) \in Family /\ Tick \in 0..(Wrap - 1)
    BY <1>4, FamilyType, TickType DEF KeepAlive, TypeOK
  <2>2. slot' \in [Hash -> [Family -> Slot]]
    BY <1>4, <2>1 DEF KeepAlive, TypeOK, Slot
  <2>3. age' \in [Hash -> [Family -> Nat]]
    BY <1>4, <2>1 DEF KeepAlive, TypeOK
  <2> QED BY <1>4, <2>2, <2>3 DEF KeepAlive, TypeOK
<1>5. CASE Cleanup
  <2>1. EmptySlot \in Slot
    BY RegistryConstants DEF EmptySlot, Slot
  <2>2. slot' \in [Hash -> [Family -> Slot]]
    BY <1>5, <2>1 DEF Cleanup, TypeOK
  <2>3. age' \in [Hash -> [Family -> Nat]] /\ version' \in [Hash -> Version] /\ sinceSweep' \in 0..SweepEvery
    BY <1>5, RegistryConstants DEF Cleanup, TypeOK
  <2>4. byAddr' \in [Endpoint -> Hash \union {None}]
    BY <1>5 DEF Cleanup, TypeOK
  <2> QED BY <1>5, <2>2, <2>3, <2>4 DEF Cleanup, TypeOK
<1>6. CASE Advance
  <2>1. clock' \in 0..(Wrap - 1)
    BY <1>6, RegistryConstants DEF Advance, TypeOK
  <2>2. age' \in [Hash -> [Family -> Nat]]
    BY <1>6 DEF Advance, TypeOK
  <2>3. sinceSweep' \in 0..SweepEvery
    BY <1>6, RegistryConstants DEF Advance, TypeOK
  <2> QED BY <1>6, <2>1, <2>2, <2>3 DEF Advance, TypeOK
<1>7. CASE UNCHANGED vars
  BY <1>7 DEF vars, TypeOK
<1> QED BY <1>2, <1>3, <1>4, <1>5, <1>6, <1>7 DEF Next

\* Registering an endpoint takes it from whichever hash held it.
LEMMA SetSlotIndex ==
  ASSUME RegistryInv, NEW h \in Hash, NEW ep \in Endpoint, NEW v, SetSlot(h, ep, v)
  PROVE  (Filed /\ IndexExact)'
<1> USE DEF RegistryInv
<1> DEFINE f == FamilyOf(ep)
<1>1. f \in Family /\ Tick # 0
  BY FamilyType, TickType, RegistryConstants DEF TypeOK
<1>2. \A g \in Hash, k \in Family :
        slot'[g][k] = IF k # f THEN slot[g][k]
                      ELSE IF g = h THEN [ep |-> ep, seen |-> Tick]
                      ELSE IF byAddr[ep] = g /\ slot[g][f].ep = ep THEN EmptySlot ELSE slot[g][f]
  BY <1>1 DEF SetSlot, TypeOK
<1>3. Filed'
  BY <1>1, <1>2 DEF Filed, EmptySlot
<1>4. ASSUME NEW e \in Endpoint, NEW g \in Hash
      PROVE  byAddr'[e] = g <=> slot'[g][FamilyOf(e)].seen # 0 /\ slot'[g][FamilyOf(e)].ep = e
  <2> DEFINE k == FamilyOf(e)
  <2>1. k \in Family /\ None # g /\ None # h
    BY FamilyType, RegistryConstants
  <2>2. byAddr'[e] = IF e = ep THEN h ELSE IF Owned(h, f) /\ e = slot[h][f].ep THEN None ELSE byAddr[e]
    BY DEF SetSlot
  <2>3. /\ byAddr[e] = g <=> slot[g][k].seen # 0 /\ slot[g][k].ep = e
        /\ byAddr[ep] = g <=> slot[g][f].seen # 0 /\ slot[g][f].ep = ep
        /\ byAddr[e] = h <=> slot[h][k].seen # 0 /\ slot[h][k].ep = e
    BY DEF IndexExact
  <2>4. e = ep => k = f
    OBVIOUS
  <2>5. Owned(h, f) /\ e = slot[h][f].ep => k = f
    BY <1>1 DEF Owned, Filed
  <2>6. slot'[g][k] = IF k # f THEN slot[g][k]
                      ELSE IF g = h THEN [ep |-> ep, seen |-> Tick]
                      ELSE IF byAddr[ep] = g /\ slot[g][f].ep = ep THEN EmptySlot ELSE slot[g][f]
    BY <1>2, <2>1
  <2>s. SUFFICES byAddr'[e] = g <=> slot'[g][k].seen # 0 /\ slot'[g][k].ep = e
    OBVIOUS
  <2> HIDE DEF f, k
  <2>7. CASE k # f
    BY <2>2, <2>3, <2>4, <2>5, <2>6, <2>7
  <2>8. CASE k = f /\ e = ep
    BY <1>1, <2>2, <2>3, <2>6, <2>8 DEF EmptySlot
  <2>9. CASE k = f /\ e # ep
    BY <2>1, <2>2, <2>3, <2>6, <2>9 DEF EmptySlot, Owned
  <2> QED BY <2>4, <2>7, <2>8, <2>9
<1> QED BY <1>3, <1>4 DEF IndexExact

\* Every step keeps the address index exact.
LEMMA IndexStep ==
  ASSUME RegistryInv, [Next]_vars
  PROVE  (Filed /\ IndexExact)'
<1> USE DEF RegistryInv
<1>1. ASSUME NEW h \in Hash, NEW ep \in Endpoint, NEW v \in Version, Register(h, ep, v)
      PROVE  (Filed /\ IndexExact)'
  BY <1>1, SetSlotIndex DEF Register
<1>2. ASSUME NEW h \in Hash, NEW ep \in Endpoint, Sync2Register(h, ep)
      PROVE  (Filed /\ IndexExact)'
  BY <1>2, SetSlotIndex DEF Sync2Register
<1>3. ASSUME NEW ep \in Endpoint, KeepAlive(ep)
      PROVE  (Filed /\ IndexExact)'
  <2>1. byAddr[ep] \in Hash /\ FamilyOf(ep) \in Family /\ Tick # 0
    BY <1>3, FamilyType, TickType, RegistryConstants DEF KeepAlive, TypeOK
  <2>2. UNCHANGED byAddr /\ \A g \in Hash, k \in Family :
          /\ slot'[g][k].ep = slot[g][k].ep
          /\ slot'[g][k].seen # 0 <=> slot[g][k].seen # 0
    BY <1>3, <2>1 DEF KeepAlive, TypeOK, LiveSlot
  <2> QED BY <2>2, FamilyType DEF Filed, IndexExact
<1>4. CASE Cleanup
  <2>1. \A g \in Hash, k \in Family : slot'[g][k] = IF Dead(g, k) THEN EmptySlot ELSE slot[g][k]
    BY <1>4 DEF Cleanup
  <2>2. Filed'
    BY <2>1 DEF Filed, EmptySlot
  <2>3. ASSUME NEW e \in Endpoint, NEW g \in Hash
        PROVE  byAddr'[e] = g <=> slot'[g][FamilyOf(e)].seen # 0 /\ slot'[g][FamilyOf(e)].ep = e
    <3> DEFINE k == FamilyOf(e)
               swept == \E h \in Hash, f \in Family : Dead(h, f) /\ slot[h][f].ep = e /\ byAddr[e] = h
    <3>1. k \in Family /\ None # g
      BY FamilyType, RegistryConstants
    <3>2. byAddr'[e] = IF swept THEN None ELSE byAddr[e]
      BY <1>4 DEF Cleanup
    <3>3. slot'[g][k] = IF Dead(g, k) THEN EmptySlot ELSE slot[g][k]
      BY <2>1, <3>1
    <3>4. byAddr[e] = g <=> slot[g][k].seen # 0 /\ slot[g][k].ep = e
      BY DEF IndexExact
    <3>5. byAddr[e] = g => (swept <=> Dead(g, k))
      BY <3>1, <3>4 DEF Dead, Filed
    <3> HIDE DEF swept, k
    <3>6. byAddr'[e] = g <=> slot'[g][k].seen # 0 /\ slot'[g][k].ep = e
      BY <3>1, <3>2, <3>3, <3>4, <3>5 DEF EmptySlot
    <3> QED BY <3>6 DEF k
  <2> QED BY <2>2, <2>3 DEF IndexExact
<1>5. CASE Advance
  BY <1>5 DEF Advance, Filed, IndexExact
<1>6. CASE UNCHANGED vars
  BY <1>6 DEF vars, Filed, IndexExact
<1> QED BY <1>1, <1>2, <1>3, <1>4, <1>5, <1>6 DEF Next

\* Registering, keeping alive, moving to another endpoint, losing it to
\* another hash and being swept keep the index and the slots inverse, for any
\* number of hashes and endpoints (setSlotLocked, clearSlotLocked).
THEOREM IndexCorrect == Spec => []IndexExact
<1>1. Init => RegistryInv
  <2> SUFFICES ASSUME Init PROVE RegistryInv
    OBVIOUS
  <2>1. TypeOK
    <3>1. EmptySlot \in Slot /\ 0 \in Version /\ 0 \in 0..(Wrap - 1) /\ 0 \in 0..SweepEvery
      BY RegistryConstants DEF EmptySlot, Slot
    <3> QED BY <3>1 DEF Init, TypeOK
  <2>2. Filed
    BY DEF Init, Filed, EmptySlot
  <2>3. IndexExact
    BY FamilyType, RegistryConstants DEF Init, IndexExact, EmptySlot
  <2> QED BY <2>1, <2>2, <2>3 DEF RegistryInv
<1>2. RegistryInv /\ [Next]_vars => RegistryInv'
  BY TypeStep, IndexStep DEF RegistryInv
<1> QED BY <1>1, <1>2, PTL DEF Spec, RegistryInv

-----------------------------------------------------------------------------
\* The lifetimes.

\* The clock one lap at a time.
Turn(x) == IF x < Wrap THEN x ELSE x - Wrap

\* The clock's arithmetic within two laps.
LEMMA Laps ==
  /\ \A x \in 0..(Wrap - 1) : x % Wrap = x
  /\ \A x \in Wrap..(2 * Wrap - 1) : x % Wrap = x - Wrap
  /\ \A x \in Nat : 0 < x /\ x < Wrap => (-x) % Wrap = Wrap - x
<1>1. Wrap \in Nat /\ Wrap > 0
  BY RegistryConstants
<1>2. \A x \in 0..(Wrap - 1) : x % Wrap = x
  BY <1>1
<1>3. \A x \in Wrap..(2 * Wrap - 1) : x % Wrap = x - Wrap
  BY <1>1
<1>4. \A x \in Nat : 0 < x /\ x < Wrap => (-x) % Wrap = Wrap - x
  BY <1>1
<1> QED BY <1>2, <1>3, <1>4

\* The tick a slot was stamped with is its age behind the clock, one more when
\* it was stamped at the reserved 0; and the sweep keeps ages below a lap.
StampedAt(c, seen, a) == c = Turn(seen + a) \/ (seen = 1 /\ c = a)
Stamped(seen, a) == StampedAt(clock, seen, a)

Aged ==
  \A h \in Hash, f \in Family : slot[h][f].seen # 0 =>
    age[h][f] <= TTL + sinceSweep /\ Stamped(slot[h][f].seen, age[h][f])

\* What natAge makes of a stamp when the clock is c and the slot's age a.
AgeAt(c, seen, a) ==
  IF seen = 1 /\ c = a THEN IF a = 0 THEN 0 ELSE a - 1
  ELSE IF c = 0 THEN a + 1 ELSE a

\* What natAge computes of a stamp, from the true age.
LEMMA StampedAge ==
  ASSUME NEW c \in 0..(Wrap - 1), NEW seen \in 1..(Wrap - 1), NEW a \in Nat, a + 1 < Wrap,
         StampedAt(c, seen, a)
  PROVE  NatAge(IF c = 0 THEN 1 ELSE c, seen) = AgeAt(c, seen, a)
<1> DEFINE t == IF c = 0 THEN 1 ELSE c
<1>0. Wrap \in Nat /\ Wrap > 1
  BY RegistryConstants
<1>1. CASE seen = 1 /\ c = a
  <2>1. t - seen \in 0..(Wrap - 1) /\ t - seen = IF a = 0 THEN 0 ELSE a - 1
    BY <1>0, <1>1
  <2> QED BY <1>1, <2>1, Laps DEF NatAge, AgeAt
<1>2. CASE ~(seen = 1 /\ c = a) /\ seen + a < Wrap
  <2>1. c = seen + a /\ c # 0 /\ t - seen = a /\ a \in 0..(Wrap - 1)
    BY <1>0, <1>2 DEF Turn, StampedAt
  <2> QED BY <1>2, <2>1, Laps DEF NatAge, AgeAt
<1>3. CASE ~(seen = 1 /\ c = a) /\ seen + a >= Wrap
  <2> DEFINE b == IF c = 0 THEN a + 1 ELSE a
             x == Wrap - b
  <2>1. c = (seen + a) - Wrap
    BY <1>0, <1>3 DEF Turn, StampedAt
  <2>2. t - seen = -x /\ x \in Nat /\ 0 < x /\ x < Wrap /\ Wrap - x = b
    BY <1>0, <1>3, <2>1
  <2> HIDE DEF t, x, b
  <2>3. NatAge(t, seen) = b
    BY <2>2, Laps DEF NatAge
  <2> QED BY <1>3, <2>3 DEF AgeAt, t, b
<1>4. seen + a < Wrap \/ seen + a >= Wrap
  BY <1>0
<1> QED BY Zenon, <1>1, <1>2, <1>3, <1>4

\* A stored candidate, its stamp and its age.
LEMMA SlotAge ==
  ASSUME TypeOK, Aged, NEW h \in Hash, NEW f \in Family, slot[h][f].seen # 0
  PROVE  /\ slot[h][f].seen \in 1..(Wrap - 1) /\ age[h][f] \in Nat /\ age[h][f] + 1 < Wrap
         /\ Stamped(slot[h][f].seen, age[h][f])
         /\ NatAge(Tick, slot[h][f].seen) = AgeAt(clock, slot[h][f].seen, age[h][f])
<1>1. slot[h][f].seen \in 1..(Wrap - 1)
  BY DEF TypeOK, Slot
<1>2. age[h][f] \in Nat /\ age[h][f] + 1 < Wrap
  BY RegistryConstants DEF TypeOK, Aged
<1>3. Stamped(slot[h][f].seen, age[h][f]) /\ clock \in 0..(Wrap - 1)
  BY DEF Aged, TypeOK
<1> QED BY Zenon, <1>1, <1>2, <1>3, StampedAge DEF Stamped, Tick

\* True ages and stamps in step make a slot expire on time.
LEMMA AgedExpires ==
  ASSUME TypeOK, Aged
  PROVE  ExpiresOnTime
<1> SUFFICES ASSUME NEW h \in Hash, NEW f \in Family, slot[h][f].seen # 0
             PROVE  /\ LiveSlot(slot[h][f]) => age[h][f] <= TTL
                    /\ age[h][f] + 1 < TTL => LiveSlot(slot[h][f])
  BY DEF ExpiresOnTime
<1>1. NatAge(Tick, slot[h][f].seen) = AgeAt(clock, slot[h][f].seen, age[h][f])
  BY Zenon, SlotAge
<1>2. age[h][f] \in Nat
  BY DEF TypeOK
<1> QED BY <1>1, <1>2, RegistryConstants DEF LiveSlot, AgeAt

\* A slot stamped now has age 0.
LEMMA StampedNow ==
  ASSUME clock \in 0..(Wrap - 1)
  PROVE  Stamped(Tick, 0)
BY RegistryConstants DEF Stamped, StampedAt, Turn, Tick

\* A registration stamps its slot with the present.
LEMMA SetSlotAged ==
  ASSUME TypeOK, Aged, NEW h \in Hash, NEW ep \in Endpoint, NEW v, SetSlot(h, ep, v),
         UNCHANGED <<clock, sinceSweep>>
  PROVE  Aged'
<1> SUFFICES ASSUME NEW g \in Hash, NEW k \in Family, slot'[g][k].seen # 0
             PROVE  age'[g][k] <= TTL + sinceSweep /\ Stamped(slot'[g][k].seen, age'[g][k])
  BY DEF Aged, Stamped, StampedAt, Turn
<1> DEFINE f == FamilyOf(ep)
<1>1. f \in Family
  BY FamilyType
<1>2. CASE k = f /\ g = h
  <2>1. slot'[g][k] = [ep |-> ep, seen |-> Tick] /\ age'[g][k] = 0
    BY <1>1, <1>2 DEF SetSlot, TypeOK
  <2>2. 0 <= TTL + sinceSweep
    BY RegistryConstants DEF TypeOK
  <2> QED BY <2>1, <2>2, StampedNow DEF TypeOK
<1>3. CASE k # f \/ g # h
  <2>1. slot'[g][k] = EmptySlot \/ (slot'[g][k] = slot[g][k] /\ age'[g][k] = age[g][k])
    BY <1>1, <1>3 DEF SetSlot, TypeOK
  <2> QED BY <2>1 DEF EmptySlot, Aged
<1> QED BY <1>2, <1>3

\* The clock and the stamps one tick later.
LEMMA TurnOn ==
  ASSUME NEW c \in 0..(Wrap - 1)
  PROVE  (c + 1) % Wrap = Turn(c + 1)
<1>1. CASE c + 1 \in 0..(Wrap - 1)
  <2>1. (c + 1) % Wrap = c + 1
    BY Zenon, <1>1, Laps
  <2> QED BY <1>1, <2>1, RegistryConstants DEF Turn
<1>2. CASE c + 1 \in Wrap..(2 * Wrap - 1)
  <2>1. (c + 1) % Wrap = (c + 1) - Wrap
    BY Zenon, <1>2, Laps
  <2> QED BY <1>2, <2>1, RegistryConstants DEF Turn
<1>3. c + 1 \in 0..(Wrap - 1) \/ c + 1 \in Wrap..(2 * Wrap - 1)
  BY RegistryConstants
<1> QED BY Zenon, <1>1, <1>2, <1>3

\* A stamp ages by one as the clock moves on by one, the wrap included.
LEMMA StampedOn ==
  ASSUME NEW c \in 0..(Wrap - 1), NEW seen \in 1..(Wrap - 1), NEW a \in Nat, a + 1 < Wrap,
         StampedAt(c, seen, a)
  PROVE  StampedAt(Turn(c + 1), seen, a + 1)
BY RegistryConstants DEF Turn, StampedAt

\* Every step keeps true ages and stamps in step.
LEMMA AgedStep ==
  ASSUME TypeOK, Aged, [Next]_vars
  PROVE  Aged'
<1>1. ASSUME NEW h \in Hash, NEW ep \in Endpoint,
             (\E v \in Version : Register(h, ep, v)) \/ Sync2Register(h, ep)
      PROVE  Aged'
  BY Zenon, <1>1, SetSlotAged DEF Register, Sync2Register
<1>2. ASSUME NEW ep \in Endpoint, KeepAlive(ep) PROVE Aged'
  <2> SUFFICES ASSUME NEW g \in Hash, NEW k \in Family, slot'[g][k].seen # 0
               PROVE  age'[g][k] <= TTL + sinceSweep /\ Stamped(slot'[g][k].seen, age'[g][k])
    BY <1>2 DEF Aged, Stamped, StampedAt, KeepAlive, Turn
  <2>1. byAddr[ep] \in Hash /\ FamilyOf(ep) \in Family
    BY <1>2, FamilyType DEF KeepAlive, TypeOK
  <2>2. CASE g = byAddr[ep] /\ k = FamilyOf(ep)
    <3>1. slot'[g][k] = [ep |-> ep, seen |-> Tick] /\ age'[g][k] = 0
      BY <1>2, <2>1, <2>2 DEF KeepAlive, TypeOK
    <3>2. 0 <= TTL + sinceSweep
      BY RegistryConstants DEF TypeOK
    <3> QED BY <3>1, <3>2, StampedNow DEF TypeOK
  <2>3. CASE g # byAddr[ep] \/ k # FamilyOf(ep)
    <3>1. slot'[g][k] = slot[g][k] /\ age'[g][k] = age[g][k]
      BY <1>2, <2>1, <2>3 DEF KeepAlive, TypeOK
    <3> QED BY <3>1 DEF Aged
  <2> QED BY <2>2, <2>3
<1>3. CASE Cleanup
  <2> SUFFICES ASSUME NEW g \in Hash, NEW k \in Family, slot'[g][k].seen # 0
               PROVE  age'[g][k] <= TTL + 0 /\ Stamped(slot'[g][k].seen, age'[g][k])
    BY <1>3 DEF Aged, Stamped, StampedAt, Cleanup, Turn
  <2>1. ~Dead(g, k) /\ slot'[g][k] = slot[g][k] /\ age'[g][k] = age[g][k]
    BY <1>3 DEF Cleanup, EmptySlot
  <2>2. age[g][k] <= TTL /\ age[g][k] \in Nat
    BY <2>1, AgedExpires DEF Dead, ExpiresOnTime, TypeOK
  <2> QED BY <2>1, <2>2, RegistryConstants DEF Aged
<1>4. CASE Advance
  <2> SUFFICES ASSUME NEW g \in Hash, NEW k \in Family, slot'[g][k].seen # 0
               PROVE  /\ age'[g][k] <= TTL + (sinceSweep + 1)
                      /\ StampedAt(clock', slot'[g][k].seen, age'[g][k])
    BY <1>4 DEF Aged, Stamped, StampedAt, Advance, Turn
  <2>1. slot'[g][k] = slot[g][k] /\ age'[g][k] = age[g][k] + 1
    BY <1>4 DEF Advance
  <2>2. /\ slot[g][k].seen \in 1..(Wrap - 1) /\ age[g][k] \in Nat /\ age[g][k] + 1 < Wrap
        /\ Stamped(slot[g][k].seen, age[g][k])
    BY Zenon, <2>1, SlotAge
  <2>3. clock' = Turn(clock + 1)
    BY Zenon, <1>4, TurnOn DEF Advance, TypeOK
  <2>4. age[g][k] + 1 <= TTL + (sinceSweep + 1)
    BY <2>1, <2>2, RegistryConstants DEF Aged, TypeOK
  <2>5. StampedAt(clock', slot[g][k].seen, age[g][k] + 1)
    <3>1. clock \in 0..(Wrap - 1)
      BY DEF TypeOK
    <3>2. StampedAt(Turn(clock + 1), slot[g][k].seen, age[g][k] + 1)
      BY Zenon, <2>2, <3>1, StampedOn DEF Stamped
    <3> QED BY Zenon, <2>3, <3>2
  <2> QED BY Zenon, <2>1, <2>4, <2>5
<1>5. CASE UNCHANGED vars
  BY <1>5 DEF vars, Aged, Stamped, StampedAt, Turn
<1> QED BY Zenon, <1>1, <1>2, <1>3, <1>4, <1>5 DEF Next

\* The empty registry.
LEMMA RegistryInit ==
  ASSUME Init
  PROVE  TypeOK /\ Aged
<1>1. EmptySlot \in Slot /\ 0 \in Version /\ 0 \in 0..(Wrap - 1) /\ 0 \in 0..SweepEvery
  BY RegistryConstants DEF EmptySlot, Slot
<1> QED BY <1>1 DEF Init, TypeOK, Aged, EmptySlot

\* A candidate is handed out for its lifetime and no longer, to within one
\* tick, also when the 32-bit tick wraps while it is stored: the sweep comes
\* before its age could be taken for a small one.
THEOREM ExpiresOnTimeCorrect == Spec => []ExpiresOnTime
<1>1. TypeOK /\ Aged /\ [Next]_vars => (TypeOK /\ Aged)'
  BY Zenon, TypeStep, AgedStep
<1>2. TypeOK /\ Aged => ExpiresOnTime
  BY Zenon, AgedExpires
<1> QED BY <1>1, <1>2, RegistryInit, PTL DEF Spec

\* Time alone does not revive a candidate.
LEMMA AdvanceKeepsDead ==
  ASSUME TypeOK, Aged, Aged', Advance, NEW h \in Hash, NEW f \in Family,
         slot[h][f].seen # 0, LiveSlot(slot[h][f])'
  PROVE  LiveSlot(slot[h][f])
<1>1. slot'[h][f] = slot[h][f] /\ age'[h][f] = age[h][f] + 1
  BY DEF Advance
<1>2. /\ slot[h][f].seen \in 1..(Wrap - 1) /\ age[h][f] \in Nat /\ age[h][f] + 1 < Wrap
      /\ Stamped(slot[h][f].seen, age[h][f])
      /\ NatAge(Tick, slot[h][f].seen) = AgeAt(clock, slot[h][f].seen, age[h][f])
  BY Zenon, SlotAge
<1> DEFINE s == slot[h][f].seen
           a == age[h][f]
<1>3. clock' \in 0..(Wrap - 1) /\ clock' = Turn(clock + 1) /\ clock \in 0..(Wrap - 1)
  <2>1. clock \in 0..(Wrap - 1) /\ clock' = Turn(clock + 1)
    BY Zenon, TurnOn DEF Advance, TypeOK
  <2> QED BY <2>1, RegistryConstants DEF Turn
<1>4. a + 1 \in Nat /\ (a + 1) + 1 < Wrap /\ StampedAt(clock', s, a + 1)
  <2>1. /\ age'[h][f] <= TTL + sinceSweep'
        /\ StampedAt(clock', slot'[h][f].seen, age'[h][f])
    BY Zenon, <1>1 DEF Aged, Stamped, StampedAt, Turn
  <2>2. sinceSweep' \in Nat /\ sinceSweep' <= SweepEvery
    BY RegistryConstants DEF Advance, TypeOK
  <2> QED BY <1>1, <1>2, <2>1, <2>2, RegistryConstants
<1>5. NatAge(IF clock' = 0 THEN 1 ELSE clock', s) = AgeAt(clock', s, a + 1)
  BY Zenon, <1>2, <1>3, <1>4, StampedAge
<1>6. AgeAt(clock', s, a + 1) < TTL
  BY <1>1, <1>5 DEF LiveSlot, Tick
<1> HIDE DEF s, a
<1>7. ASSUME NEW c \in 0..(Wrap - 1), NEW u \in 1..(Wrap - 1), NEW b \in Nat, (b + 1) + 1 < Wrap,
             StampedAt(c, u, b), AgeAt(Turn(c + 1), u, b + 1) < TTL
      PROVE  AgeAt(c, u, b) < TTL
  BY <1>7, RegistryConstants DEF AgeAt, Turn, StampedAt
<1>8. AgeAt(clock, s, a) < TTL
  BY Zenon, <1>2, <1>3, <1>4, <1>6, <1>7 DEF Stamped, s, a
<1> QED BY <1>2, <1>8 DEF LiveSlot, s, a

\* An expired candidate is handed out again only after a REGISTER or a SYNC2 of
\* its hash, from an address of its session.
THEOREM NoRevivalCorrect == Spec => NoRevival
<1> DEFINE Revived(h, f) == slot[h][f].seen # 0 /\ ~LiveSlot(slot[h][f]) /\ LiveSlot(slot[h][f])'
           Again(h, f) == \E ep \in SessionAddrs[h] : FamilyOf(ep) = f /\ slot'[h][f] = [ep |-> ep, seen |-> Tick]
<1>1. ASSUME TypeOK, Aged, [Next]_vars, NEW h \in Hash, NEW f \in Family, Revived(h, f)
      PROVE  Again(h, f)
  <2>1. ASSUME UNCHANGED clock, slot'[h][f] = slot[h][f] PROVE FALSE
    BY <1>1, <2>1 DEF LiveSlot, Tick
  <2>2. ASSUME slot'[h][f] = EmptySlot PROVE FALSE
    BY <1>1, <2>2 DEF LiveSlot, EmptySlot
  <2>3. ASSUME NEW g \in Hash, NEW ep \in Endpoint, NEW v, SetSlot(g, ep, v), RegisterAllowed(g, ep), UNCHANGED clock
        PROVE  Again(h, f)
    <3>1. FamilyOf(ep) \in Family
      BY FamilyType
    <3>2. CASE g = h /\ FamilyOf(ep) = f
      <4>1. slot'[h][f] = [ep |-> ep, seen |-> Tick]
        BY <1>1, <2>3, <3>1, <3>2 DEF SetSlot, TypeOK
      <4> QED BY Zenon, <2>3, <3>2, <4>1 DEF RegisterAllowed
    <3>3. CASE g # h \/ FamilyOf(ep) # f
      <4>1. slot'[h][f] = EmptySlot \/ slot'[h][f] = slot[h][f]
        BY <1>1, <2>3, <3>1, <3>3 DEF SetSlot, TypeOK
      <4> QED BY Zenon, <2>1, <2>2, <2>3, <4>1
    <3> QED BY <3>2, <3>3
  <2>4. ASSUME NEW ep \in Endpoint, KeepAlive(ep) PROVE Again(h, f)
    <3>1. byAddr[ep] \in Hash /\ FamilyOf(ep) \in Family /\ LiveSlot(slot[byAddr[ep]][FamilyOf(ep)]) /\ UNCHANGED clock
      BY <1>1, <2>4, FamilyType DEF KeepAlive, TypeOK
    <3>2. ~(h = byAddr[ep] /\ f = FamilyOf(ep))
      BY <1>1, <3>1
    <3>3. slot'[h][f] = slot[h][f]
      BY <1>1, <2>4, <3>1, <3>2 DEF KeepAlive, TypeOK
    <3> QED BY Zenon, <2>1, <3>1, <3>3
  <2>5. CASE Cleanup
    <3>1. UNCHANGED clock /\ (slot'[h][f] = EmptySlot \/ slot'[h][f] = slot[h][f])
      BY <1>1, <2>5 DEF Cleanup
    <3> QED BY Zenon, <2>1, <2>2, <3>1
  <2>6. CASE Advance
    BY Zenon, <1>1, <2>6, AgedStep, AdvanceKeepsDead
  <2>7. CASE UNCHANGED vars
    BY <2>1, <2>7 DEF vars
  <2> QED BY Zenon, <1>1, <2>3, <2>4, <2>5, <2>6, <2>7 DEF Next, Register, Sync2Register
<1>2. TypeOK /\ Aged /\ [Next]_vars =>
        [\A h \in Hash, f \in Family :
           /\ slot[h][f].seen # 0 /\ ~LiveSlot(slot[h][f])
           /\ LiveSlot(slot[h][f])'
           => \E ep \in SessionAddrs[h] : FamilyOf(ep) = f /\ slot'[h][f] = [ep |-> ep, seen |-> Tick]]_vars
  BY Zenon, <1>1
<1>3. TypeOK /\ Aged /\ [Next]_vars => (TypeOK /\ Aged)'
  BY Zenon, TypeStep, AgedStep
<1> QED BY <1>2, <1>3, RegistryInit, PTL DEF Spec, NoRevival
==============================================================================
