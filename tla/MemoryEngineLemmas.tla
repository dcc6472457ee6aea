------------------------- MODULE MemoryEngineLemmas -------------------------
(***************************************************************************)
(* The inductive invariant of MemoryEngine, and that storing files and     *)
(* putting or removing sources leaves any sound engine sound.  The rest of *)
(* the operations, and the theorems, are in MemoryEngineProofs.            *)
(*                                                                         *)
(* The invariant IInv has three parts: the engine is Sound, the sources    *)
(* there are belong to sessions connected or leaving (Owned), and the walk *)
(* has counted the file it watches when it passed its record (Walked).     *)
(* What an operation does beyond keeping an engine sound is given by a     *)
(* definition of its own: Grown, Sourcing and Removing here.               *)
(*                                                                         *)
(* Loops and chains are functions defined by recursion.  What they keep is *)
(* proved from the least place where it would fail (Least, Induct and      *)
(* Recursion); a part of a list is described by its elements (In) and      *)
(* their positions (Places, SublistElements).                              *)
(***************************************************************************)
EXTENDS MemoryEngine, FiniteSetTheorems, TLAPS

----------------------------------------------------------------------------
(* The inductive invariant *)

Source == [peer : Session, addr : Addr, size : Nat]
Name == {n \in SUBSET Word : IsFiniteSet(n)}
Record == [live : BOOLEAN, hash : Hash, size : Nat, name : Name, next : Nat,
           sib : BOOLEAN, src : Seq(Source)]
Lists == UNION {[D -> Seq(Nat)] : D \in SUBSET Session}
Engine == [recs : Seq(Record), files : [Hash -> Nat], count : Int,
           dead : Seq(Nat), free : Seq(Nat), post : [Word -> SUBSET Nat],
           entries : Int, live : Int, layout : Nat, clients : Lists]
In(list, i) == \E k \in DOMAIN list : list[k] = i
Distinct(list) == \A j, k \in DOMAIN list : list[j] = list[k] => j = k

\* A slot is live, dead or free, once, and the count is the live ones'.
Slots(E) ==
    /\ Distinct(E.dead) /\ Distinct(E.free)
    /\ \A i \in Nat : In(E.dead, i) => ~In(E.free, i)
    /\ \A i \in Nat : In(E.dead, i) \/ In(E.free, i) <=> i \in DOMAIN E.recs /\ ~E.recs[i].live
    /\ \A i \in DOMAIN E.recs : ~E.recs[i].live => E.recs[i].next = 0 /\ E.recs[i].src = <<>>
    /\ E.count = Cardinality(Live(E))

\* c is the chain of hash h: every live record of the hash, linked from the first
\* to the last, each size once, all but the first siblings.
Chained(E, h, c) ==
    /\ c \in Seq(DOMAIN E.recs)
    /\ E.files[h] = IF c = <<>> THEN 0 ELSE c[1]
    /\ \A k \in DOMAIN c :
         /\ E.recs[c[k]].live /\ E.recs[c[k]].hash = h /\ (E.recs[c[k]].sib <=> k > 1)
         /\ E.recs[c[k]].next = IF k = Len(c) THEN 0 ELSE c[k + 1]
    /\ \A j, k \in DOMAIN c : j # k => E.recs[c[j]].size # E.recs[c[k]].size
    /\ \A i \in DOMAIN E.recs : E.recs[i].live /\ E.recs[i].hash = h => In(c, i)
Chains(E) == \A h \in Hash : Chained(E, h, Chain(E, h))

\* The posting lists hold what they must, and the counters count them.
Index(E) ==
    /\ \A i \in Live(E) : \A w \in E.recs[i].name : i \in E.post[w]
    /\ \A w \in Word : \A i \in E.post[w] : i \in DOMAIN E.recs /\ ~In(E.free, i)
    /\ IsFiniteSet(Entries(E)) /\ E.entries = Cardinality(Entries(E))
    /\ E.live = Cardinality(Named(E))

\* The sources of a first record: sessions that logged in with these addresses,
\* each session and each address once.
SourceList(A, list) ==
    /\ \A k \in DOMAIN list : list[k].peer \in DOMAIN A /\ list[k].addr = A[list[k].peer]
    /\ \A j, k \in DOMAIN list :
         list[j].peer = list[k].peer \/ list[j].addr = list[k].addr => j = k
Sourced(A, E) ==
    \A i \in DOMAIN E.recs :
        /\ SourceList(A, E.recs[i].src)
        /\ E.recs[i].src # <<>> => E.recs[i].live /\ ~E.recs[i].sib
Has(list, s) == \E k \in DOMAIN list : list[k].peer = s

\* The offered list of a session names the records whose sources name the session.
Offered(E) ==
    \A s \in DOMAIN E.clients :
        /\ Distinct(E.clients[s])
        /\ \A i \in Nat : In(E.clients[s], i) <=> i \in DOMAIN E.recs /\ Has(E.recs[i].src, s)
Sound(A, E) == E \in Engine /\ Slots(E) /\ Chains(E) /\ Index(E) /\ Sourced(A, E) /\ Offered(E)

\* Whose sources there are, and what a session that leaves still has to reach.
Owned ==
    /\ addr \in Seq(Addr) /\ Len(addr) <= MaxSession
    /\ DOMAIN eng.clients \subseteq DOMAIN addr /\ DOMAIN leaving \subseteq DOMAIN addr
    /\ \A s \in DOMAIN leaving :
         /\ s \notin DOMAIN eng.clients
         /\ leaving[s] \in [list : Seq(Nat), layout : Nat] /\ leaving[s].layout <= eng.layout
    /\ \A i \in DOMAIN eng.recs : \A s \in Session :
         Has(eng.recs[i].src, s) =>
            \/ s \in DOMAIN eng.clients
            \/ /\ s \in DOMAIN leaving
               /\ leaving[s].layout # eng.layout \/ In(leaving[s].list, i)

\* The walk has passed the record of the file it watches, and reported it, or not.
Walked ==
    /\ walk \in [on : BOOLEAN, layout : Nat, next : Nat \ {0}, file : SUBSET [hash : Hash, size : Nat],
                 times : Nat]
    /\ ~walk.on => walk.times = 1 /\ walk.file = {}
    /\ walk.on =>
         /\ walk.layout <= eng.layout
         /\ walk.layout = eng.layout =>
              \E i \in DOMAIN eng.recs :
                 /\ eng.recs[i].live /\ walk.file = {File(eng.recs[i])}
                 /\ walk.file \subseteq Served(eng)
                 /\ walk.times = IF i < walk.next THEN 1 ELSE 0
IInv == Sound(addr, eng) /\ Owned /\ Walked

----------------------------------------------------------------------------
(* Lists, and functions defined by recursion *)

\* A set of numbers has a least one.
LEMMA Least ==
    ASSUME NEW T, T \subseteq Nat, T # {}
    PROVE  \E x \in T : \A y \in T : x <= y
<1> DEFINE R == OpToRel(<, Nat)
<1>1. \A x, y \in Nat : x < y => <<x, y>> \in R
  BY DEF OpToRel
<1>2. IsWellFoundedOn(R, Nat)
  BY NatLessThanWellFounded
<1> HIDE DEF R
<1>3. PICK x \in T : \A y \in T : ~ (<<y, x>> \in R)
  BY <1>2, WFMin
<1>4. \A y \in T : ~(y < x)
  BY <1>1, <1>3
<1>5. \A y \in T : x <= y
  BY <1>4
<1> QED
  BY <1>5

\* The members of a set of positions have places 1, 2 and so on, in their order.
LEMMA Places ==
    ASSUME NEW n \in Nat, NEW I \in SUBSET (1..n)
    PROVE  /\ IsFiniteSet(I) /\ Cardinality(I) \in 0..n
           /\ \A i \in I : Place(I, i) \in 1..Cardinality(I)
           /\ \A i, j \in I : i < j => Place(I, i) < Place(I, j)
           /\ \A k \in 1..Cardinality(I) : Member(I, k) \in I /\ Place(I, Member(I, k)) = k
<1> DEFINE Upto(i) == {m \in I : m <= i}
           c == Cardinality(I)
<1> IsFiniteSet(I) /\ c \in 0..n
  <2> IsFiniteSet(1..n) /\ Cardinality(1..n) = n
    BY FS_Interval
  <2> IsFiniteSet(I) /\ c <= Cardinality(1..n)
    BY FS_Subset
  <2> c \in Nat
    BY FS_CardinalityType
  <2> QED
    OBVIOUS
<1> \A i \in I : IsFiniteSet(Upto(i)) /\ Place(I, i) \in 1..c
  <2> SUFFICES ASSUME NEW i \in I
               PROVE  IsFiniteSet(Upto(i)) /\ Cardinality(Upto(i)) \in 1..c
    BY DEF Place
  <2> Upto(i) \in SUBSET I /\ i \in Upto(i)
    OBVIOUS
  <2> HIDE DEF Upto
  <2> IsFiniteSet(Upto(i)) /\ Cardinality(Upto(i)) <= c
    BY FS_Subset
  <2> Cardinality(Upto(i)) \in Nat
    BY FS_CardinalityType
  <2> Cardinality(Upto(i)) # 0
    BY FS_EmptySet
  <2> QED
    OBVIOUS
<1>1. \A i, j \in I : i < j => Place(I, i) < Place(I, j)
  <2> SUFFICES ASSUME NEW i \in I, NEW j \in I, i < j
               PROVE  Place(I, i) < Place(I, j)
    OBVIOUS
  <2> i \in Nat /\ j \in Nat /\ \A m \in I : m \in Nat
    OBVIOUS
  <2> j \in Upto(j) /\ j \notin Upto(i) /\ \A m \in Upto(i) : m \in Upto(j)
    OBVIOUS
  <2> IsFiniteSet(Upto(j)) /\ Place(I, j) \in 1..c /\ Place(I, i) \in 1..c
    OBVIOUS
  <2> Place(I, j) \in Nat /\ Place(I, i) \in Nat
    OBVIOUS
  <2> Place(I, i) = Cardinality(Upto(i)) /\ Place(I, j) = Cardinality(Upto(j))
    BY DEF Place
  <2> HIDE DEF Upto
  <2> Place(I, i) <= Place(I, j) /\ Place(I, i) # Place(I, j)
    BY FS_Subset
  <2> QED
    OBVIOUS
<1> HIDE DEF c
<1>2. \A k \in 1..c : \E i \in I : Place(I, i) = k
  <2> DEFINE p == [i \in I |-> Place(I, i)]
  <2> p \in [I -> 1..c]
    OBVIOUS
  <2> \A i, j \in I : Place(I, i) = Place(I, j) => i = j
    <3> SUFFICES ASSUME NEW i \in I, NEW j \in I, Place(I, i) = Place(I, j)
                 PROVE  i = j
      OBVIOUS
    <3> Place(I, i) \in 1..c
      OBVIOUS
    <3> i \in Nat /\ j \in Nat /\ Place(I, i) \in Nat
      OBVIOUS
    <3> QED
      BY <1>1
  <2> c \in Nat /\ IsFiniteSet(1..c) /\ Cardinality(1..c) = c
    BY FS_Interval
  <2> p \in Injection(I, 1..c)
    BY DEF Injection, IsInjective
  <2> HIDE DEF p
  <2> p \in Surjection(I, 1..c)
    BY FS_Injection DEF c
  <2> \A k \in 1..c : \E i \in I : p[i] = k
    BY DEF Surjection
  <2> QED
    BY DEF p
<1>3. \A k \in 1..c : Member(I, k) \in I /\ Place(I, Member(I, k)) = k
  BY <1>2 DEF Member
<1> QED
  BY <1>1, <1>3 DEF c

\* A part of a list has the elements at the positions kept, in their order, and
\* no others.
LEMMA SublistEmbeds ==
    ASSUME NEW S, NEW list \in Seq(S), NEW I \in SUBSET DOMAIN list
    PROVE  /\ Sublist(list, I) \in Seq(S) /\ Len(Sublist(list, I)) = Cardinality(I)
           /\ Cardinality(I) \in 0..Len(list)
           /\ \A k \in 1..Cardinality(I) : Member(I, k) \in I /\ Sublist(list, I)[k] = list[Member(I, k)]
           /\ \A j, k \in 1..Cardinality(I) : j < k => Member(I, j) < Member(I, k)
           /\ \A i \in I : Place(I, i) \in 1..Cardinality(I) /\ Sublist(list, I)[Place(I, i)] = list[i]
<1>1. Len(list) \in Nat /\ I \in SUBSET (1..Len(list))
  OBVIOUS
<1> DEFINE c == Cardinality(I)
<1> /\ c \in 0..Len(list)
    /\ \A i \in I : Place(I, i) \in 1..c
    /\ \A i, j \in I : i < j => Place(I, i) < Place(I, j)
    /\ \A k \in 1..c : Member(I, k) \in I /\ Place(I, Member(I, k)) = k
  BY <1>1, Places
<1>2. \A j, k \in 1..c : j < k => Member(I, j) < Member(I, k)
  <2> SUFFICES ASSUME NEW j \in 1..c, NEW k \in 1..c, j < k
               PROVE  Member(I, j) < Member(I, k)
    OBVIOUS
  <2> Member(I, j) \in 1..Len(list) /\ Member(I, k) \in 1..Len(list)
    BY <1>1
  <2> QED
    BY <1>1
<1>3. \A i \in I : Member(I, Place(I, i)) = i
  <2> SUFFICES ASSUME NEW i \in I
               PROVE  Member(I, Place(I, i)) = i
    OBVIOUS
  <2> Member(I, Place(I, i)) \in I /\ Place(I, Member(I, Place(I, i))) = Place(I, i)
    OBVIOUS
  <2> i \in Nat /\ Member(I, Place(I, i)) \in Nat /\ Place(I, i) \in Nat
    BY <1>1
  <2> QED
    OBVIOUS
<1>4. c \in Nat /\ \A k \in 1..c : list[Member(I, k)] \in S
  BY <1>1
<1> HIDE DEF c
<1>5. Sublist(list, I) = [k \in 1..c |-> list[Member(I, k)]]
  BY DEF Sublist, c
<1>6. Sublist(list, I) \in Seq(S) /\ Len(Sublist(list, I)) = c
  BY <1>4, <1>5
<1>7. \A i \in I : Sublist(list, I)[Place(I, i)] = list[i]
  BY <1>3, <1>5
<1>8. \A k \in 1..c : Sublist(list, I)[k] = list[Member(I, k)]
  BY <1>5
<1> QED
  BY <1>2, <1>6, <1>7, <1>8 DEF c

\* The numbers up to n are n.
LEMMA Interval ==
    ASSUME NEW n \in Nat
    PROVE  IsFiniteSet(1..n) /\ Cardinality(1..n) = n
  BY FS_Interval

\* The elements of a part of a list are those at its positions, each as often.
LEMMA SublistElements ==
    ASSUME NEW S, NEW list \in Seq(S), NEW I \in SUBSET DOMAIN list
    PROVE  /\ Sublist(list, I) \in Seq(S)
           /\ \A x : In(Sublist(list, I), x) <=> \E i \in I : list[i] = x
           /\ Distinct(list) => Distinct(Sublist(list, I))
<1> DEFINE c == Cardinality(I)
           sub == Sublist(list, I)
<1>1. /\ sub \in Seq(S) /\ Len(sub) = c /\ c \in 0..Len(list)
      /\ \A k \in 1..c : Member(I, k) \in I /\ sub[k] = list[Member(I, k)]
      /\ \A j, k \in 1..c : j < k => Member(I, j) < Member(I, k)
      /\ \A i \in I : Place(I, i) \in 1..c /\ sub[Place(I, i)] = list[i]
  BY Zenon, SublistEmbeds
<1> HIDE DEF sub
<1>2. DOMAIN sub = 1..c /\ c \in Nat /\ \A i \in I : i \in Nat
  BY <1>1
<1>3. \A x : In(sub, x) <=> \E i \in I : list[i] = x
  BY Zenon, <1>1, <1>2 DEF In
<1>4. ASSUME Distinct(list) PROVE Distinct(sub)
  <2> SUFFICES ASSUME NEW j \in 1..c, NEW k \in 1..c, sub[j] = sub[k]
               PROVE  j = k
    BY Zenon, <1>2 DEF Distinct
  <2> Member(I, j) = Member(I, k) /\ Member(I, j) \in Nat
    BY ZenonT(30), <1>1, <1>2, <1>4 DEF Distinct
  <2> j \in Nat /\ k \in Nat
    BY <1>2
  <2> QED BY <1>1
<1> QED BY Zenon, <1>1, <1>3, <1>4 DEF sub

\* Without the first of at most one position: without that position.
LEMMA DropFirstElements ==
    ASSUME NEW S, NEW list \in Seq(S), NEW K \in SUBSET DOMAIN list,
           \A j, k \in K : j = k
    PROVE  DropFirst(list, K) = Sublist(list, DOMAIN list \ K)
<1>1. \A k \in K : k \in Nat
  OBVIOUS
<1>2. \A k \in K : ~(\E j \in K : j < k)
  BY <1>1
<1>3. {k \in DOMAIN list : k \in K => \E j \in K : j < k} = DOMAIN list \ K
  BY Zenon, <1>2
<1> QED BY Zenon, <1>3 DEF DropFirst

\* A list without repetitions in which every element is below n is no longer than n.
LEMMA DistinctShort ==
    ASSUME NEW n \in Nat, NEW c \in Seq(1..n), Distinct(c)
    PROVE  Len(c) <= n
<1>1. IsFiniteSet(1..n) /\ Cardinality(1..n) = n
  BY FS_Interval
<1>2. IsFiniteSet(1..Len(c)) /\ Cardinality(1..Len(c)) = Len(c) /\ Len(c) \in Nat
  BY FS_Interval
<1>3. c \in [1..Len(c) -> 1..n] /\ DOMAIN c = 1..Len(c)
  OBVIOUS
<1>4. SUFFICES ASSUME n < Len(c) PROVE FALSE
  BY <1>2
<1>5. \E x, y \in 1..Len(c) : x # y /\ c[x] = c[y]
  BY <1>1, <1>2, <1>3, <1>4, FS_PigeonHole
<1> QED BY Zenon, <1>3, <1>5 DEF Distinct

\* What holds at 0 and goes over to the next number holds up to n.
LEMMA Induct ==
    ASSUME NEW m \in Nat, NEW P, 0 \in P, \A n \in 1..m : n - 1 \in P => n \in P
    PROVE  \A n \in 0..m : n \in P
<1> DEFINE T == {n \in 0..m : n \notin P}
<1>1. T \subseteq Nat
  OBVIOUS
<1>2. SUFFICES ASSUME T # {} PROVE FALSE
  BY Zenon
<1> PICK n \in T : \A l \in T : n <= l
  <2> HIDE DEF T
  <2> QED BY Zenon, <1>1, <1>2, Least
<1>3. n \in 1..m /\ n - 1 \in 0..m /\ ~(n <= n - 1)
  OBVIOUS
<1>4. n - 1 \in P
  BY Zenon, <1>3
<1> QED BY Zenon, <1>3, <1>4

\* A function defined by recursion on 0..m is there, and what holds of its first
\* value and is kept by each step holds of all.
Steps(m, S, step) == \A n \in 1..m : \A x \in S[n - 1] : step[n][x] \in S[n]
Runs(m, S, a, step, g) ==
    /\ g = [n \in 0..m |-> IF n = 0 THEN a ELSE step[n][g[n - 1]]]
    /\ \A n \in 0..m : g[n] \in S[n]

\* Such a function exists, and stays within S.
LEMMA Recursion ==
    ASSUME NEW m \in Nat, NEW S, NEW a, a \in S[0], NEW step, Steps(m, S, step)
    PROVE  \E g : Runs(m, S, a, step, g)
<1> USE DEF Steps, Runs
<1> DEFINE Good(k, g) == /\ g = [n \in 0..k |-> IF n = 0 THEN a ELSE step[n][g[n - 1]]]
                         /\ \A n \in 0..k : g[n] \in S[n]
           T == {k \in 0..m : ~\E g : Good(k, g)}
<1> HIDE DEF Good
<1> HIDE DEF T
<1>1. m \in 0..m
  OBVIOUS
<1>2. SUFFICES ASSUME T # {} PROVE FALSE
  BY Zenon, <1>1 DEF T, Good
<1>3. T \subseteq Nat
  BY DEF T
<1>4. PICK k \in T : \A l \in T : k <= l
  BY Zenon, <1>2, <1>3, Least
<1>5. k \in 0..m /\ k \in Nat /\ ~\E g : Good(k, g)
  BY <1>4 DEF T
<1>6. CASE k = 0
  <2> DEFINE g == [n \in 0..0 |-> a]
  <2> g = [n \in 0..0 |-> IF n = 0 THEN a ELSE step[n][g[n - 1]]]
    OBVIOUS
  <2> \A n \in 0..0 : g[n] \in S[n]
    OBVIOUS
  <2> QED BY Zenon, <1>5, <1>6 DEF Good
<1>7. CASE k # 0
  <2> k - 1 \in 0..m /\ k - 1 \notin T
    BY <1>4, <1>5, <1>7
  <2> PICK f : Good(k - 1, f)
    BY Zenon DEF T
  <2> DEFINE g == [n \in 0..k |-> IF n = k THEN step[k][f[k - 1]] ELSE f[n]]
  <2> f[k - 1] \in S[k - 1] /\ k \in 1..m
    BY <1>5, <1>7 DEF Good
  <2> step[k][f[k - 1]] \in S[k]
    BY Zenon
  <2> \A n \in 0..k : g[n] \in S[n]
    <3> \A n \in 0..k : n # k => n \in 0..(k - 1)
      BY <1>5
    <3> \A n \in 0..(k - 1) : f[n] \in S[n]
      BY Zenon DEF Good
    <3> QED BY Zenon
  <2> \A n \in 0..k : g[n] = IF n = 0 THEN a ELSE step[n][g[n - 1]]
    <3> SUFFICES ASSUME NEW n \in 0..k
                 PROVE  g[n] = IF n = 0 THEN a ELSE step[n][g[n - 1]]
      OBVIOUS
    <3> CASE n = k
      BY <1>5, <1>7
    <3> CASE n # k
      <4> n \in 0..(k - 1)
        BY <1>5
      <4> f[n] = IF n = 0 THEN a ELSE step[n][f[n - 1]]
        BY DEF Good
      <4> n # 0 => n - 1 \in 0..k /\ n - 1 # k
        BY <1>5
      <4> QED OBVIOUS
    <3> QED OBVIOUS
  <2> Good(k, g)
    BY DEF Good
  <2> QED BY Zenon, <1>5
<1> QED BY <1>6, <1>7

\* The sessions' offered lists, as a set of functions.
LEMMA ListsAre ==
    /\ \A C \in Lists : /\ DOMAIN C \subseteq Session /\ C = [s \in DOMAIN C |-> C[s]]
                        /\ \A s \in DOMAIN C : C[s] \in Seq(Nat)
    /\ \A D \in SUBSET Session : \A C \in [D -> Seq(Nat)] : C \in Lists
<1>1. ASSUME NEW C \in Lists
      PROVE  /\ DOMAIN C \subseteq Session /\ C = [s \in DOMAIN C |-> C[s]]
             /\ \A s \in DOMAIN C : C[s] \in Seq(Nat)
  <2> PICK D \in SUBSET Session : C \in [D -> Seq(Nat)]
    BY Zenon DEF Lists
  <2> QED BY Zenon
<1>2. \A D \in SUBSET Session : \A C \in [D -> Seq(Nat)] : C \in Lists
  BY Zenon DEF Lists
<1> QED BY Zenon, <1>1, <1>2

\* Two lists, one after the other.
Joins(c, d, e) ==
    /\ \A i : In(e, i) <=> In(c, i) \/ In(d, i)
    /\ Distinct(c) /\ Distinct(d) /\ (\A i : In(c, i) => ~In(d, i)) => Distinct(e)

\* The elements of two lists put together.
LEMMA JoinLists ==
    ASSUME NEW S, NEW c \in Seq(S), NEW d \in Seq(S)
    PROVE  c \o d \in Seq(S) /\ Joins(c, d, c \o d)
<1> DEFINE e == c \o d
           n == Len(c)
<1>1. /\ e \in Seq(S) /\ n \in Nat /\ DOMAIN c = 1..n /\ DOMAIN d = 1..Len(d) /\ Len(d) \in Nat
      /\ \A k \in DOMAIN c : k \in DOMAIN e /\ e[k] = c[k]
      /\ \A k \in DOMAIN d : n + k \in DOMAIN e /\ e[n + k] = d[k]
      /\ DOMAIN e = 1..(n + Len(d))
  OBVIOUS
<1> HIDE DEF e, n
<1>2. ASSUME NEW k \in DOMAIN e PROVE k \in DOMAIN c \/ \E j \in DOMAIN d : k = n + j
  <2> k \in DOMAIN c \/ (k - n \in DOMAIN d /\ k = n + (k - n))
    BY <1>1
  <2> QED BY Zenon
<1>3. \A i : In(e, i) <=> In(c, i) \/ In(d, i)
  BY Zenon, <1>1, <1>2 DEF In
<1> ASSUME Distinct(c), Distinct(d), \A i : In(c, i) => ~In(d, i) PROVE Distinct(e)
  <2> SUFFICES ASSUME NEW j \in DOMAIN e, NEW k \in DOMAIN e, e[j] = e[k] PROVE j = k
    BY Zenon DEF Distinct
  <2> CASE j \in DOMAIN c /\ k \in DOMAIN c
    BY Zenon, <1>1 DEF Distinct
  <2> CASE j \in DOMAIN c /\ k \notin DOMAIN c
    <3> PICK l \in DOMAIN d : k = n + l
      BY Zenon, <1>2
    <3> c[j] = d[l]
      BY Zenon, <1>1
    <3> In(c, c[j]) /\ In(d, c[j])
      BY Zenon DEF In
    <3> QED BY Zenon
  <2> CASE j \notin DOMAIN c /\ k \in DOMAIN c
    <3> PICK l \in DOMAIN d : j = n + l
      BY Zenon, <1>2
    <3> c[k] = d[l]
      BY Zenon, <1>1
    <3> In(c, c[k]) /\ In(d, c[k])
      BY Zenon DEF In
    <3> QED BY Zenon
  <2> CASE j \notin DOMAIN c /\ k \notin DOMAIN c
    <3> PICK a \in DOMAIN d : j = n + a
      BY Zenon, <1>2
    <3> PICK b \in DOMAIN d : k = n + b
      BY Zenon, <1>2
    <3> d[a] = d[b]
      BY Zenon, <1>1
    <3> QED BY Zenon DEF Distinct
  <2> QED BY Zenon
<1> QED BY Zenon, <1>1, <1>3 DEF Joins, e

----------------------------------------------------------------------------
(* What it says of the engine *)

USE Zenon

\* A list of elements of T.
LEMMA SeqInto ==
    ASSUME NEW S, NEW T, NEW list \in Seq(S), \A k \in DOMAIN list : list[k] \in T
    PROVE  list \in Seq(T)
  BY SMT

\* The same, with the elements given by In.
LEMMA SeqWithin ==
    ASSUME NEW S, NEW T, NEW list \in Seq(S), \A i : In(list, i) => i \in T
    PROVE  list \in Seq(T)
<1>1. \A k \in DOMAIN list : list[k] \in T
  BY DEF In
<1> QED BY <1>1, SeqInto

\* The elements of a list, as the properties have them and as the proofs do.
LEMMA RangeIn ==
    \A list, i : i \in Range(list) <=> In(list, i)
  BY DEF Range, In

\* The offered lists, from the invariant.
LEMMA OfferedFollows ==
    ASSUME IInv
    PROVE  OfferedExact
<1> SUFFICES ASSUME NEW s \in DOMAIN eng.clients
             PROVE  /\ Range(eng.clients[s]) = {i \in Live(eng) :
                            \E k \in DOMAIN eng.recs[i].src : eng.recs[i].src[k].peer = s}
                    /\ IsInjective(eng.clients[s])
  BY DEF OfferedExact
<1> DEFINE list == eng.clients[s]
<1> eng \in Engine /\ Sourced(addr, eng) /\ Offered(eng)
  BY DEF IInv, Sound
<1>1. eng.recs \in Seq(Record) /\ eng.clients \in Lists
  BY DEF Engine
<1>2. list \in Seq(Nat)
  BY <1>1, ListsAre
<1>3. \A i : In(list, i) => i \in Nat
  <2> \A k \in DOMAIN list : list[k] \in Nat
    BY SMT, <1>2
  <2> QED BY DEF In
<1>4. \A i \in DOMAIN eng.recs : i \in Nat
  BY SMT, <1>1
<1>5. \A i \in DOMAIN eng.recs : Has(eng.recs[i].src, s) => eng.recs[i].live
  <2> DOMAIN <<>> = {}
    BY SMT
  <2> QED BY DEF Has, Sourced
<1>6. \A i : i \in Range(list) <=> i \in DOMAIN eng.recs /\ Has(eng.recs[i].src, s)
  BY <1>3, <1>4, RangeIn DEF Offered
<1>7. \A i : i \in Range(list) <=> i \in Live(eng) /\ Has(eng.recs[i].src, s)
  BY <1>5, <1>6 DEF Live
<1>8. IsInjective(list)
  BY DEF Offered, Distinct, IsInjective
<1> QED BY <1>7, <1>8 DEF Has

\* The sources.
LEMMA SourcesFollow ==
    ASSUME IInv
    PROVE  SourcesExact
<1> SUFFICES ASSUME NEW i \in DOMAIN eng.recs, NEW j \in DOMAIN eng.recs[i].src
             PROVE  LET x == eng.recs[i].src[j]
                        s == x.peer
                    IN
                    /\ \/ s \in DOMAIN eng.clients
                       \/ /\ s \in DOMAIN leaving
                          /\ leaving[s].layout # eng.layout \/ i \in Range(leaving[s].list)
                    /\ \A k \in DOMAIN eng.recs[i].src \ {j} :
                         eng.recs[i].src[k].peer # x.peer /\ eng.recs[i].src[k].addr # x.addr
  BY DEF SourcesExact
<1> DEFINE s == eng.recs[i].src[j].peer
<1> eng \in Engine /\ Sourced(addr, eng) /\ Owned
  BY DEF IInv, Sound
<1>1. eng.recs \in Seq(Record)
  BY DEF Engine
<1>2. eng.recs[i] \in Record
  BY SMT, <1>1
<1>3. eng.recs[i].src \in Seq(Source)
  BY <1>2 DEF Record
<1>4. eng.recs[i].src[j] \in Source
  BY SMT, <1>3
<1>5. s \in Session
  BY <1>4 DEF Source
<1>6. Has(eng.recs[i].src, s)
  BY DEF Has
<1>7. \/ s \in DOMAIN eng.clients
      \/ /\ s \in DOMAIN leaving
         /\ leaving[s].layout # eng.layout \/ i \in Range(leaving[s].list)
  <2> HIDE DEF s
  <2> QED BY <1>5, <1>6, RangeIn DEF Owned
<1>8. \A k \in DOMAIN eng.recs[i].src \ {j} :
          eng.recs[i].src[k].peer # s /\ eng.recs[i].src[k].addr # eng.recs[i].src[j].addr
  <2> SourceList(addr, eng.recs[i].src)
    BY DEF Sourced
  <2> QED BY DEF SourceList
<1> QED BY <1>7, <1>8

\* The word index.
LEMMA NamesFollow ==
    ASSUME IInv
    PROVE  NamesCover
<1>1. Index(eng)
  BY DEF IInv, Sound
<1>2. \A w \in Word : eng.post[w] \cap Range(eng.free) = {}
  BY <1>1, RangeIn DEF Index
<1> QED BY <1>1, <1>2 DEF Index, NamesCover

\* Every id the engine holds names a slot.
LEMMA TypeFollows ==
    ASSUME IInv
    PROVE  TypeOK
<1> DEFINE slot == 1..Len(eng.recs)
           R == [live : BOOLEAN, hash : Hash, size : Nat, name : SUBSET Word,
                 next : 0..Len(eng.recs), sib : BOOLEAN,
                 src : Seq([peer : Session, addr : Addr, size : Nat])]
<1>1. eng \in Engine /\ Slots(eng) /\ Chains(eng) /\ Index(eng) /\ Offered(eng) /\ Owned
  BY DEF IInv, Sound
<1>2. /\ eng.recs \in Seq(Record) /\ eng.clients \in Lists /\ eng.files \in [Hash -> Nat]
      /\ eng.dead \in Seq(Nat) /\ eng.free \in Seq(Nat) /\ eng.post \in [Word -> SUBSET Nat]
  BY <1>1 DEF Engine
<1>3. /\ DOMAIN eng.recs = slot /\ Len(eng.recs) \in Nat /\ 0 \in 0..Len(eng.recs)
      /\ \A k \in slot : k \in 0..Len(eng.recs) /\ k \in Nat
  BY SMT, <1>2
<1>4. ASSUME NEW h \in Hash, NEW k \in DOMAIN Chain(eng, h)
      PROVE  /\ Chain(eng, h)[k] \in slot
             /\ eng.recs[Chain(eng, h)[k]].next \in 0..Len(eng.recs)
  <2> DEFINE c == Chain(eng, h)
  <2> Chained(eng, h, c)
    BY <1>1 DEF Chains
  <2> HIDE DEF c
  <2> c \in Seq(DOMAIN eng.recs) /\ eng.recs[c[k]].next = IF k = Len(c) THEN 0 ELSE c[k + 1]
    BY <1>4 DEF Chained, c
  <2> k \in 1..Len(c) /\ c[k] \in DOMAIN eng.recs /\ (k # Len(c) => c[k + 1] \in DOMAIN eng.recs)
    BY SMT, <1>4 DEF c
  <2> eng.recs[c[k]].next \in 0..Len(eng.recs)
    BY <1>3
  <2> QED BY <1>3 DEF c
<1>5. ASSUME NEW i \in DOMAIN eng.recs PROVE eng.recs[i] \in R
  <2> eng.recs[i] \in Record
    BY SMT, <1>2
  <2> eng.recs[i].next \in 0..Len(eng.recs)
    <3> CASE ~eng.recs[i].live
      BY <1>1, <1>3 DEF Slots
    <3> CASE eng.recs[i].live
      <4> eng.recs[i].hash \in Hash
        BY DEF Record
      <4> Chained(eng, eng.recs[i].hash, Chain(eng, eng.recs[i].hash))
        BY <1>1 DEF Chains
      <4> In(Chain(eng, eng.recs[i].hash), i)
        BY DEF Chained
      <4> QED BY <1>4 DEF In
    <3> QED OBVIOUS
  <2> Name \subseteq SUBSET Word
    BY DEF Name
  <2> QED BY SMT DEF Record, Source
<1> HIDE DEF R
<1>6. eng.recs \in Seq(R)
  <2> \A i \in DOMAIN eng.recs : eng.recs[i] \in R
    BY <1>5
  <2> QED BY <1>2, SeqInto
<1>7. eng.files \in [Hash -> 0..Len(eng.recs)]
  <2> ASSUME NEW h \in Hash PROVE eng.files[h] \in 0..Len(eng.recs)
    <3> DEFINE c == Chain(eng, h)
    <3> Chained(eng, h, c)
      BY <1>1 DEF Chains
    <3> HIDE DEF c
    <3> c \in Seq(DOMAIN eng.recs) /\ eng.files[h] = IF c = <<>> THEN 0 ELSE c[1]
      BY DEF Chained
    <3> c # <<>> => c[1] \in DOMAIN eng.recs
      BY SMT
    <3> QED BY <1>3
  <2> QED BY <1>2
<1>8. eng.dead \in Seq(slot) /\ eng.free \in Seq(slot)
  <2> \A i \in Nat : In(eng.dead, i) \/ In(eng.free, i) => i \in slot
    BY <1>1, <1>3 DEF Slots
  <2> /\ \A k \in DOMAIN eng.dead : eng.dead[k] \in Nat
      /\ \A k \in DOMAIN eng.free : eng.free[k] \in Nat
    BY SMT, <1>2
  <2> /\ \A i : In(eng.dead, i) => i \in slot
      /\ \A i : In(eng.free, i) => i \in slot
    BY DEF In
  <2> HIDE DEF slot
  <2> QED BY <1>2, SeqWithin
<1>9. eng.post \in [Word -> SUBSET slot]
  <2> \A w \in Word : eng.post[w] \in SUBSET slot
    BY <1>1, <1>3 DEF Index
  <2> QED BY <1>2
<1>10. \A s \in DOMAIN eng.clients : eng.clients[s] \in Seq(slot)
  <2> SUFFICES ASSUME NEW s \in DOMAIN eng.clients PROVE eng.clients[s] \in Seq(slot)
    OBVIOUS
  <2> eng.clients[s] \in Seq(Nat)
    BY <1>2, ListsAre
  <2> \A k \in DOMAIN eng.clients[s] : eng.clients[s][k] \in Nat
    BY SMT
  <2> \A i : In(eng.clients[s], i) => i \in slot
    BY <1>1, <1>3 DEF Offered, In
  <2> HIDE DEF slot
  <2> QED BY SeqWithin
<1>11. DOMAIN leaving \subseteq DOMAIN addr
  BY <1>1 DEF Owned
<1> QED BY <1>6, <1>7, <1>8, <1>9, <1>10, <1>11 DEF TypeOK, R

\* The records, the slots and the chains.
LEMMA RecordsFollow ==
    ASSUME IInv
    PROVE  RecordsExact
<1> eng \in Engine /\ Slots(eng) /\ Chains(eng) /\ Sourced(addr, eng)
  BY DEF IInv, Sound
<1>1. eng.recs \in Seq(Record) /\ eng.dead \in Seq(Nat) /\ eng.free \in Seq(Nat)
  BY DEF Engine
<1> DEFINE both == eng.dead \o eng.free
<1> both \in Seq(Nat) /\ Joins(eng.dead, eng.free, both)
  BY <1>1, JoinLists
<1> /\ \A k \in DOMAIN eng.dead : eng.dead[k] \in Nat
    /\ \A k \in DOMAIN both : both[k] \in Nat
    /\ \A k \in DOMAIN eng.recs : k \in Nat
  <2> HIDE DEF both
  <2> QED BY SMT, <1>1
<1> HIDE DEF both
<1>2. IsInjective(both)
  <2> \A i : In(eng.dead, i) => ~In(eng.free, i)
    BY DEF Slots, In
  <2> Distinct(both)
    BY DEF Slots, Joins
  <2> QED BY DEF Distinct, IsInjective
<1>3. Range(both) = DOMAIN eng.recs \ Live(eng)
  <2> \A i : In(both, i) => i \in Nat
    BY DEF In
  <2> \A i \in Nat : In(both, i) <=> i \in DOMAIN eng.recs /\ ~eng.recs[i].live
    BY DEF Slots, Joins
  <2> \A i : i \in Range(both) <=> i \in DOMAIN eng.recs /\ ~eng.recs[i].live
    BY RangeIn
  <2> QED BY DEF Live
<1>4. ASSUME NEW h \in Hash
      PROVE  /\ Range(Chain(eng, h)) = {i \in Live(eng) : eng.recs[i].hash = h}
             /\ \A j, k \in DOMAIN Chain(eng, h) : j # k =>
                   eng.recs[Chain(eng, h)[j]].size # eng.recs[Chain(eng, h)[k]].size
             /\ \A k \in DOMAIN Chain(eng, h) : eng.recs[Chain(eng, h)[k]].sib <=> k > 1
  <2> DEFINE c == Chain(eng, h)
  <2> Chained(eng, h, c)
    BY <1>4 DEF Chains
  <2> HIDE DEF c
  <2> \A k \in DOMAIN c : c[k] \in DOMAIN eng.recs
    <3> c \in Seq(DOMAIN eng.recs)
      BY DEF Chained
    <3> QED BY SMT
  <2> \A i : i \in Range(c) <=> i \in Live(eng) /\ eng.recs[i].hash = h
    <3> \A i : In(c, i) => i \in Live(eng) /\ eng.recs[i].hash = h
      <4> \A k \in DOMAIN c : c[k] \in Live(eng) /\ eng.recs[c[k]].hash = h
        BY DEF Chained, Live
      <4> QED BY DEF In
    <3> \A i : i \in Live(eng) /\ eng.recs[i].hash = h => In(c, i)
      BY DEF Chained, Live
    <3> QED BY RangeIn
  <2> Range(c) = {i \in Live(eng) : eng.recs[i].hash = h}
    OBVIOUS
  <2> QED BY DEF Chained, c
<1>5. \A i \in DOMAIN eng.recs : eng.recs[i].src # <<>> => eng.recs[i].live /\ ~eng.recs[i].sib
  BY DEF Sourced
<1>6. eng.count = Cardinality(Live(eng))
  BY DEF Slots
<1> QED BY <1>2, <1>3, <1>4, <1>5, <1>6, TypeFollows DEF RecordsExact, both

----------------------------------------------------------------------------
(* The walk *)

\* A file has one record.
LEMMA OneRecord ==
    ASSUME NEW E, Chains(E), NEW i \in DOMAIN E.recs, NEW j \in DOMAIN E.recs,
           E.recs[i].live, E.recs[j].live, E.recs[i].hash \in Hash,
           E.recs[i].hash = E.recs[j].hash, E.recs[i].size = E.recs[j].size
    PROVE  i = j
<1> DEFINE h == E.recs[i].hash
           c == Chain(E, h)
<1>1. Chained(E, h, c)
  BY DEF Chains
<1>2. In(c, i) /\ In(c, j)
  BY <1>1 DEF Chained
<1> HIDE DEF h, c
<1>3. PICK a \in DOMAIN c : c[a] = i
  BY <1>2 DEF In
<1>4. PICK b \in DOMAIN c : c[b] = j
  BY <1>2 DEF In
<1>5. a # b => E.recs[c[a]].size # E.recs[c[b]].size
  BY <1>1 DEF Chained
<1> QED BY <1>3, <1>4, <1>5

\* A file that is still served has the record it had.
Stays(E, X) ==
    \A i \in Live(E) : File(E.recs[i]) \in Served(X) => i \in Live(X) /\ File(X.recs[i]) = File(E.recs[i])

\* No walk.
LEMMA NoWalkIs ==
    NoWalk \in [on : BOOLEAN, layout : Nat, next : Nat \ {0}, file : SUBSET [hash : Hash, size : Nat],
                times : Nat]
    /\ ~NoWalk.on /\ NoWalk.times = 1 /\ NoWalk.file = {}
  BY SMT DEF NoWalk

\* A step of the engine that leaves the watched file's record where it is, or moves the
\* layout on, leaves what the walk counted right.
LEMMA WatchIs ==
    ASSUME Walked, Watch(eng'), eng.layout \in Nat, eng'.layout \in Nat, eng.layout <= eng'.layout,
           eng'.layout = eng.layout => Stays(eng, eng')
    PROVE  Walked'
<1>1. CASE walk' = NoWalk
  BY <1>1, NoWalkIs DEF Walked
<1> CASE walk' = walk /\ walk.file \subseteq Served(eng')
  <2> /\ walk' \in [on : BOOLEAN, layout : Nat, next : Nat \ {0}, file : SUBSET [hash : Hash, size : Nat],
                    times : Nat]
      /\ ~walk'.on => walk'.times = 1 /\ walk'.file = {}
    BY DEF Walked
  <2> ASSUME walk.on
      PROVE  /\ walk.layout <= eng'.layout
             /\ walk.layout = eng'.layout =>
                  \E i \in DOMAIN eng'.recs :
                     /\ eng'.recs[i].live /\ walk.file = {File(eng'.recs[i])}
                     /\ walk.file \subseteq Served(eng')
                     /\ walk.times = IF i < walk.next THEN 1 ELSE 0
    <3> walk.layout \in Nat /\ walk.layout <= eng.layout
      BY DEF Walked
    <3> walk.layout <= eng'.layout /\ (walk.layout = eng'.layout => walk.layout = eng.layout /\ eng'.layout = eng.layout)
      BY SMT
    <3> ASSUME walk.layout = eng'.layout
        PROVE  \E i \in DOMAIN eng'.recs :
                     /\ eng'.recs[i].live /\ walk.file = {File(eng'.recs[i])}
                     /\ walk.file \subseteq Served(eng')
                     /\ walk.times = IF i < walk.next THEN 1 ELSE 0
      <4> PICK i \in DOMAIN eng.recs : /\ eng.recs[i].live /\ walk.file = {File(eng.recs[i])}
                                       /\ walk.times = IF i < walk.next THEN 1 ELSE 0
        BY DEF Walked
      <4> i \in Live(eng) /\ File(eng.recs[i]) \in Served(eng')
        BY DEF Live
      <4> i \in Live(eng') /\ File(eng'.recs[i]) = File(eng.recs[i])
        BY DEF Stays
      <4> i \in DOMAIN eng'.recs /\ eng'.recs[i].live
        BY DEF Live
      <4> QED OBVIOUS
    <3> QED OBVIOUS
  <2> QED BY DEF Walked
<1> QED BY <1>1 DEF Watch

\* A walk begins with nothing behind it.
LEMMA WalkStarts ==
    ASSUME IInv, WalkStart
    PROVE  Walked'
<1>1. eng' = eng /\ eng \in Engine
  BY DEF WalkStart, IInv, Sound
<1> eng.layout \in Nat /\ eng.recs \in Seq(Record)
  BY <1>1 DEF Engine
<1> PICK f \in Served(eng) :
        walk' = [on |-> TRUE, layout |-> eng.layout, next |-> 1, file |-> {f}, times |-> 0]
  BY DEF WalkStart
<1> PICK i \in DOMAIN eng.recs : eng.recs[i].live /\ f = File(eng.recs[i])
  BY DEF Served
<1> eng.recs[i] \in Record /\ i \in Nat /\ ~(i < 1) /\ 0 \in Nat /\ 1 \in Nat \ {0}
  BY SMT
<1>2. f \in [hash : Hash, size : Nat]
  <2> eng.recs[i].hash \in Hash /\ eng.recs[i].size \in Nat
    BY DEF Record
  <2> QED BY DEF File
<1>3. walk' \in [on : BOOLEAN, layout : Nat, next : Nat \ {0}, file : SUBSET [hash : Hash, size : Nat],
                 times : Nat]
  BY SMT, <1>2
<1> /\ walk'.on = TRUE /\ walk'.layout = eng.layout /\ walk'.next = 1 /\ walk'.file = {f}
    /\ walk'.times = 0
  OBVIOUS
<1>4. eng.layout <= eng.layout
  BY SMT
<1>5. walk'.times = IF i < walk'.next THEN 1 ELSE 0
  OBVIOUS
<1>6. walk'.file \subseteq Served(eng)
  OBVIOUS
<1> QED BY <1>1, <1>3, <1>4, <1>5, <1>6 DEF Walked

\* A page reports the watched file when it passes its record.
LEMMA Browses ==
    ASSUME IInv, BrowseFiles
    PROVE  Walked'
\* The greatest of some numbers up to n.
<1>MaxIs.
    ASSUME NEW n \in Nat, NEW T \in SUBSET (1..n), T # {}
    PROVE  Max(T) \in T /\ \A y \in T : y <= Max(T)
  <2> USE <1>MaxIs
  <2> DEFINE U == {u \in 0..n : n - u \in T}
  <2>1. U \subseteq Nat
    BY SMT
  <2>2. U # {}
    <3> PICK t \in T : TRUE
      OBVIOUS
    <3> n - t \in 0..n /\ n - (n - t) = t
      BY SMT
    <3> n - t \in U
      OBVIOUS
    <3> QED OBVIOUS
  <2>3. PICK u \in U : \A v \in U : u <= v
    <3> HIDE DEF U
    <3> QED BY <2>1, <2>2, Least
  <2>4. n - u \in T /\ \A y \in T : n - u >= y
    <3> n - u \in T /\ u \in 0..n
      BY <2>3
    <3> ASSUME NEW y \in T PROVE n - u >= y
      <4> n - y \in 0..n /\ n - (n - y) = y /\ y \in 1..n
        BY SMT
      <4> n - y \in U
        OBVIOUS
      <4> u <= n - y
        BY <2>3
      <4> QED BY SMT
    <3> QED OBVIOUS
  <2>5. Max(T) \in T /\ \A y \in T : Max(T) >= y
    <3> \E x \in T : \A y \in T : x >= y
      BY <2>4
    <3> QED BY DEF Max
  <2> QED BY SMT, <2>5
\* The first p of some numbers up to n, and the rest.
<1> DEFINE FirstOf(I, p) == {i \in I : Place(I, i) <= p}
<1> HIDE DEF FirstOf
\* If one of the numbers is not among the first p, those are p, and all below it.
<1>FirstAre.
    ASSUME NEW n \in Nat, NEW I \in SUBSET (1..n), NEW p \in Nat \ {0}, NEW i \in I, i \notin FirstOf(I, p)
    PROVE  /\ Cardinality(FirstOf(I, p)) = p
           /\ \A k \in FirstOf(I, p) : k < i
  <2> USE <1>FirstAre
  <2> DEFINE c == Cardinality(I)
             T == FirstOf(I, p)
  <2> /\ c \in 0..n /\ \A k \in I : Place(I, k) \in 1..c
      /\ \A k, j \in I : k < j => Place(I, k) < Place(I, j)
      /\ \A k \in 1..c : Member(I, k) \in I /\ Place(I, Member(I, k)) = k
    BY Places
  <2>1. \A k \in I : k \in Nat /\ Place(I, k) \in Nat
    BY SMT
  <2>2. Place(I, i) > p /\ p < c
    <3> ~(Place(I, i) <= p) /\ Place(I, i) \in 1..c
      BY DEF FirstOf
    <3> QED BY SMT
  <2>3. ASSUME NEW k \in T PROVE k < i
    <3> k \in I /\ Place(I, k) <= p
      BY <2>3 DEF FirstOf
    <3> QED BY SMT, <2>1, <2>2
  <2> DEFINE f == [k \in 1..p |-> Member(I, k)]
  <2>4. f \in Bijection(1..p, T)
    <3> \A k \in 1..p : k \in 1..c /\ k <= p
      BY SMT, <2>2
    <3> \A k \in 1..p : f[k] \in T /\ Place(I, f[k]) = k
      BY DEF FirstOf
    <3> ASSUME NEW t \in T PROVE \E k \in 1..p : f[k] = t
      <4> t \in I /\ Place(I, t) <= p /\ Place(I, t) \in 1..c
        BY DEF FirstOf
      <4> Place(I, t) \in 1..p
        BY SMT
      <4> DEFINE j == Member(I, Place(I, t))
      <4> j \in I /\ Place(I, j) = Place(I, t)
        OBVIOUS
      <4> HIDE DEF j
      <4> j = t
        BY SMT, <2>1
      <4> QED BY DEF j
    <3> f \in [1..p -> T] /\ DOMAIN f = 1..p
      OBVIOUS
    <3> \A j, k \in 1..p : f[j] = f[k] => j = k
      <4> HIDE DEF f
      <4> QED OBVIOUS
    <3> HIDE DEF f, T
    <3> QED BY DEF Bijection, Injection, Surjection, IsInjective
  <2>5. Cardinality(T) = p
    <3> ExistsBijection(1..p, T)
      BY <2>4 DEF ExistsBijection
    <3> p \in Nat
      BY SMT
    <3> HIDE DEF T
    <3> QED BY FS_CountingElements
  <2> QED BY <2>3, <2>5
\* What a page reports and where it ends.
<1> DEFINE Hits(E, n) == {i \in n..Len(E.recs) : E.recs[i].live /\ Sources(E, i) > 0}
<1> DEFINE Reports(E, T, F) == {i \in T : File(E.recs[i]) \in F}
<1> HIDE DEF Hits, Reports
\* BrowseFiles with its page named.
<1>BrowseStep.
    ASSUME BrowseFiles
    PROVE  LET page == FirstOf(Hits(eng, walk.next), Page)
               times == walk.times + Cardinality(Reports(eng, page, walk.file))
           IN walk' = IF walk.layout # eng.layout THEN NoWalk
                      ELSE IF Cardinality(page) = Page /\ Max(page) < Len(eng.recs)
                      THEN [walk EXCEPT !.times = times, !.next = Max(page) + 1]
                      ELSE [NoWalk EXCEPT !.times = times]
    BY <1>BrowseStep DEF BrowseFiles, Hits, Reports, FirstOf
<1> DEFINE hits == Hits(eng, walk.next)
           page == FirstOf(hits, Page)
           times == walk.times + Cardinality(Reports(eng, page, walk.file))
<1>1. eng' = eng /\ eng \in Engine /\ walk.on /\ Chains(eng)
  BY DEF BrowseFiles, IInv, Sound
<1>2. eng.layout \in Nat /\ eng.recs \in Seq(Record)
  BY <1>1 DEF Engine
<1>3. CASE walk.layout # eng.layout
  <2> walk' = NoWalk
    BY <1>3, <1>BrowseStep
  <2> QED BY NoWalkIs DEF Walked
<1>4. CASE walk.layout = eng.layout
  <2>1. PICK i \in DOMAIN eng.recs :
           /\ eng.recs[i].live /\ walk.file = {File(eng.recs[i])} /\ walk.file \subseteq Served(eng)
           /\ walk.times = IF i < walk.next THEN 1 ELSE 0
    BY <1>1, <1>4 DEF IInv, Walked
  <2>2. walk \in [on : BOOLEAN, layout : Nat, next : Nat \ {0}, file : SUBSET [hash : Hash, size : Nat],
                 times : Nat]
    BY DEF IInv, Walked
  <2>3. walk.next \in Nat \ {0} /\ Len(eng.recs) \in Nat /\ i \in 1..Len(eng.recs) /\ DOMAIN eng.recs = 1..Len(eng.recs)
    BY SMT, <1>2, <2>1, <2>2
  <2>4. \A k \in DOMAIN eng.recs : eng.recs[k].hash \in Hash
    <3> SUFFICES ASSUME NEW k \in DOMAIN eng.recs PROVE eng.recs[k].hash \in Hash
      BY SMT
    <3> eng.recs[k] \in Record
      BY SMT, <1>2
    <3> QED BY DEF Record
  <2>5. \A k \in DOMAIN eng.recs : eng.recs[k].live /\ File(eng.recs[k]) = File(eng.recs[i]) => k = i
    <3> SUFFICES ASSUME NEW k \in DOMAIN eng.recs, eng.recs[k].live, File(eng.recs[k]) = File(eng.recs[i])
                 PROVE  k = i
      OBVIOUS
    <3> eng.recs[k].hash = eng.recs[i].hash /\ eng.recs[k].size = eng.recs[i].size
      BY SMT DEF File
    <3> QED BY <1>1, <2>1, <2>4, OneRecord
  <2>6. Sources(eng, i) > 0
    <3> PICK k \in DOMAIN eng.recs : eng.recs[k].live /\ Sources(eng, k) > 0 /\ File(eng.recs[i]) = File(eng.recs[k])
      BY <2>1 DEF Served
    <3> QED BY <2>5
  <2>7. hits \in SUBSET (1..Len(eng.recs)) /\ (i \in hits <=> ~(i < walk.next))
    <3> \A k \in walk.next..Len(eng.recs) : k \in 1..Len(eng.recs)
      BY SMT, <2>3
    <3> i \in walk.next..Len(eng.recs) <=> ~(i < walk.next)
      BY SMT, <2>3
    <3> QED BY <2>1, <2>6 DEF Hits
  <2>8. \A k \in hits : k >= walk.next /\ eng.recs[k].live
    <3> \A k \in walk.next..Len(eng.recs) : k >= walk.next
      BY SMT, <2>3
    <3> QED BY DEF Hits
  <2>9. page \subseteq hits
    BY DEF FirstOf
  <2> Reports(eng, page, walk.file) = IF i \in page THEN {i} ELSE {}
    <3> \A k \in page : k \in DOMAIN eng.recs /\ eng.recs[k].live
      BY <2>3, <2>7, <2>8, <2>9
    <3> \A k \in page : File(eng.recs[k]) \in walk.file <=> k = i
      BY <2>1, <2>5
    <3> HIDE DEF page
    <3> CASE i \in page
      BY DEF Reports
    <3> CASE i \notin page
      BY DEF Reports
    <3> QED OBVIOUS
  <2> HIDE DEF hits, page
  <2> Cardinality(Reports(eng, page, walk.file)) = IF i \in page THEN 1 ELSE 0
    BY FS_EmptySet, FS_Singleton
  <2> times = IF i < walk.next \/ i \in page THEN 1 ELSE 0
    <3> i \in page => ~(i < walk.next)
      BY <2>7, <2>9
    <3> CASE i < walk.next
      BY SMT, <2>1
    <3> CASE ~(i < walk.next)
      BY SMT, <2>1
    <3> QED OBVIOUS
  <2> i \in hits /\ i \notin page => Cardinality(page) = Page /\ \A k \in page : k < i
    <3> Page \in Nat \ {0}
      BY MemoryAssumption
    <3> QED BY <2>3, <2>7, <1>FirstAre DEF page
  <2> CASE Cardinality(page) = Page /\ Max(page) < Len(eng.recs)
    <3> DEFINE m == Max(page)
    <3> walk' = [walk EXCEPT !.times = times, !.next = m + 1]
      BY <1>4, <1>BrowseStep DEF page, hits
    <3> page # {}
      <4> Page # 0
        BY SMT, MemoryAssumption
      <4> QED BY FS_EmptySet
    <3> m \in page /\ (\A y \in page : y <= m)
      <4> page \in SUBSET (1..Len(eng.recs))
        BY <2>7, <2>9
      <4> QED BY <2>3, <1>MaxIs
    <3> m \in 1..Len(eng.recs) /\ m >= walk.next /\ m + 1 \in Nat \ {0}
      <4> m \in 1..Len(eng.recs) /\ m >= walk.next
        BY <2>7, <2>8, <2>9
      <4> HIDE DEF m
      <4> QED BY SMT, <2>3
    <3> HIDE DEF m
    <3> i < m + 1 <=> (i < walk.next \/ i \in page)
      <4> CASE i < walk.next
        BY SMT, <2>3
      <4> CASE i \in page
        <5> i <= m
          OBVIOUS
        <5> QED BY SMT, <2>3
      <4> CASE ~(i < walk.next) /\ i \notin page
        <5> m < i
          BY <2>7
        <5> QED BY SMT, <2>3
      <4> QED OBVIOUS
    <3> times = IF i < m + 1 THEN 1 ELSE 0
      OBVIOUS
    <3> times \in Nat
      BY SMT
    <3> HIDE DEF times
    <3> walk' \in [on : BOOLEAN, layout : Nat, next : Nat \ {0}, file : SUBSET [hash : Hash, size : Nat],
                   times : Nat]
        /\ walk'.on = walk.on /\ walk'.layout = walk.layout /\ walk'.next = m + 1
        /\ walk'.file = walk.file /\ walk'.times = times
      BY <2>2
    <3> walk.layout <= eng.layout
      BY <1>1 DEF IInv, Walked
    <3> walk'.times = IF i < walk'.next THEN 1 ELSE 0
      OBVIOUS
    <3> QED BY <1>1, <2>1 DEF Walked
  <2> CASE ~(Cardinality(page) = Page /\ Max(page) < Len(eng.recs))
    <3> walk' = [NoWalk EXCEPT !.times = times]
      BY <1>4, <1>BrowseStep DEF page, hits
    <3> i < walk.next \/ i \in page
      <4> SUFFICES ASSUME ~(i < walk.next), i \notin page PROVE FALSE
        OBVIOUS
      <4> Cardinality(page) = Page /\ \A k \in page : k < i
        BY <2>7
      <4> page # {}
        <5> Page # 0
          BY SMT, MemoryAssumption
        <5> QED BY FS_EmptySet
      <4> Max(page) \in page
        <5> page \in SUBSET (1..Len(eng.recs))
          BY <2>7, <2>9
        <5> QED BY <2>3, <1>MaxIs
      <4> Max(page) < i /\ Max(page) \in 1..Len(eng.recs)
        BY <2>7, <2>9
      <4> Max(page) < Len(eng.recs)
        BY SMT, <2>3
      <4> QED OBVIOUS
    <3> times = 1
      OBVIOUS
    <3> walk' = NoWalk
      <4> HIDE DEF times
      <4> QED BY SMT DEF NoWalk
    <3> QED BY NoWalkIs DEF Walked
  <2> QED OBVIOUS
<1> QED BY <1>3, <1>4

----------------------------------------------------------------------------
(* The chains *)

\* Following the links from the first record gives the chain.
LEMMA ChainIs ==
    ASSUME NEW E, E.recs \in Seq(Record), NEW h, NEW c, Chained(E, h, c)
    PROVE  Chain(E, h) = c
<1> DEFINE N == Len(E.recs)
           Rec(at) == at = [n \in 1..(N + 1) |-> IF n = 1 THEN E.files[h] ELSE Link(E, at[n - 1])]
           A == CHOOSE at : Rec(at)
           w == [n \in 1..(N + 1) |-> IF n <= Len(c) THEN c[n] ELSE 0]
<1>1. N \in Nat /\ c \in Seq(1..N)
  BY SMT DEF Chained
<1>2. Len(c) \in Nat /\ DOMAIN c = 1..Len(c) /\ \A k \in 1..Len(c) : c[k] \in 1..N /\ c[k] # 0
  BY SMT, <1>1
<1>3. Distinct(c)
  BY DEF Distinct, Chained
<1> HIDE DEF N
<1>4. Len(c) <= N
  BY <1>1, <1>3, DistinctShort
<1>5. Rec(w)
  <2> SUFFICES ASSUME NEW n \in 1..(N + 1)
               PROVE  w[n] = IF n = 1 THEN E.files[h] ELSE Link(E, w[n - 1])
    BY SMT
  <2> CASE n = 1
    <3> E.files[h] = IF c = <<>> THEN 0 ELSE c[1]
      BY DEF Chained
    <3> c = <<>> <=> Len(c) = 0
      BY SMT, <1>1
    <3> QED BY SMT, <1>2
  <2> CASE n # 1 /\ n - 1 <= Len(c)
    <3> n - 1 \in 1..Len(c) /\ n - 1 \in 1..(N + 1) /\ (n - 1 = Len(c) <=> ~(n <= Len(c))) /\ (n - 1) + 1 = n
      BY SMT, <1>1, <1>2
    <3> w[n - 1] = c[n - 1] /\ c[n - 1] # 0
      BY SMT, <1>2
    <3> E.recs[c[n - 1]].next = IF n - 1 = Len(c) THEN 0 ELSE c[(n - 1) + 1]
      BY <1>2 DEF Chained
    <3> Link(E, w[n - 1]) = IF n <= Len(c) THEN c[n] ELSE 0
      BY DEF Link
    <3> QED BY SMT
  <2> CASE n # 1 /\ ~(n - 1 <= Len(c))
    <3> n - 1 \in 1..(N + 1) /\ ~(n <= Len(c))
      BY SMT, <1>1, <1>2
    <3> w[n - 1] = 0 /\ w[n] = 0
      BY SMT
    <3> QED BY DEF Link
  <2> QED OBVIOUS
<1>6. Rec(A)
  BY <1>5
<1>7. Chain(E, h) = SubSeq(A, 1, Cardinality({n \in DOMAIN A : A[n] # 0}))
  BY SMT DEF Chain, N
<1> HIDE DEF A, w
<1>8. DOMAIN A = 1..(N + 1) /\ DOMAIN w = 1..(N + 1)
  BY <1>5, <1>6
<1>9. \A n \in 1..(N + 1) : A[n] = w[n]
  <2> DEFINE T == {n \in 1..(N + 1) : A[n] # w[n]}
  <2> SUFFICES ASSUME T # {} PROVE FALSE
    OBVIOUS
  <2> T \subseteq Nat
    BY SMT
  <2> PICK n \in T : \A l \in T : n <= l
    <3> HIDE DEF T
    <3> QED BY Least
  <2> n \in 1..(N + 1) /\ A[n] # w[n]
    OBVIOUS
  <2> n # 1
    BY <1>5, <1>6
  <2> n - 1 \in 1..(N + 1) /\ ~(n <= n - 1)
    BY SMT, <1>1
  <2> A[n - 1] = w[n - 1]
    OBVIOUS
  <2> A[n] = Link(E, A[n - 1]) /\ w[n] = Link(E, w[n - 1])
    BY <1>5, <1>6
  <2> QED OBVIOUS
<1>10. {n \in DOMAIN A : A[n] # 0} = 1..Len(c)
  BY SMT, <1>1, <1>2, <1>4, <1>8, <1>9 DEF w
<1>11. Cardinality(1..Len(c)) = Len(c)
  BY <1>2, Interval
<1>12. SubSeq(A, 1, Len(c)) = c
  <2> \A k \in 1..Len(c) : A[k] = c[k]
    BY SMT, <1>1, <1>2, <1>4, <1>9 DEF w
  <2> A \in Seq(Nat)
    <3> \A n \in 1..(N + 1) : A[n] \in Nat
      BY SMT, <1>1, <1>2, <1>9 DEF w
    <3> A \in [1..(N + 1) -> Nat]
      BY <1>6
    <3> N + 1 \in Nat
      BY SMT, <1>1
    <3> HIDE DEF Rec
    <3> QED BY SMT
  <2> Len(A) = N + 1
    BY SMT, <1>1, <1>8
  <2> QED BY SMT, <1>1, <1>2, <1>4
<1> QED BY <1>7, <1>10, <1>11, <1>12

\* The least of a set of numbers.
LEMMA MinIs ==
    ASSUME NEW T, T \subseteq Nat, T # {}
    PROVE  Min(T) \in T /\ \A y \in T : Min(T) <= y
  BY Least DEF Min
Files == [hash : Hash, size : Nat, name : Name]

\* Two records that differ in their names, links or sources at most.
Same(r, q) ==
    /\ r.live <=> q.live
    /\ r.hash = q.hash /\ r.size = q.size
    /\ r.sib <=> q.sib

\* Two records that differ in their links at most.
SameFile(r, q) == Same(r, q) /\ r.name = q.name /\ r.src = q.src

\* A chain stays one if its records stay linked, and none is added to the hash.
Keeps(E, X, h, d) ==
    /\ X.files[h] = E.files[h]
    /\ \A k \in DOMAIN d : /\ d[k] \in DOMAIN X.recs /\ Same(X.recs[d[k]], E.recs[d[k]])
                           /\ X.recs[d[k]].next = E.recs[d[k]].next
    /\ \A k \in DOMAIN X.recs : X.recs[k].live /\ X.recs[k].hash = h =>
          k \in DOMAIN E.recs /\ E.recs[k].live /\ E.recs[k].hash = h

\* A chain whose records and first record stay is a chain still.
LEMMA KeptChain ==
    ASSUME NEW E, NEW X, NEW h, NEW d, Chained(E, h, d), E.recs \in Seq(Record), X.recs \in Seq(Record),
           Keeps(E, X, h, d)
    PROVE  Chained(X, h, d)
<1> USE DEF Keeps
<1>1. d \in Seq(DOMAIN X.recs)
  <2> d \in Seq(DOMAIN E.recs)
    BY DEF Chained
  <2> QED BY SMT
<1>2. X.files[h] = IF d = <<>> THEN 0 ELSE d[1]
  BY DEF Chained
<1>3. ASSUME NEW k \in DOMAIN d
      PROVE  /\ X.recs[d[k]].live /\ X.recs[d[k]].hash = h /\ (X.recs[d[k]].sib <=> k > 1)
             /\ X.recs[d[k]].next = IF k = Len(d) THEN 0 ELSE d[k + 1]
  <2> /\ E.recs[d[k]].live /\ E.recs[d[k]].hash = h /\ (E.recs[d[k]].sib <=> k > 1)
      /\ E.recs[d[k]].next = IF k = Len(d) THEN 0 ELSE d[k + 1]
    BY DEF Chained
  <2> QED BY DEF Same
<1>4. ASSUME NEW j \in DOMAIN d, NEW k \in DOMAIN d, j # k
      PROVE  X.recs[d[j]].size # X.recs[d[k]].size
  <2> E.recs[d[j]].size # E.recs[d[k]].size
    BY <1>4 DEF Chained
  <2> QED BY DEF Same
<1>5. \A i \in DOMAIN X.recs : X.recs[i].live /\ X.recs[i].hash = h => In(d, i)
  BY DEF Chained
<1> QED BY <1>1, <1>2, <1>3, <1>4, <1>5 DEF Chained

----------------------------------------------------------------------------
(* The index *)

\* Words under one id added to a set of pairs that has none of them.
LEMMA AddPairs ==
    ASSUME NEW Q, IsFiniteSet(Q), NEW S, IsFiniteSet(S), NEW i, Q \cap (S \X {i}) = {}
    PROVE  /\ IsFiniteSet(Q \cup (S \X {i}))
           /\ Cardinality(Q \cup (S \X {i})) = Cardinality(Q) + Cardinality(S)
<1>1. IsFiniteSet({i}) /\ Cardinality({i}) = 1
  BY FS_Singleton
<1>2. IsFiniteSet(S \X {i}) /\ Cardinality(S \X {i}) = Cardinality(S) * Cardinality({i})
  BY <1>1, FS_Product
<1>3. Cardinality(Q) \in Nat /\ Cardinality(S) \in Nat
  BY FS_CardinalityType
<1>4. /\ IsFiniteSet(Q \cup (S \X {i}))
      /\ Cardinality(Q \cup (S \X {i})) = Cardinality(Q) + Cardinality(S \X {i}) - Cardinality(Q \cap (S \X {i}))
  BY <1>2, FS_Union
<1>5. Cardinality(Q \cap (S \X {i})) = 0
  BY FS_EmptySet
<1>6. Cardinality(S \X {i}) = Cardinality(S)
  BY SMT, <1>1, <1>2, <1>3
<1>7. Cardinality(Q \cup (S \X {i})) = Cardinality(Q) + Cardinality(S)
  BY SMT, <1>3, <1>4, <1>5, <1>6
<1> QED BY <1>4, <1>7

\* Every word of a record's name is an entry.
LEMMA NamedEntries ==
    ASSUME NEW E \in Engine, Index(E)
    PROVE  Named(E) \in SUBSET Entries(E) /\ IsFiniteSet(Named(E))
<1>1. Named(E) \in SUBSET Entries(E)
  BY SMT DEF Named, Entries, Index, Live
<1> QED BY <1>1, FS_Subset DEF Index

----------------------------------------------------------------------------
(* Storing a file *)

Built(E) == E \in Engine /\ Slots(E) /\ Chains(E) /\ Index(E)

\* Two engines that differ in names, sources, the index and the lists at most.
Alike(E, X) ==
    /\ X.files = E.files /\ DOMAIN X.recs = DOMAIN E.recs
    /\ \A k \in DOMAIN E.recs : Same(X.recs[k], E.recs[k]) /\ X.recs[k].next = E.recs[k].next

\* Chains are a matter of files, links and marks.
LEMMA AlikeChains ==
    ASSUME NEW E \in Engine, NEW X \in Engine, Chains(E), Alike(E, X)
    PROVE  Chains(X)
<1>1. E.recs \in Seq(Record) /\ X.recs \in Seq(Record)
  BY DEF Engine
<1> SUFFICES ASSUME NEW h \in Hash PROVE Chained(X, h, Chain(X, h))
  BY DEF Chains
<1> DEFINE d == Chain(E, h)
<1>2. Chained(E, h, d)
  BY DEF Chains
<1> HIDE DEF d
<1>3. d \in Seq(DOMAIN E.recs)
  BY <1>2 DEF Chained
<1>4. \A k \in DOMAIN d : d[k] \in DOMAIN E.recs
  BY SMT, <1>3
<1>5. Keeps(E, X, h, d)
  <2> \A k \in DOMAIN X.recs : X.recs[k].live /\ X.recs[k].hash = h =>
        k \in DOMAIN E.recs /\ E.recs[k].live /\ E.recs[k].hash = h
    BY DEF Alike, Same
  <2> QED BY <1>4 DEF Keeps, Alike
<1>6. Chained(X, h, d)
  BY <1>1, <1>2, <1>5, KeptChain
<1>7. Chain(X, h) = d
  BY <1>1, <1>6, ChainIs
<1> QED BY <1>6, <1>7

\* So are the slots.
LEMMA AlikeSlots ==
    ASSUME NEW E \in Engine, NEW X \in Engine, Slots(E), Alike(E, X),
           X.dead = E.dead, X.free = E.free, X.count = E.count,
           \A k \in DOMAIN E.recs : E.recs[k].src = <<>> /\ ~E.recs[k].live => X.recs[k].src = <<>>
    PROVE  Slots(X)
<1> \A k \in DOMAIN E.recs : X.recs[k].live <=> E.recs[k].live
  BY DEF Alike, Same
<1>1. Live(X) = Live(E)
  BY DEF Live, Alike
<1>2. \A k \in DOMAIN X.recs : ~X.recs[k].live => X.recs[k].next = 0 /\ X.recs[k].src = <<>>
  BY DEF Slots, Alike
<1>3. \A k \in Nat : In(X.dead, k) \/ In(X.free, k) <=> k \in DOMAIN X.recs /\ ~X.recs[k].live
  <2> SUFFICES ASSUME NEW k \in Nat
               PROVE  In(X.dead, k) \/ In(X.free, k) <=> k \in DOMAIN X.recs /\ ~X.recs[k].live
    BY SMT
  <2> In(E.dead, k) \/ In(E.free, k) <=> k \in DOMAIN E.recs /\ ~E.recs[k].live
    BY DEF Slots
  <2> DOMAIN X.recs = DOMAIN E.recs
    BY DEF Alike
  <2> QED OBVIOUS
<1>4. Distinct(X.dead) /\ Distinct(X.free) /\ \A k \in Nat : In(X.dead, k) => ~In(X.free, k)
  BY DEF Slots
<1>5. X.count = Cardinality(Live(X))
  BY <1>1 DEF Slots
<1> QED BY <1>2, <1>3, <1>4, <1>5 DEF Slots

\* The index does not change with the sources and the lists.
LEMMA AlikeIndex ==
    ASSUME NEW E \in Engine, NEW X \in Engine, Index(E), Alike(E, X),
           X.free = E.free, X.post = E.post, X.entries = E.entries, X.live = E.live,
           \A k \in DOMAIN E.recs : X.recs[k].name = E.recs[k].name
    PROVE  Index(X)
<1> DOMAIN X.recs = DOMAIN E.recs /\ \A k \in DOMAIN E.recs : X.recs[k].live <=> E.recs[k].live
  BY DEF Alike, Same
<1>1. Live(X) = Live(E)
  BY DEF Live
<1>2. \A k \in Live(E) : k \in DOMAIN E.recs
  BY DEF Live
<1>3. Entries(X) = Entries(E)
  BY DEF Entries
<1>4. Named(X) = Named(E)
  <2> \A x \in Word \X Live(E) : x[2] \in Live(E)
    BY SMT
  <2> QED BY <1>1, <1>2 DEF Named
<1>5. \A k \in Live(X) : \A w \in X.recs[k].name : k \in X.post[w]
  BY <1>1, <1>2 DEF Index
<1>6. \A w \in Word : \A k \in X.post[w] : k \in DOMAIN X.recs /\ ~In(X.free, k)
  BY DEF Index
<1>7. IsFiniteSet(Entries(X)) /\ X.entries = Cardinality(Entries(X)) /\ X.live = Cardinality(Named(X))
  BY <1>3, <1>4 DEF Index
<1> QED BY <1>5, <1>6, <1>7 DEF Index

\* The first record of a hash: the only one that is no sibling.
IsHead(E, h) ==
    /\ E.files[h] # 0 => LET k == E.files[h] IN
         k \in DOMAIN E.recs /\ E.recs[k].live /\ E.recs[k].hash = h /\ ~E.recs[k].sib
    /\ \A i \in DOMAIN E.recs : E.recs[i].live /\ E.recs[i].hash = h =>
         E.files[h] # 0 /\ (E.recs[i].sib <=> i # E.files[h])

\* The record a hash names is its one record that is no sibling.
LEMMA HeadIs ==
    ASSUME NEW E \in Engine, Chains(E), NEW h \in Hash
    PROVE  IsHead(E, h)
<1> DEFINE c == Chain(E, h)
<1> Chained(E, h, c)
  BY DEF Chains
<1> HIDE DEF c
<1> /\ c \in Seq(DOMAIN E.recs) /\ (c = <<>> => E.files[h] = 0) /\ (c # <<>> => E.files[h] = c[1])
    /\ \A k \in DOMAIN c : E.recs[c[k]].live /\ E.recs[c[k]].hash = h /\ (E.recs[c[k]].sib <=> k > 1)
  BY DEF Chained
<1>1. E.recs \in Seq(Record)
  BY DEF Engine
<1> c # <<>> => 1 \in DOMAIN c
  BY SMT
<1> DOMAIN E.recs \subseteq Nat \ {0} /\ DOMAIN c \subseteq Nat \ {0} /\ \A k \in DOMAIN c : c[k] \in DOMAIN E.recs
  BY SMT, <1>1
<1>2. ~(1 > 1)
  BY SMT
<1>3. ASSUME E.files[h] # 0
      PROVE  LET k == E.files[h] IN
                k \in DOMAIN E.recs /\ E.recs[k].live /\ E.recs[k].hash = h /\ ~E.recs[k].sib
  BY <1>2, <1>3
<1>4. ASSUME NEW i \in DOMAIN E.recs, E.recs[i].live, E.recs[i].hash = h
      PROVE  E.files[h] # 0 /\ (E.recs[i].sib <=> i # E.files[h])
  <2> PICK k \in DOMAIN c : c[k] = i
    BY <1>4 DEF Chained, In
  <2> c # <<>> /\ E.files[h] = c[1] /\ E.files[h] \in DOMAIN E.recs
    <3> c # <<>>
      BY SMT
    <3> QED OBVIOUS
  <2> k # 1 <=> k > 1
    BY SMT
  <2> c[k] = c[1] => k = 1
    BY DEF Chained
  <2> E.recs[i].sib <=> k > 1
    OBVIOUS
  <2> E.files[h] # 0
    BY SMT
  <2> QED OBVIOUS
<1> QED BY <1>3, <1>4 DEF IsHead

\* What storing a file leaves as it is, and what it adds.
Grown(E, f, X) ==
    /\ X.layout = E.layout /\ X.clients = E.clients
    /\ X.files[f.hash] \in DOMAIN X.recs
    /\ \A h \in Hash : h # f.hash => X.files[h] = E.files[h]
    /\ \A k \in DOMAIN E.recs : /\ k \in DOMAIN X.recs /\ X.recs[k].src = E.recs[k].src
                                /\ E.recs[k].live => Same(X.recs[k], E.recs[k])
    /\ \A k \in DOMAIN X.recs : k \notin DOMAIN E.recs => X.recs[k].src = <<>>
    /\ \A k \in DOMAIN X.recs :
         X.recs[k].live => X.recs[k].hash = f.hash \/ (k \in DOMAIN E.recs /\ E.recs[k].live)

\* storeFileLocked: a known size is renamed, a new one joins the chain.
LEMMA StoreFileIs ==
    \A E : Built(E) => \A f \in Files : Built(StoreFile(E, f)) /\ Grown(E, f, StoreFile(E, f))
\* What FindRec finds.
<1> DEFINE Found(E, h, z, i) ==
               \/ /\ i = 0
                  /\ \A k \in DOMAIN E.recs : E.recs[k].live /\ E.recs[k].hash = h => E.recs[k].size # z
               \/ i \in DOMAIN E.recs /\ E.recs[i].live /\ E.recs[i].hash = h /\ E.recs[i].size = z
<1> HIDE DEF Found
\* findLocked finds the record of the hash and the size, if there is one.
<1>FindRecIs.
    ASSUME NEW E, Chains(E), NEW h \in Hash, NEW z
    PROVE  Found(E, h, z, FindRec(E, h, z))
  <2> USE <1>FindRecIs
  <2> DEFINE c == Chain(E, h)
             K == {k \in DOMAIN c : E.recs[c[k]].size = z}
  <2> Chained(E, h, c)
    BY DEF Chains
  <2>1. FindRec(E, h, z) = IF K = {} THEN 0 ELSE c[Min(K)]
    BY DEF FindRec
  <2> HIDE DEF c
  <2> CASE K = {}
    <3> \A i \in DOMAIN E.recs : E.recs[i].live /\ E.recs[i].hash = h => In(c, i)
      BY DEF Chained
    <3> \A i \in DOMAIN E.recs : E.recs[i].live /\ E.recs[i].hash = h => E.recs[i].size # z
      BY DEF In
    <3> QED BY <2>1 DEF Found
  <2> CASE K # {}
    <3> c \in Seq(DOMAIN E.recs)
      BY DEF Chained
    <3> K \subseteq Nat /\ \A k \in DOMAIN c : c[k] \in DOMAIN E.recs
      BY SMT
    <3> Min(K) \in K
      <4> HIDE DEF K
      <4> QED BY MinIs
    <3> Min(K) \in DOMAIN c /\ E.recs[c[Min(K)]].size = z
      OBVIOUS
    <3> E.recs[c[Min(K)]].live /\ E.recs[c[Min(K)]].hash = h
      BY DEF Chained
    <3> QED BY <2>1 DEF Found
  <2> QED OBVIOUS
\* The slot of a new record: one more, or one that is not live.
<1>SlotIs.
    ASSUME NEW E \in Engine, Slots(E)
    PROVE  /\ Slot(E) \in Nat \ {0}
           /\ 1..(IF E.free # <<>> THEN Len(E.recs) ELSE Slot(E)) = DOMAIN E.recs \cup {Slot(E)}
           /\ Slot(E) \in DOMAIN E.recs <=> E.free # <<>>
           /\ Slot(E) \in DOMAIN E.recs => ~E.recs[Slot(E)].live /\ In(E.free, Slot(E))
  <2> USE <1>SlotIs
  <2>1. E.recs \in Seq(Record) /\ E.free \in Seq(Nat)
    BY DEF Engine
  <2>2. DOMAIN E.recs = 1..Len(E.recs) /\ Len(E.recs) \in Nat
    BY SMT, <2>1
  <2> CASE E.free # <<>>
    <3> Len(E.free) \in DOMAIN E.free /\ Slot(E) = E.free[Len(E.free)] /\ Slot(E) \in Nat
      BY SMT, <2>1 DEF Slot
    <3> In(E.free, Slot(E))
      BY DEF In
    <3> Slot(E) \in DOMAIN E.recs /\ ~E.recs[Slot(E)].live
      BY DEF Slots
    <3> QED BY SMT, <2>2
  <2> CASE E.free = <<>>
    <3> Slot(E) = Len(E.recs) + 1
      BY DEF Slot
    <3> Slot(E) \notin DOMAIN E.recs /\ Slot(E) \in Nat \ {0} /\ 1..Slot(E) = DOMAIN E.recs \cup {Slot(E)}
      BY SMT, <2>2
    <3> QED OBVIOUS
  <2> QED OBVIOUS
\* What IndexName changes.
<1> DEFINE Indexed(E, i, name, X) ==
               /\ X \in Engine
               /\ X.recs = E.recs /\ X.files = E.files /\ X.count = E.count /\ X.dead = E.dead
               /\ X.free = E.free /\ X.layout = E.layout /\ X.clients = E.clients
               /\ X.post = [w \in Word |-> IF w \in name THEN E.post[w] \cup {i} ELSE E.post[w]]
               /\ X.entries = E.entries + Cardinality({w \in name : i \notin E.post[w]})
               /\ X.live = E.live + Cardinality(name)
<1> HIDE DEF Indexed
\* indexName touches the posting lists and the counters only.
<1>IndexNameIs.
    ASSUME NEW E \in Engine, NEW i \in Nat, NEW name \in Name
    PROVE  Indexed(E, i, name, IndexName(E, i, name))
  <2> USE <1>IndexNameIs
  <2> DEFINE X == IndexName(E, i, name)
             post == [w \in Word |-> IF w \in name THEN E.post[w] \cup {i} ELSE E.post[w]]
             new == {w \in name : i \notin E.post[w]}
  <2>1. X = [E EXCEPT !.post = post, !.entries = E.entries + Cardinality(new),
                      !.live = E.live + Cardinality(name)]
    BY DEF IndexName
  <2>2. E.entries \in Int /\ E.live \in Int /\ E.post \in [Word -> SUBSET Nat]
    BY DEF Engine
  <2>3. post \in [Word -> SUBSET Nat]
    BY SMT, <2>2
  <2>4. IsFiniteSet(name) /\ new \in SUBSET name
    BY DEF Name
  <2> HIDE DEF post, new, X
  <2>5. Cardinality(name) \in Nat /\ Cardinality(new) \in Nat
    BY <2>4, FS_Subset, FS_CardinalityType
  <2>6. E.entries + Cardinality(new) \in Int /\ E.live + Cardinality(name) \in Int
    BY SMT, <2>2, <2>5
  <2>7. /\ X.recs = E.recs /\ X.files = E.files /\ X.count = E.count /\ X.dead = E.dead
        /\ X.free = E.free /\ X.layout = E.layout /\ X.clients = E.clients
        /\ X.post = post /\ X.entries = E.entries + Cardinality(new)
        /\ X.live = E.live + Cardinality(name)
    BY SMT, <2>1 DEF Engine
  <2>8. X \in Engine
    BY <2>1, <2>3, <2>6 DEF Engine
  <2> QED BY <2>7, <2>8 DEF Indexed, X, post, new
\* What AddRec changes.
<1> DEFINE Link2(E, f, k) ==
               LET chain == Chain(E, f.hash) IN
               IF k = Slot(E)
               THEN [live |-> TRUE, hash |-> f.hash, size |-> f.size, name |-> f.name,
                     next |-> 0, sib |-> chain # <<>>, src |-> <<>>]
               ELSE IF chain # <<>> /\ k = chain[Len(chain)] THEN [E.recs[k] EXCEPT !.next = Slot(E)]
               ELSE E.recs[k]
<1> DEFINE Added(E, f, X) ==
               LET i == Slot(E)
                   c == Chain(E, f.hash)
               IN
               /\ X \in Engine
               /\ X.recs = [k \in DOMAIN E.recs \cup {i} |-> Link2(E, f, k)]
               /\ X.files = [E.files EXCEPT ![f.hash] = IF c = <<>> THEN i ELSE @]
               /\ X.count = E.count + 1 /\ X.dead = E.dead
               /\ X.free = (IF E.free # <<>> THEN SubSeq(E.free, 1, Len(E.free) - 1) ELSE E.free)
               /\ X.layout = E.layout /\ X.clients = E.clients
               /\ X.post = [w \in Word |-> IF w \in f.name THEN E.post[w] \cup {i} ELSE E.post[w]]
               /\ X.entries = E.entries + Cardinality({w \in f.name : i \notin E.post[w]})
               /\ X.live = E.live + Cardinality(f.name)
<1> HIDE DEF Link2, Added
\* The fields of the engine once a record was added.
<1>AddRecIs.
    ASSUME NEW E \in Engine, Slots(E), NEW f \in Files
    PROVE  Added(E, f, AddRec(E, f))
  <2> USE <1>AddRecIs
  <2> DEFINE X == AddRec(E, f)
             i == Slot(E)
             c == Chain(E, f.hash)
             D == DOMAIN E.recs \cup {i}
             recs == [k \in D |-> Link2(E, f, k)]
             files == [E.files EXCEPT ![f.hash] = IF c = <<>> THEN i ELSE @]
             free == IF E.free # <<>> THEN SubSeq(E.free, 1, Len(E.free) - 1) ELSE E.free
             Y == [E EXCEPT !.recs = recs, !.free = free, !.files = files, !.count = E.count + 1]
  <2>1. i \in Nat \ {0} /\ 1..(IF E.free # <<>> THEN Len(E.recs) ELSE i) = D
    BY <1>SlotIs
  <2>2. X = IndexName(Y, i, f.name)
    BY <2>1 DEF AddRec, Link2
  <2>3. /\ E.recs \in Seq(Record) /\ E.free \in Seq(Nat) /\ E.files \in [Hash -> Nat] /\ E.count \in Int
        /\ f.hash \in Hash /\ f.size \in Nat /\ f.name \in Name
    BY DEF Engine, Files
  <2>4. recs \in Seq(Record)
    <3>1. \A k \in D : Link2(E, f, k) \in Record
      <4> SUFFICES ASSUME NEW k \in D PROVE Link2(E, f, k) \in Record
        BY SMT
      <4>1. CASE k = i
        BY SMT, <2>3, <4>1 DEF Link2, Record
      <4>2. CASE k # i
        <5> E.recs[k] \in Record
          BY SMT, <2>3, <4>2
        <5> [E.recs[k] EXCEPT !.next = i] \in Record
          BY SMT, <2>1 DEF Record
        <5> QED BY <4>2 DEF Link2
      <4> QED BY <4>1, <4>2
    <3> PICK n \in Nat : D = 1..n
      <4> Len(E.recs) \in Nat
        BY SMT, <2>3
      <4> QED BY <2>1
    <3> recs \in [1..n -> Record]
      BY <3>1
    <3> HIDE DEF recs
    <3> QED BY SMT
  <2>5. files \in [Hash -> Nat]
    BY SMT, <2>1, <2>3
  <2>6. free \in Seq(Nat)
    <3>1. CASE E.free = <<>>
      BY <2>3, <3>1
    <3> CASE E.free # <<>>
      <4> SubSeq(E.free, 1, Len(E.free) - 1) \in Seq(Nat)
        BY SMT, <2>3
      <4> QED OBVIOUS
    <3> QED BY <3>1
  <2>7. E.count + 1 \in Int
    BY SMT, <2>3
  <2> HIDE DEF recs, files, free
  <2>8. Y \in Engine
    BY <2>4, <2>5, <2>6, <2>7 DEF Engine
  <2>9. /\ Y.recs = recs /\ Y.files = files /\ Y.count = E.count + 1 /\ Y.dead = E.dead
        /\ Y.free = free /\ Y.layout = E.layout /\ Y.clients = E.clients
        /\ Y.post = E.post /\ Y.entries = E.entries /\ Y.live = E.live
    BY SMT DEF Engine
  <2> HIDE DEF Y, X
  <2>10. i \in Nat
    BY SMT, <2>1
  <2>11. Indexed(Y, i, f.name, X)
    BY <2>2, <2>3, <2>8, <2>10, <1>IndexNameIs
  <2>12. /\ X.post = [w \in Word |-> IF w \in f.name THEN E.post[w] \cup {i} ELSE E.post[w]]
         /\ X.entries = E.entries + Cardinality({w \in f.name : i \notin E.post[w]})
         /\ X.live = E.live + Cardinality(f.name)
    BY SMT, <2>9, <2>11 DEF Indexed
  <2>13. /\ X \in Engine /\ X.recs = recs /\ X.files = files /\ X.count = E.count + 1
         /\ X.dead = E.dead /\ X.free = free /\ X.layout = E.layout /\ X.clients = E.clients
    BY <2>9, <2>11 DEF Indexed
  <2> QED BY <2>12, <2>13 DEF Added, recs, files, free, X
\* The records after AddRec, field by field.
<1> DEFINE NewRecords(E, f, X) ==
               LET i == Slot(E)
                   c == Chain(E, f.hash)
               IN
               /\ i \in Nat \ {0} /\ DOMAIN X.recs = DOMAIN E.recs \cup {i}
               /\ X.recs[i] = [live |-> TRUE, hash |-> f.hash, size |-> f.size, name |-> f.name,
                               next |-> 0, sib |-> c # <<>>, src |-> <<>>]
               /\ \A k \in DOMAIN E.recs : k # i => SameFile(X.recs[k], E.recs[k])
               /\ \A k \in DOMAIN E.recs : k # i =>
                     X.recs[k].next = IF c # <<>> /\ k = c[Len(c)] THEN i ELSE E.recs[k].next
               /\ \A k \in DOMAIN E.recs : E.recs[k].live => k # i
<1> HIDE DEF NewRecords
\* A new record takes a slot that is not live; the rest stay, but for one link.
<1>AddedRecords.
    ASSUME NEW E \in Engine, Slots(E), NEW f \in Files, NEW X, Added(E, f, X)
    PROVE  NewRecords(E, f, X)
  <2> USE <1>AddedRecords
  <2> DEFINE i == Slot(E)
             c == Chain(E, f.hash)
             D == DOMAIN E.recs \cup {i}
  <2>1. i \in Nat \ {0} /\ (i \in DOMAIN E.recs => ~E.recs[i].live)
    BY <1>SlotIs
  <2>2. X.recs = [k \in D |-> Link2(E, f, k)]
    BY DEF Added
  <2>3. X.recs[i] = [live |-> TRUE, hash |-> f.hash, size |-> f.size, name |-> f.name,
                     next |-> 0, sib |-> c # <<>>, src |-> <<>>]
    BY <2>2 DEF Link2
  <2>4. ASSUME NEW k \in DOMAIN E.recs, k # i
        PROVE  /\ SameFile(X.recs[k], E.recs[k])
               /\ X.recs[k].next = IF c # <<>> /\ k = c[Len(c)] THEN i ELSE E.recs[k].next
    <3> X.recs[k] = IF c # <<>> /\ k = c[Len(c)] THEN [E.recs[k] EXCEPT !.next = i] ELSE E.recs[k]
      BY <2>2, <2>4 DEF Link2
    <3> E.recs[k] \in Record
      <4> E.recs \in Seq(Record)
        BY DEF Engine
      <4> QED BY SMT
    <3> HIDE DEF c, i
    <3> CASE c # <<>> /\ k = c[Len(c)]
      <4> X.recs[k] = [E.recs[k] EXCEPT !.next = i]
        OBVIOUS
      <4> X.recs[k].next = i /\ SameFile(X.recs[k], E.recs[k])
        BY SMT DEF SameFile, Same, Record
      <4> QED OBVIOUS
    <3> CASE ~(c # <<>> /\ k = c[Len(c)])
      BY DEF SameFile, Same
    <3> QED OBVIOUS
  <2>5. DOMAIN X.recs = D
    BY <2>2
  <2> QED BY <2>1, <2>3, <2>4, <2>5 DEF NewRecords
\* The new record ends the chain of its hash, and the other chains are as before.
<1>AddedChains.
    ASSUME NEW E \in Engine, Slots(E), Chains(E), NEW f \in Files, NEW X, Added(E, f, X),
           \A k \in DOMAIN E.recs : E.recs[k].live /\ E.recs[k].hash = f.hash => E.recs[k].size # f.size
    PROVE  Chains(X) /\ X.files[f.hash] # 0 /\ X.files[f.hash] \in DOMAIN X.recs
  <2> USE <1>AddedChains
  <2> DEFINE i == Slot(E)
             c == Chain(E, f.hash)
  <2>1. /\ i \in Nat \ {0} /\ DOMAIN X.recs = DOMAIN E.recs \cup {i}
        /\ X.recs[i] = [live |-> TRUE, hash |-> f.hash, size |-> f.size, name |-> f.name,
                        next |-> 0, sib |-> c # <<>>, src |-> <<>>]
        /\ \A k \in DOMAIN E.recs : k # i => SameFile(X.recs[k], E.recs[k])
        /\ \A k \in DOMAIN E.recs : k # i =>
              X.recs[k].next = IF c # <<>> /\ k = c[Len(c)] THEN i ELSE E.recs[k].next
        /\ \A k \in DOMAIN E.recs : E.recs[k].live => k # i
    BY <1>AddedRecords DEF NewRecords
  <2>2. f.hash \in Hash /\ E.files \in [Hash -> Nat] /\ E.recs \in Seq(Record)
    BY DEF Engine, Files
  <2>3. X.files = [E.files EXCEPT ![f.hash] = IF c = <<>> THEN i ELSE @] /\ X.recs \in Seq(Record)
    BY DEF Added, Engine
  <2>4. Chained(E, f.hash, c)
    BY <2>2 DEF Chains
  <2>5. ASSUME NEW h \in Hash, h # f.hash
        PROVE  Chained(X, h, Chain(E, h))
    <3> DEFINE d == Chain(E, h)
    <3> Chained(E, h, d)
      BY DEF Chains
    <3> HIDE DEF d, c, i
    <3> d \in Seq(DOMAIN E.recs) /\ c \in Seq(DOMAIN E.recs)
      BY <2>4 DEF Chained
    <3> X.files[h] = E.files[h]
      BY <2>2, <2>3, <2>5
    <3> ASSUME NEW k \in DOMAIN d
        PROVE  d[k] \in DOMAIN E.recs /\ Same(X.recs[d[k]], E.recs[d[k]]) /\ X.recs[d[k]].next = E.recs[d[k]].next
      <4> d[k] \in DOMAIN E.recs
        BY SMT
      <4> E.recs[d[k]].live /\ E.recs[d[k]].hash = h
        BY DEF Chained
      <4> d[k] # i
        BY <2>1
      <4> c # <<>> => d[k] # c[Len(c)]
        <5> c # <<>> => Len(c) \in DOMAIN c
          BY SMT
        <5> c # <<>> => E.recs[c[Len(c)]].hash = f.hash
          BY <2>4 DEF Chained
        <5> QED BY <2>5
      <4> QED BY <2>1 DEF SameFile
    <3> ASSUME NEW k \in DOMAIN X.recs, X.recs[k].live, X.recs[k].hash = h
        PROVE  k \in DOMAIN E.recs /\ E.recs[k].live /\ E.recs[k].hash = h
      <4> X.recs[i].hash = f.hash
        BY SMT, <2>1
      <4> k # i /\ k \in DOMAIN E.recs
        BY <2>1, <2>5
      <4> QED BY <2>1 DEF SameFile, Same
    <3> \A k \in DOMAIN d : d[k] \in DOMAIN X.recs
      BY <2>1
    <3> Chained(X, h, d)
      <4> Keeps(E, X, h, d)
        BY DEF Keeps
      <4> QED BY <2>2, <2>3, KeptChain
    <3> QED BY DEF d
  <2> DEFINE d == Append(c, i)
  <2>6. Chained(X, f.hash, d)
    <3> HIDE DEF c, i
    <3>1. c \in Seq(DOMAIN E.recs)
      BY <2>4 DEF Chained
    <3>2. d \in Seq(DOMAIN X.recs) /\ Len(d) = Len(c) + 1 /\ DOMAIN d = 1..(Len(c) + 1) /\ Len(c) \in Nat
          /\ DOMAIN c = 1..Len(c) /\ d[Len(c) + 1] = i /\ \A k \in 1..Len(c) : d[k] = c[k]
      <4> c \in Seq(DOMAIN X.recs) /\ i \in DOMAIN X.recs
        BY SMT, <2>1, <3>1
      <4> QED BY SMT
    <3> HIDE DEF d
    <3>3. X.files[f.hash] = IF c = <<>> THEN i ELSE E.files[f.hash]
      BY <2>2, <2>3
    <3>4. c = <<>> <=> Len(c) = 0
      BY SMT, <3>1
    <3>5. X.files[f.hash] = d[1] /\ d # <<>>
      <4>1. CASE c = <<>>
        <5> Len(c) + 1 = 1 /\ Len(d) # 0
          BY SMT, <3>2, <3>4, <4>1
        <5> d # <<>>
          BY SMT, <3>2
        <5> QED BY <3>2, <3>3, <4>1
      <4> CASE c # <<>>
        <5> E.files[f.hash] = c[1]
          BY <2>4 DEF Chained
        <5> QED BY SMT, <3>2, <3>3, <3>4
      <4> QED BY <4>1
    <3>6. ASSUME NEW k \in 1..Len(c)
          PROVE  /\ c[k] \in DOMAIN E.recs /\ c[k] # i /\ Same(X.recs[c[k]], E.recs[c[k]])
                 /\ X.recs[c[k]].next = IF c[k] = c[Len(c)] THEN i ELSE E.recs[c[k]].next
                 /\ E.recs[c[k]].live /\ E.recs[c[k]].hash = f.hash /\ (E.recs[c[k]].sib <=> k > 1)
                 /\ E.recs[c[k]].next = IF k = Len(c) THEN 0 ELSE c[k + 1]
                 /\ E.recs[c[k]].size # f.size
      <4> c[k] \in DOMAIN E.recs /\ c # <<>>
        BY SMT, <3>1
      <4> /\ E.recs[c[k]].live /\ E.recs[c[k]].hash = f.hash /\ (E.recs[c[k]].sib <=> k > 1)
          /\ E.recs[c[k]].next = IF k = Len(c) THEN 0 ELSE c[k + 1]
        BY <2>4, <3>2 DEF Chained
      <4> QED BY <2>1 DEF SameFile
    <3>7. \A j, k \in 1..Len(c) : c[j] = c[k] => j = k
      BY <2>4, <3>2 DEF Chained
    <3>8. ASSUME NEW k \in DOMAIN d
          PROVE  /\ X.recs[d[k]].live /\ X.recs[d[k]].hash = f.hash /\ (X.recs[d[k]].sib <=> k > 1)
                 /\ X.recs[d[k]].next = IF k = Len(d) THEN 0 ELSE d[k + 1]
      <4>1. CASE k = Len(c) + 1
        <5>1. d[k] = i /\ k = Len(d) /\ (k > 1 <=> c # <<>>)
          BY SMT, <3>2, <3>4, <4>1
        <5> X.recs[i].live /\ X.recs[i].hash = f.hash /\ X.recs[i].next = 0 /\ X.recs[i].sib = (c # <<>>)
          BY SMT, <2>1
        <5> QED BY <5>1
      <4>2. CASE k # Len(c) + 1
        <5> k \in 1..Len(c) /\ d[k] = c[k] /\ k # Len(d)
          BY SMT, <3>2, <4>2
        <5>1. X.recs[d[k]].live /\ X.recs[d[k]].hash = f.hash /\ (X.recs[d[k]].sib <=> k > 1)
          BY <3>6 DEF SameFile, Same
        <5>2. CASE k = Len(c)
          <6> d[k + 1] = i
            BY <3>2, <5>2
          <6> X.recs[c[k]].next = i
            BY <3>6, <5>2
          <6> QED BY <5>1
        <5>3. CASE k # Len(c)
          <6>1. k + 1 \in 1..Len(c) /\ Len(c) \in 1..Len(c)
            BY SMT, <3>2, <5>3
          <6> c[k] # c[Len(c)] /\ d[k + 1] = c[k + 1]
            BY <3>2, <3>7, <5>3, <6>1
          <6> X.recs[c[k]].next = c[k + 1]
            BY <3>6, <5>3
          <6> QED BY <5>1
        <5> QED BY <5>2, <5>3
      <4> QED BY <4>1, <4>2
    <3>9. ASSUME NEW j \in DOMAIN d, NEW k \in DOMAIN d, j # k
          PROVE  X.recs[d[j]].size # X.recs[d[k]].size
      <4>1. X.recs[i].size = f.size
        BY SMT, <2>1
      <4>2. \A l \in 1..Len(c) : X.recs[c[l]].size = E.recs[c[l]].size /\ E.recs[c[l]].size # f.size
        BY <3>6 DEF SameFile, Same
      <4>3. \A l \in DOMAIN d : l = Len(c) + 1 \/ l \in 1..Len(c)
        BY SMT, <3>2
      <4>4. CASE j \in 1..Len(c) /\ k \in 1..Len(c)
        <5> E.recs[c[j]].size # E.recs[c[k]].size
          BY <2>4, <3>2, <3>9, <4>4 DEF Chained
        <5> QED BY <3>2, <4>2, <4>4
      <4>5. CASE j = Len(c) + 1 /\ k \in 1..Len(c)
        BY <3>2, <4>1, <4>2, <4>5
      <4>6. CASE k = Len(c) + 1 /\ j \in 1..Len(c)
        BY <3>2, <4>1, <4>2, <4>6
      <4> QED BY <3>9, <4>3, <4>4, <4>5, <4>6
    <3>10. ASSUME NEW k \in DOMAIN X.recs, X.recs[k].live, X.recs[k].hash = f.hash
           PROVE  In(d, k)
      <4>1. CASE k = i
        <5> Len(c) + 1 \in DOMAIN d
          BY SMT, <3>2
        <5> QED BY <3>2, <4>1 DEF In
      <4>2. CASE k # i
        <5>1. k \in DOMAIN E.recs /\ E.recs[k].live /\ E.recs[k].hash = f.hash
          BY <2>1, <3>10, <4>2 DEF SameFile, Same
        <5> PICK l \in DOMAIN c : c[l] = k
          BY <2>4, <5>1 DEF Chained, In
        <5> l \in DOMAIN d /\ d[l] = k
          BY SMT, <3>2
        <5> QED BY DEF In
      <4> QED BY <4>1, <4>2
    <3> QED BY <3>2, <3>5, <3>8, <3>9, <3>10 DEF Chained
  <2>7. Chain(X, f.hash) = d
    BY <2>3, <2>6, ChainIs
  <2>8. ASSUME NEW h \in Hash PROVE Chained(X, h, Chain(X, h))
    <3> CASE h = f.hash
      BY <2>6, <2>7
    <3> CASE h # f.hash
      <4> Chain(X, h) = Chain(E, h)
        BY <2>3, <2>5, ChainIs
      <4> QED BY <2>5
    <3> QED OBVIOUS
  <2>9. X.files[f.hash] = d[1] /\ d[1] \in DOMAIN X.recs /\ d[1] # 0
    <3> HIDE DEF d
    <3>1. d \in Seq(DOMAIN X.recs) /\ (d = <<>> => X.files[f.hash] = 0) /\ (d # <<>> => X.files[f.hash] = d[1])
      BY <2>6 DEF Chained
    <3>2. d # <<>>
      <4> c \in Seq(DOMAIN E.recs)
        BY <2>4 DEF Chained
      <4> HIDE DEF c, i
      <4> QED BY SMT DEF d
    <3>3. DOMAIN X.recs \subseteq Nat \ {0}
      BY SMT, <2>3
    <3> QED BY SMT, <3>1, <3>2, <3>3
  <2> QED BY <2>8, <2>9 DEF Chains
\* The slots after AddRec.
<1>AddedSlots.
    ASSUME NEW E \in Engine, Slots(E), Chains(E), NEW f \in Files, NEW X, Added(E, f, X)
    PROVE  Slots(X)
  <2> USE <1>AddedSlots
  <2> DEFINE i == Slot(E)
             c == Chain(E, f.hash)
  <2>1. /\ i \in Nat \ {0} /\ DOMAIN X.recs = DOMAIN E.recs \cup {i}
        /\ X.recs[i] = [live |-> TRUE, hash |-> f.hash, size |-> f.size, name |-> f.name,
                        next |-> 0, sib |-> c # <<>>, src |-> <<>>]
        /\ \A k \in DOMAIN E.recs : k # i => SameFile(X.recs[k], E.recs[k])
        /\ \A k \in DOMAIN E.recs : k # i =>
              X.recs[k].next = IF c # <<>> /\ k = c[Len(c)] THEN i ELSE E.recs[k].next
        /\ \A k \in DOMAIN E.recs : E.recs[k].live => k # i
    BY <1>AddedRecords DEF NewRecords
  <2>2. f.hash \in Hash /\ E.recs \in Seq(Record) /\ E.free \in Seq(Nat) /\ E.dead \in Seq(Nat)
    BY DEF Engine, Files
  <2>3. /\ X.dead = E.dead /\ X.count = E.count + 1
        /\ X.free = (IF E.free # <<>> THEN SubSeq(E.free, 1, Len(E.free) - 1) ELSE E.free)
    BY DEF Added
  <2>4. /\ Distinct(E.dead) /\ Distinct(E.free) /\ \A j \in Nat : In(E.dead, j) => ~In(E.free, j)
        /\ \A j \in Nat : In(E.dead, j) \/ In(E.free, j) <=> j \in DOMAIN E.recs /\ ~E.recs[j].live
        /\ \A j \in DOMAIN E.recs : ~E.recs[j].live => E.recs[j].next = 0 /\ E.recs[j].src = <<>>
        /\ E.count = Cardinality(Live(E))
    BY DEF Slots
  <2>5. /\ i \in DOMAIN E.recs <=> E.free # <<>>
        /\ i \in DOMAIN E.recs => In(E.free, i)
        /\ E.free # <<>> => i = E.free[Len(E.free)]
    BY <1>SlotIs DEF Slot
  <2>6. Chained(E, f.hash, c)
    BY <2>2 DEF Chains
  <2>7. X.recs[i].live
    BY SMT, <2>1
  <2> HIDE DEF i, c
  <2>8. Distinct(X.free) /\ \A j \in Nat : In(X.free, j) <=> In(E.free, j) /\ j # i
    <3>1. CASE E.free = <<>>
      <4> X.free = E.free /\ \A j : ~In(E.free, j)
        BY SMT, <2>3, <3>1 DEF In
      <4> QED BY <2>4
    <3>2. CASE E.free # <<>>
      <4> DEFINE n == Len(E.free)
      <4> n \in Nat \ {0} /\ DOMAIN E.free = 1..n /\ i = E.free[n] /\ n \in 1..n
        BY SMT, <2>2, <2>5, <3>2
      <4>1. X.free = SubSeq(E.free, 1, n - 1)
        BY <2>3, <3>2
      <4>2. DOMAIN X.free = 1..(n - 1) /\ \A k \in 1..(n - 1) : X.free[k] = E.free[k]
        BY SMT, <2>2, <4>1
      <4> HIDE DEF n
      <4>3. \A k \in 1..n : k \in 1..(n - 1) \/ k = n
        BY SMT
      <4> \A k \in 1..(n - 1) : k \in 1..n /\ k # n
        BY SMT
      <4> Distinct(X.free)
        BY <2>4, <4>2 DEF Distinct
      <4> \A k \in 1..(n - 1) : E.free[k] # i
        BY <2>4 DEF Distinct
      <4> \A j \in Nat : In(X.free, j) <=> In(E.free, j) /\ j # i
        BY <4>2, <4>3 DEF In
      <4> QED OBVIOUS
    <3> QED BY <3>1, <3>2
  <2>9. ASSUME NEW j \in Nat
        PROVE  In(X.dead, j) \/ In(X.free, j) <=> j \in DOMAIN X.recs /\ ~X.recs[j].live
    <3> CASE j = i
      <4> ~In(E.dead, i)
        BY <2>4, <2>5
      <4> QED BY <2>3, <2>7, <2>8
    <3> CASE j # i
      <4> j \in DOMAIN X.recs /\ ~X.recs[j].live <=> j \in DOMAIN E.recs /\ ~E.recs[j].live
        BY <2>1 DEF SameFile, Same
      <4> QED BY <2>3, <2>4, <2>8
    <3> QED OBVIOUS
  <2>10. ASSUME NEW j \in DOMAIN X.recs, ~X.recs[j].live
         PROVE  X.recs[j].next = 0 /\ X.recs[j].src = <<>>
    <3> j # i /\ j \in DOMAIN E.recs
      BY <2>1, <2>7, <2>10
    <3> ~E.recs[j].live
      BY <2>1, <2>10 DEF SameFile, Same
    <3> ~(c # <<>> /\ j = c[Len(c)])
      <4> SUFFICES ASSUME c # <<>> PROVE j # c[Len(c)]
        BY SMT
      <4> c \in Seq(DOMAIN E.recs)
        BY <2>6 DEF Chained
      <4> Len(c) \in DOMAIN c
        BY SMT
      <4> E.recs[c[Len(c)]].live
        BY <2>6 DEF Chained
      <4> QED OBVIOUS
    <3> QED BY <2>1, <2>4 DEF SameFile
  <2>11. X.count = Cardinality(Live(X))
    <3>1. Live(X) = Live(E) \cup {i} /\ i \notin Live(E)
      <4> \A k \in DOMAIN E.recs : k # i => (X.recs[k].live <=> E.recs[k].live)
        BY <2>1 DEF SameFile, Same
      <4> QED BY <2>1, <2>7 DEF Live
    <3>2. IsFiniteSet(Live(E))
      <4> Live(E) \in SUBSET (1..Len(E.recs)) /\ Len(E.recs) \in Nat
        BY SMT, <2>2 DEF Live
      <4> QED BY Places
    <3> Cardinality(Live(X)) = Cardinality(Live(E)) + 1
      BY <3>1, <3>2, FS_AddElement
    <3> QED BY <2>3, <2>4
  <2>12. \A j \in Nat : In(X.dead, j) => ~In(X.free, j)
    BY <2>3, <2>4, <2>8
  <2> QED BY <2>3, <2>4, <2>8, <2>9, <2>10, <2>11, <2>12 DEF Slots
\* The entries once the words of a name have i under them.
<1> DEFINE Posted(E, i, name, X) ==
               /\ X.post = [w \in Word |-> IF w \in name THEN E.post[w] \cup {i} ELSE E.post[w]]
               /\ DOMAIN X.recs = DOMAIN E.recs \cup {i}
               /\ \A w \in Word : \A k \in E.post[w] : k \in DOMAIN E.recs
<1> DEFINE NewWords(E, i, name) == {w \in name : i \notin E.post[w]}
<1> HIDE DEF Posted, NewWords
\* As many entries are new as words that did not have the id.
<1>EntriesGrow.
    ASSUME NEW E, NEW X, IsFiniteSet(Entries(E)), NEW i, NEW name \in Name, Posted(E, i, name, X)
    PROVE  /\ IsFiniteSet(Entries(X))
           /\ Cardinality(Entries(X)) = Cardinality(Entries(E)) + Cardinality(NewWords(E, i, name))
  <2> USE <1>EntriesGrow
  <2> USE DEF Posted, NewWords
  <2> DEFINE new == {w \in name : i \notin E.post[w]}
  <2>1. name \in SUBSET Word /\ IsFiniteSet(name) /\ new \in SUBSET name
    BY DEF Name
  <2>2. IsFiniteSet(new)
    <3> HIDE DEF new
    <3> QED BY <2>1, FS_Subset
  <2>3. Entries(X) = Entries(E) \cup (new \X {i})
    <3>1. \A w \in Word : X.post[w] = IF w \in name THEN E.post[w] \cup {i} ELSE E.post[w]
      OBVIOUS
    <3>2. \A x : x \in Entries(X) <=> \E w \in Word, k \in DOMAIN X.recs : x = <<w, k>> /\ k \in X.post[w]
      BY SMT DEF Entries
    <3>3. \A x : x \in Entries(E) <=> \E w \in Word, k \in DOMAIN E.recs : x = <<w, k>> /\ k \in E.post[w]
      BY SMT DEF Entries
    <3>4. \A x : x \in new \X {i} <=> \E w \in new : x = <<w, i>>
      BY SMT
    <3>5. \A x \in Entries(X) : x \in Entries(E) \/ x \in new \X {i}
      <4> SUFFICES ASSUME NEW x \in Entries(X)
                   PROVE  x \in Entries(E) \/ x \in new \X {i}
        BY SMT
      <4> PICK w \in Word, k \in DOMAIN X.recs : x = <<w, k>> /\ k \in X.post[w]
        BY <3>2
      <4> CASE k \in E.post[w]
        BY <3>3
      <4> CASE k \notin E.post[w]
        <5> CASE w \in name
          <6> X.post[w] = E.post[w] \cup {i}
            BY <3>1
          <6> k = i
            OBVIOUS
          <6> QED BY <3>4
        <5> CASE w \notin name
          BY <3>1
        <5> QED OBVIOUS
      <4> QED OBVIOUS
    <3> \A x \in Entries(E) : x \in Entries(X)
      BY <3>1, <3>2, <3>3
    <3> \A x \in new \X {i} : x \in Entries(X)
      BY <2>1, <3>1, <3>2, <3>4
    <3> QED BY <3>5
  <2>4. Entries(E) \cap (new \X {i}) = {}
    BY SMT DEF Entries
  <2> HIDE DEF new
  <2>5. /\ IsFiniteSet(Entries(X)) /\ Cardinality(Entries(X)) = Cardinality(Entries(E)) + Cardinality(new)
    <3> /\ IsFiniteSet(Entries(E) \cup (new \X {i}))
        /\ Cardinality(Entries(E) \cup (new \X {i})) = Cardinality(Entries(E)) + Cardinality(new)
      BY <2>2, <2>4, AddPairs
    <3> QED BY <2>3
  <2> QED BY <2>5 DEF new
\* The index after AddRec.
<1>AddedIndex.
    ASSUME NEW E \in Engine, Slots(E), Index(E), NEW f \in Files, NEW X, Added(E, f, X), Slots(X)
    PROVE  Index(X)
  <2> USE <1>AddedIndex
  <2> DEFINE i == Slot(E)
             c == Chain(E, f.hash)
  <2>1. /\ i \in Nat \ {0} /\ DOMAIN X.recs = DOMAIN E.recs \cup {i}
        /\ X.recs[i] = [live |-> TRUE, hash |-> f.hash, size |-> f.size, name |-> f.name,
                        next |-> 0, sib |-> c # <<>>, src |-> <<>>]
        /\ \A k \in DOMAIN E.recs : k # i => SameFile(X.recs[k], E.recs[k])
        /\ \A k \in DOMAIN E.recs : E.recs[k].live => k # i
    <3> NewRecords(E, f, X)
      BY <1>AddedRecords
    <3> QED BY DEF NewRecords
  <2>2. X.recs[i].live /\ X.recs[i].name = f.name
    BY SMT, <2>1
  <2>3. f.name \in Name /\ f.name \in SUBSET Word /\ IsFiniteSet(f.name)
    BY DEF Files, Name
  <2>4. /\ X.post = [w \in Word |-> IF w \in f.name THEN E.post[w] \cup {i} ELSE E.post[w]]
        /\ X.entries = E.entries + Cardinality({w \in f.name : i \notin E.post[w]})
        /\ X.live = E.live + Cardinality(f.name)
    BY DEF Added
  <2>5. /\ \A k \in Live(E) : \A w \in E.recs[k].name : k \in E.post[w]
        /\ \A w \in Word : \A k \in E.post[w] : k \in DOMAIN E.recs /\ ~In(E.free, k)
        /\ IsFiniteSet(Entries(E)) /\ E.entries = Cardinality(Entries(E))
        /\ E.live = Cardinality(Named(E))
    BY DEF Index
  <2>6. E.recs \in Seq(Record) /\ E.free \in Seq(Nat)
        /\ X.free = (IF E.free # <<>> THEN SubSeq(E.free, 1, Len(E.free) - 1) ELSE E.free)
    BY DEF Engine, Added
  <2> HIDE DEF i, c
  <2>7. \A k \in DOMAIN E.recs : k # i => X.recs[k].name = E.recs[k].name /\ (X.recs[k].live <=> E.recs[k].live)
    BY <2>1 DEF SameFile, Same
  <2>8. \A w \in Word : X.post[w] = IF w \in f.name THEN E.post[w] \cup {i} ELSE E.post[w]
    BY <2>4
  <2>9. ASSUME NEW k \in Live(X), NEW w \in X.recs[k].name PROVE k \in X.post[w]
    <3> CASE k = i
      BY <2>2, <2>3, <2>8, <2>9
    <3> CASE k # i
      <4> k \in DOMAIN E.recs /\ k \in Live(E) /\ w \in E.recs[k].name
        BY <2>1, <2>7, <2>9 DEF Live
      <4> w \in Word
        <5> E.recs[k] \in Record
          BY SMT, <2>6
        <5> E.recs[k].name \in SUBSET Word
          BY DEF Record, Name
        <5> QED OBVIOUS
      <4> QED BY <2>5, <2>8
    <3> QED OBVIOUS
  <2>10. ASSUME NEW w \in Word, NEW k \in X.post[w] PROVE k \in DOMAIN X.recs /\ ~In(X.free, k)
    <3>1. k \in DOMAIN X.recs
      BY <2>1, <2>5, <2>8, <2>10
    <3>2. CASE k = i
      BY <2>1, <2>2, <3>1, <3>2 DEF Slots
    <3>3. CASE k # i
      <4>1. ~In(E.free, k)
        BY <2>5, <2>8, <3>3
      <4>2. In(X.free, k) => In(E.free, k)
        <5>1. CASE E.free = <<>>
          BY <2>6, <5>1
        <5> CASE E.free # <<>>
          <6> X.free = SubSeq(E.free, 1, Len(E.free) - 1)
            BY <2>6
          <6> \A j \in DOMAIN X.free : j \in DOMAIN E.free /\ X.free[j] = E.free[j]
            BY SMT, <2>6
          <6> QED BY DEF In
        <5> QED BY <5>1
      <4> QED BY <3>1, <4>1, <4>2
    <3> QED BY <3>2, <3>3
  <2>11. IsFiniteSet(Entries(X)) /\ X.entries = Cardinality(Entries(X))
    <3>1. /\ IsFiniteSet(Entries(X))
          /\ Cardinality(Entries(X)) = Cardinality(Entries(E)) + Cardinality(NewWords(E, i, f.name))
      <4>1. Posted(E, i, f.name, X)
        BY <2>1, <2>4, <2>5 DEF Posted
      <4> QED BY <2>3, <2>5, <4>1, <1>EntriesGrow
    <3> QED BY <2>4, <2>5, <3>1 DEF NewWords
  <2>12. X.live = Cardinality(Named(X))
    <3> IsFiniteSet(Named(E))
      BY NamedEntries
    <3> Live(X) = Live(E) \cup {i} /\ i \notin Live(E) /\ \A k \in Live(E) : X.recs[k].name = E.recs[k].name
      BY <2>1, <2>2, <2>7 DEF Live
    <3> Named(X) = Named(E) \cup (f.name \X {i}) /\ Named(E) \cap (f.name \X {i}) = {}
      BY SMT, <2>2, <2>3 DEF Named
    <3> Cardinality(Named(E) \cup (f.name \X {i})) = Cardinality(Named(E)) + Cardinality(f.name)
      BY <2>3, AddPairs
    <3> QED BY <2>4, <2>5
  <2> QED BY <2>9, <2>10, <2>11, <2>12 DEF Index
\* What a known file's record becomes.
<1> DEFINE Renamed(E, i, name, X) ==
               /\ X \in Engine
               /\ X.recs = [E.recs EXCEPT ![i] = [E.recs[i] EXCEPT !.name = name]]
               /\ X.files = E.files /\ X.count = E.count /\ X.dead = E.dead /\ X.free = E.free
               /\ X.layout = E.layout /\ X.clients = E.clients
               /\ IF E.recs[i].name = name THEN X.post = E.post /\ X.entries = E.entries /\ X.live = E.live
                  ELSE /\ X.post = [w \in Word |-> IF w \in name THEN E.post[w] \cup {i} ELSE E.post[w]]
                       /\ X.entries = E.entries + Cardinality({w \in name : i \notin E.post[w]})
                       /\ X.live = E.live - Cardinality(E.recs[i].name) + Cardinality(name)
<1> HIDE DEF Renamed
\* The fields of the engine once a file was renamed.
<1>RenamedIs.
    ASSUME NEW E \in Engine, NEW i \in DOMAIN E.recs, NEW name \in Name
    PROVE  Renamed(E, i, name,
                   [RenameFile(E, i, E.recs[i].name, name) EXCEPT !.recs[i].name = name])
  <2> USE <1>RenamedIs
  <2> DEFINE old == E.recs[i].name
             Y == RenameFile(E, i, old, name)
             X == [Y EXCEPT !.recs[i].name = name]
             recs == [E.recs EXCEPT ![i] = [E.recs[i] EXCEPT !.name = name]]
  <2>1. /\ E.recs \in Seq(Record) /\ E.live \in Int /\ i \in Nat
        /\ E.recs[i] \in Record /\ old \in Name
    <3> E.recs \in Seq(Record) /\ E.live \in Int
      BY DEF Engine
    <3> i \in Nat /\ E.recs[i] \in Record
      BY SMT
    <3> QED BY DEF Record
  <2>2. [E.recs[i] EXCEPT !.name = name] \in Record
    BY <2>1 DEF Record
  <2>3. recs \in Seq(Record)
    BY SMT, <2>1, <2>2
  <2> HIDE DEF recs
  <2>4. ASSUME NEW Z \in Engine, Z.recs = E.recs
        PROVE  LET V == [Z EXCEPT !.recs[i].name = name] IN
               /\ V \in Engine /\ V.recs = recs /\ V.files = Z.files /\ V.count = Z.count
               /\ V.dead = Z.dead /\ V.free = Z.free /\ V.layout = Z.layout /\ V.clients = Z.clients
               /\ V.post = Z.post /\ V.entries = Z.entries /\ V.live = Z.live
    <3> DEFINE V == [Z EXCEPT !.recs[i].name = name]
    <3> V = [Z EXCEPT !.recs = recs]
      BY <2>4 DEF recs
    <3> HIDE DEF V
    <3> V \in Engine
      BY <2>3 DEF Engine
    <3> /\ V.recs = recs /\ V.files = Z.files /\ V.count = Z.count
        /\ V.dead = Z.dead /\ V.free = Z.free /\ V.layout = Z.layout /\ V.clients = Z.clients
        /\ V.post = Z.post /\ V.entries = Z.entries /\ V.live = Z.live
      BY SMT DEF Engine
    <3> QED BY DEF V
  <2>5. CASE old = name
    <3>1. Y = E
      BY <2>5 DEF RenameFile
    <3>2. /\ X \in Engine /\ X.recs = recs /\ X.files = E.files /\ X.count = E.count
          /\ X.dead = E.dead /\ X.free = E.free /\ X.layout = E.layout /\ X.clients = E.clients
          /\ X.post = E.post /\ X.entries = E.entries /\ X.live = E.live
      <4> HIDE DEF Y
      <4> QED BY <2>4, <3>1
    <3> HIDE DEF X
    <3> Renamed(E, i, name, X)
      BY <2>5, <3>2 DEF Renamed, recs
    <3> QED BY DEF X
  <2>6. CASE old # name
    <3> DEFINE W == [E EXCEPT !.live = E.live - Cardinality(old)]
    <3>1. Y = IndexName(W, i, name)
      BY <2>6 DEF RenameFile
    <3>2. E.live - Cardinality(old) \in Int
      <4> IsFiniteSet(old)
        BY <2>1 DEF Name
      <4> Cardinality(old) \in Nat
        BY FS_CardinalityType
      <4> QED BY SMT, <2>1
    <3> HIDE DEF old, Y
    <3>3. W \in Engine
      BY <3>2 DEF Engine
    <3> /\ W.recs = E.recs /\ W.files = E.files /\ W.count = E.count /\ W.dead = E.dead
        /\ W.free = E.free /\ W.layout = E.layout /\ W.clients = E.clients
        /\ W.post = E.post /\ W.entries = E.entries /\ W.live = E.live - Cardinality(old)
      BY SMT DEF Engine
    <3> HIDE DEF W
    <3> Indexed(W, i, name, Y)
      BY <2>1, <3>1, <3>3, <1>IndexNameIs
    <3>4. Y \in Engine /\ Y.recs = E.recs
      BY DEF Indexed
    <3> /\ X \in Engine /\ X.recs = recs /\ X.files = Y.files /\ X.count = Y.count
        /\ X.dead = Y.dead /\ X.free = Y.free /\ X.layout = Y.layout /\ X.clients = Y.clients
        /\ X.post = Y.post /\ X.entries = Y.entries /\ X.live = Y.live
      BY <2>4, <3>4
    <3> HIDE DEF X
    <3>5. /\ X.files = E.files /\ X.count = E.count
          /\ X.dead = E.dead /\ X.free = E.free /\ X.layout = E.layout /\ X.clients = E.clients
      BY DEF Indexed
    <3> /\ X.post = [w \in Word |-> IF w \in name THEN E.post[w] \cup {i} ELSE E.post[w]]
        /\ X.entries = E.entries + Cardinality({w \in name : i \notin E.post[w]})
        /\ X.live = E.live - Cardinality(old) + Cardinality(name)
      BY SMT DEF Indexed
    <3> Renamed(E, i, name, X)
      BY <2>6, <3>5 DEF Renamed, recs, old
    <3> QED BY DEF X, Y, old
  <2> QED BY <2>5, <2>6
\* A rename leaves chains and slots alone and covers the new name.
<1>RenamedBuilt.
    ASSUME NEW E, Built(E), NEW i \in DOMAIN E.recs, E.recs[i].live, NEW name \in Name,
           NEW X, Renamed(E, i, name, X)
    PROVE  /\ Built(X) /\ Alike(E, X)
           /\ \A k \in DOMAIN E.recs : X.recs[k].src = E.recs[k].src
  <2> USE <1>RenamedBuilt
  <2> DEFINE old == E.recs[i].name
             new == [E.recs[i] EXCEPT !.name = name]
  <2>1. E \in Engine /\ Slots(E) /\ Chains(E) /\ Index(E) /\ X \in Engine
    BY DEF Built, Renamed
  <2>2. E.recs \in Seq(Record) /\ X.recs = [E.recs EXCEPT ![i] = new] /\ X.files = E.files
        /\ X.free = E.free /\ X.dead = E.dead /\ X.count = E.count
    BY <2>1 DEF Engine, Renamed
  <2>3. E.recs[i] \in Record
    BY SMT, <2>2
  <2>4. new.name = name /\ Same(new, E.recs[i]) /\ new.next = E.recs[i].next /\ new.src = E.recs[i].src
    BY SMT, <2>3 DEF Record, Same
  <2>5. old \in SUBSET Word /\ IsFiniteSet(old) /\ name \in SUBSET Word /\ IsFiniteSet(name)
    BY <2>3 DEF Record, Name
  <2> HIDE DEF new, old
  <2>6. DOMAIN X.recs = DOMAIN E.recs /\ X.recs[i] = new /\ \A k \in DOMAIN E.recs : k # i => X.recs[k] = E.recs[k]
    BY SMT, <2>2
  <2>7. Alike(E, X)
    <3> \A k \in DOMAIN E.recs : Same(X.recs[k], E.recs[k]) /\ X.recs[k].next = E.recs[k].next
      BY <2>4, <2>6 DEF Same
    <3> QED BY <2>2, <2>6 DEF Alike
  <2>8. \A k \in DOMAIN E.recs : X.recs[k].src = E.recs[k].src
    BY <2>4, <2>6
  <2>9. Chains(X)
    BY <2>1, <2>7, AlikeChains
  <2>10. Slots(X)
    <3> \A k \in DOMAIN E.recs : E.recs[k].src = <<>> /\ ~E.recs[k].live => X.recs[k].src = <<>>
      BY <2>8
    <3> QED BY <2>1, <2>2, <2>7, AlikeSlots
  <2>11. CASE old = name
    <3> X.post = E.post /\ X.entries = E.entries /\ X.live = E.live
      BY <2>11 DEF Renamed, old
    <3> \A k \in DOMAIN E.recs : X.recs[k].name = E.recs[k].name
      BY <2>4, <2>6, <2>11 DEF old
    <3> Index(X)
      BY <2>1, <2>2, <2>7, AlikeIndex
    <3> QED BY <2>1, <2>7, <2>8, <2>9, <2>10 DEF Built
  <2>12. CASE old # name
    <3>1. /\ X.post = [w \in Word |-> IF w \in name THEN E.post[w] \cup {i} ELSE E.post[w]]
          /\ X.entries = E.entries + Cardinality({w \in name : i \notin E.post[w]})
          /\ X.live = E.live - Cardinality(old) + Cardinality(name)
      BY <2>12 DEF Renamed, old
    <3>2. \A w \in Word : X.post[w] = IF w \in name THEN E.post[w] \cup {i} ELSE E.post[w]
      BY <3>1
    <3>3. /\ \A k \in Live(E) : \A w \in E.recs[k].name : k \in E.post[w]
          /\ \A w \in Word : \A k \in E.post[w] : k \in DOMAIN E.recs /\ ~In(E.free, k)
          /\ IsFiniteSet(Entries(E)) /\ E.entries = Cardinality(Entries(E))
          /\ E.live = Cardinality(Named(E))
      BY <2>1 DEF Index
    <3>4. Live(X) = Live(E) /\ i \in Live(E) /\ \A k \in Live(E) : k \in DOMAIN E.recs
      BY <2>6, <2>7 DEF Alike, Same, Live
    <3>5. ASSUME NEW k \in Live(X), NEW w \in X.recs[k].name PROVE k \in X.post[w]
      <4>1. CASE k = i
        BY <2>4, <2>5, <2>6, <3>2, <3>5, <4>1
      <4>2. CASE k # i
        <5>1. k \in Live(E) /\ w \in E.recs[k].name /\ E.recs[k] \in Record
          <6> k \in Live(E) /\ k \in DOMAIN E.recs
            BY <3>4, <3>5
          <6> E.recs[k] \in Record
            BY SMT, <2>2
          <6> QED BY <2>6, <3>5, <4>2
        <5> w \in Word
          BY <5>1 DEF Record, Name
        <5> QED BY <3>2, <3>3, <5>1
      <4> QED BY <4>1, <4>2
    <3>6. ASSUME NEW w \in Word, NEW k \in X.post[w] PROVE k \in DOMAIN X.recs /\ ~In(X.free, k)
      <4>1. CASE k \in E.post[w]
        BY <2>2, <2>6, <3>3, <4>1
      <4>2. CASE k \notin E.post[w]
        <5>1. k = i
          <6> CASE w \in name
            <7> X.post[w] = E.post[w] \cup {i}
              BY <3>2
            <7> QED BY <3>6, <4>2
          <6> CASE w \notin name
            BY <3>2, <3>6, <4>2
          <6> QED OBVIOUS
        <5> i \in Nat
          BY SMT, <2>2
        <5> ~In(E.free, i)
          BY <2>1 DEF Slots
        <5> QED BY <2>2, <2>6, <5>1
      <4> QED BY <4>1, <4>2
    <3>7. IsFiniteSet(Entries(X)) /\ X.entries = Cardinality(Entries(X))
      <4>1. DOMAIN X.recs = DOMAIN E.recs \cup {i}
        BY <2>6
      <4> Posted(E, i, name, X)
        BY <3>1, <3>3, <4>1 DEF Posted
      <4> /\ IsFiniteSet(Entries(X))
          /\ Cardinality(Entries(X)) = Cardinality(Entries(E)) + Cardinality(NewWords(E, i, name))
        BY <3>3, <1>EntriesGrow
      <4> QED BY <3>1, <3>3 DEF NewWords
    <3>8. X.live = Cardinality(Named(X))
      <4> DEFINE B == {x \in Named(E) : x[2] # i}
      <4>1. IsFiniteSet(Named(E)) /\ B \in SUBSET Named(E)
        BY <2>1, NamedEntries
      <4>2. Named(E) = B \cup (old \X {i}) /\ B \cap (old \X {i}) = {}
        BY SMT, <2>5, <3>4 DEF Named, old
      <4>3. Named(X) = B \cup (name \X {i}) /\ B \cap (name \X {i}) = {}
        <5> X.recs[i].name = name /\ \A k \in Live(E) : k # i => X.recs[k].name = E.recs[k].name
          BY <2>4, <2>6, <3>4
        <5> QED BY SMT, <2>5, <3>4 DEF Named
      <4> HIDE DEF B
      <4>4. IsFiniteSet(B)
        BY <4>1, FS_Subset
      <4>5. Cardinality(B \cup (old \X {i})) = Cardinality(B) + Cardinality(old)
        BY <2>5, <4>2, <4>4, AddPairs
      <4>6. Cardinality(B \cup (name \X {i})) = Cardinality(B) + Cardinality(name)
        BY <2>5, <4>3, <4>4, AddPairs
      <4> Cardinality(B) \in Nat /\ Cardinality(old) \in Nat /\ Cardinality(name) \in Nat
        BY <2>5, <4>4, FS_CardinalityType
      <4> E.live = Cardinality(B) + Cardinality(old) /\ Cardinality(Named(X)) = Cardinality(B) + Cardinality(name)
        BY <3>3, <4>2, <4>3, <4>5, <4>6
      <4> QED BY SMT, <3>1
    <3> Index(X)
      BY <3>5, <3>6, <3>7, <3>8 DEF Index
    <3> QED BY <2>1, <2>7, <2>8, <2>9, <2>10 DEF Built
  <2> QED BY <2>11, <2>12
<1> SUFFICES ASSUME NEW E, Built(E), NEW f \in Files
             PROVE  Built(StoreFile(E, f)) /\ Grown(E, f, StoreFile(E, f))
  OBVIOUS
<1> DEFINE X == StoreFile(E, f)
           at == FindRec(E, f.hash, f.size)
<1>1. E \in Engine /\ Slots(E) /\ Chains(E) /\ Index(E) /\ f.hash \in Hash /\ f.size \in Nat /\ f.name \in Name
  BY DEF Built, Files
<1>2. Found(E, f.hash, f.size, at)
  BY <1>1, <1>FindRecIs
<1>3. E.recs \in Seq(Record) /\ E.files \in [Hash -> Nat]
  BY <1>1 DEF Engine
<1>4. 0 \notin DOMAIN E.recs
  BY SMT, <1>3
<1>5. CASE at = 0
  <2>1. \A k \in DOMAIN E.recs : E.recs[k].live /\ E.recs[k].hash = f.hash => E.recs[k].size # f.size
    <3> HIDE DEF at
    <3> QED BY <1>2, <1>4, <1>5 DEF Found
  <2>2. X = AddRec(E, f)
    BY <1>5 DEF StoreFile
  <2> HIDE DEF X, at
  <2>3. Added(E, f, X)
    BY <1>1, <2>2, <1>AddRecIs
  <2>4. Chains(X) /\ X.files[f.hash] \in DOMAIN X.recs
    BY <1>1, <2>1, <2>3, <1>AddedChains
  <2>5. Slots(X)
    BY <1>1, <2>3, <1>AddedSlots
  <2>6. Index(X)
    BY <1>1, <2>3, <2>5, <1>AddedIndex
  <2>7. X \in Engine /\ X.layout = E.layout /\ X.clients = E.clients
    BY <2>3 DEF Added
  <2>8. \A h \in Hash : h # f.hash => X.files[h] = E.files[h]
    <3> DEFINE head == IF Chain(E, f.hash) = <<>> THEN Slot(E) ELSE E.files[f.hash]
    <3> X.files = [E.files EXCEPT ![f.hash] = head]
      BY <2>3 DEF Added
    <3> HIDE DEF head
    <3> QED BY <1>3
  <2> DEFINE i == Slot(E)
  <2>9. NewRecords(E, f, X)
    BY <1>1, <2>3, <1>AddedRecords
  <2>10. /\ DOMAIN X.recs = DOMAIN E.recs \cup {i}
         /\ \A k \in DOMAIN E.recs : k # i => SameFile(X.recs[k], E.recs[k])
         /\ \A k \in DOMAIN E.recs : E.recs[k].live => k # i
    BY <2>9 DEF NewRecords
  <2>11. X.recs[i].src = <<>> /\ X.recs[i].hash = f.hash
    <3> X.recs[i] = [live |-> TRUE, hash |-> f.hash, size |-> f.size, name |-> f.name,
                     next |-> 0, sib |-> Chain(E, f.hash) # <<>>, src |-> <<>>]
      BY <2>9 DEF NewRecords
    <3> QED BY SMT
  <2> i \in DOMAIN E.recs => E.recs[i].src = <<>>
    BY <1>1, <2>10 DEF Slots
  <2> HIDE DEF i
  <2> \A k \in DOMAIN E.recs : /\ k \in DOMAIN X.recs /\ X.recs[k].src = E.recs[k].src
                               /\ E.recs[k].live => Same(X.recs[k], E.recs[k])
    BY <2>10, <2>11 DEF SameFile
  <2> \A k \in DOMAIN X.recs : k \notin DOMAIN E.recs => X.recs[k].src = <<>>
    BY <2>10, <2>11
  <2> \A k \in DOMAIN X.recs :
        X.recs[k].live => X.recs[k].hash = f.hash \/ (k \in DOMAIN E.recs /\ E.recs[k].live)
    BY <2>10, <2>11 DEF SameFile, Same
  <2> Built(X)
    BY <2>4, <2>5, <2>6, <2>7 DEF Built
  <2> Grown(E, f, X)
    BY <2>4, <2>7, <2>8 DEF Grown
  <2> QED BY DEF X
<1>6. CASE at # 0
  <2>1. at \in DOMAIN E.recs /\ E.recs[at].live /\ E.recs[at].hash = f.hash
    <3> HIDE DEF at
    <3> QED BY <1>2, <1>6 DEF Found
  <2>2. X = [RenameFile(E, at, E.recs[at].name, f.name) EXCEPT !.recs[at].name = f.name]
    BY <1>6 DEF StoreFile
  <2> HIDE DEF X, at
  <2>3. Renamed(E, at, f.name, X)
    BY <1>1, <2>1, <2>2, <1>RenamedIs
  <2>4. Built(X) /\ Alike(E, X) /\ \A k \in DOMAIN E.recs : X.recs[k].src = E.recs[k].src
    BY ZenonT(30), <1>1, <2>1, <2>3, <1>RenamedBuilt
  <2>5. X.layout = E.layout /\ X.clients = E.clients
    BY <2>3 DEF Renamed
  <2> DOMAIN X.recs = DOMAIN E.recs /\ X.files = E.files /\ \A k \in DOMAIN E.recs : Same(X.recs[k], E.recs[k])
    BY <2>4 DEF Alike
  <2> X.files[f.hash] \in DOMAIN X.recs
    BY <1>1, <2>1, HeadIs DEF IsHead
  <2> \A k \in DOMAIN X.recs :
        X.recs[k].live => X.recs[k].hash = f.hash \/ (k \in DOMAIN E.recs /\ E.recs[k].live)
    BY DEF Same
  <2> Grown(E, f, X)
    BY <2>4, <2>5 DEF Grown
  <2> QED BY <2>4 DEF X
<1> QED BY <1>5, <1>6

\* Storing a file changes no source.
LEMMA GrownSourced ==
    ASSUME NEW A, NEW E, Built(E), Sourced(A, E), Offered(E), NEW f, NEW X, Built(X), Grown(E, f, X)
    PROVE  Sourced(A, X) /\ Offered(X)
<1> /\ X.clients = E.clients
    /\ \A k \in DOMAIN E.recs : k \in DOMAIN X.recs /\ X.recs[k].src = E.recs[k].src
    /\ \A k \in DOMAIN E.recs : E.recs[k].live => Same(X.recs[k], E.recs[k])
    /\ \A k \in DOMAIN X.recs : k \notin DOMAIN E.recs => X.recs[k].src = <<>>
  BY DEF Grown
<1>1. SourceList(A, <<>>) /\ \A s : ~Has(<<>>, s)
  BY SMTT(20) DEF SourceList, Has
<1>2. ASSUME NEW k \in DOMAIN X.recs
      PROVE  /\ SourceList(A, X.recs[k].src)
             /\ X.recs[k].src # <<>> => X.recs[k].live /\ ~X.recs[k].sib
  <2> CASE k \in DOMAIN E.recs
    BY DEF Sourced, Same
  <2> CASE k \notin DOMAIN E.recs
    BY <1>1
  <2> QED OBVIOUS
<1>3. ASSUME NEW s \in DOMAIN X.clients
      PROVE  /\ Distinct(X.clients[s])
             /\ \A i \in Nat : In(X.clients[s], i) <=> i \in DOMAIN X.recs /\ Has(X.recs[i].src, s)
  <2> \A i : i \in DOMAIN X.recs /\ Has(X.recs[i].src, s) <=> i \in DOMAIN E.recs /\ Has(E.recs[i].src, s)
    BY <1>1
  <2> QED BY <1>3 DEF Offered
<1> QED BY <1>2, <1>3 DEF Sourced, Offered

\* Storing several files, all of hashes of H.
Spread(E, H, X) ==
    /\ X.layout = E.layout /\ X.clients = E.clients
    /\ \A h \in Hash : h \notin H => X.files[h] = E.files[h]
    /\ \A k \in DOMAIN E.recs : /\ k \in DOMAIN X.recs /\ X.recs[k].src = E.recs[k].src
                                /\ E.recs[k].live => Same(X.recs[k], E.recs[k])
    /\ \A k \in DOMAIN X.recs : k \notin DOMAIN E.recs => X.recs[k].src = <<>>
    /\ \A k \in DOMAIN X.recs :
         X.recs[k].live => X.recs[k].hash \in H \/ (k \in DOMAIN E.recs /\ E.recs[k].live)

\* Files stored one after the other, which no source notices.
LEMMA StoreFilesIs ==
    \A A, E : Sound(A, E) =>
      \A files \in Seq(Files) : \A H : (\A n \in DOMAIN files : files[n].hash \in H) =>
        /\ Sound(A, StoreFiles(E, files)) /\ Spread(E, H, StoreFiles(E, files))
        /\ files # <<>> =>
             StoreFiles(E, files).files[files[Len(files)].hash] \in DOMAIN StoreFiles(E, files).recs
\* One more file of these hashes is stored.
<1>SpreadOn.
    ASSUME NEW E, NEW H, NEW X, Spread(E, H, X), NEW f, f.hash \in H, NEW Y, Grown(X, f, Y)
    PROVE  Spread(E, H, Y)
  <2> USE <1>SpreadOn
  <2>1. Y.layout = E.layout /\ Y.clients = E.clients
    BY DEF Spread, Grown
  <2>2. \A h \in Hash : h \notin H => Y.files[h] = E.files[h]
    BY DEF Spread, Grown
  <2>3. ASSUME NEW k \in DOMAIN E.recs
        PROVE  /\ k \in DOMAIN Y.recs /\ Y.recs[k].src = E.recs[k].src
               /\ E.recs[k].live => Same(Y.recs[k], E.recs[k])
    <3> k \in DOMAIN X.recs /\ X.recs[k].src = E.recs[k].src /\ (E.recs[k].live => Same(X.recs[k], E.recs[k]))
      BY DEF Spread
    <3> k \in DOMAIN Y.recs /\ Y.recs[k].src = X.recs[k].src /\ (X.recs[k].live => Same(Y.recs[k], X.recs[k]))
      BY DEF Grown
    <3> QED BY DEF Same
  <2>4. \A k \in DOMAIN Y.recs : k \notin DOMAIN E.recs => Y.recs[k].src = <<>>
    <3> SUFFICES ASSUME NEW k \in DOMAIN Y.recs, k \notin DOMAIN E.recs PROVE Y.recs[k].src = <<>>
      BY SMTT(20)
    <3> CASE k \in DOMAIN X.recs
      BY DEF Grown, Spread
    <3> CASE k \notin DOMAIN X.recs
      BY DEF Grown
    <3> QED OBVIOUS
  <2>5. \A k \in DOMAIN Y.recs :
           Y.recs[k].live => Y.recs[k].hash \in H \/ (k \in DOMAIN E.recs /\ E.recs[k].live)
    <3> SUFFICES ASSUME NEW k \in DOMAIN Y.recs, Y.recs[k].live, Y.recs[k].hash \notin H
                 PROVE  k \in DOMAIN E.recs /\ E.recs[k].live
      BY SMT
    <3> k \in DOMAIN X.recs /\ X.recs[k].live
      BY DEF Grown
    <3> Same(Y.recs[k], X.recs[k])
      BY DEF Grown
    <3> QED BY DEF Same, Spread
  <2> QED BY <2>1, <2>2, <2>3, <2>4, <2>5 DEF Spread
\* None is stored yet.
<1>SpreadStart.
    ASSUME NEW E, NEW H
    PROVE  Spread(E, H, E)
    BY <1>SpreadStart DEF Spread, Same
<1> SUFFICES ASSUME NEW A, NEW E, Sound(A, E), NEW files \in Seq(Files), NEW H,
                    \A n \in DOMAIN files : files[n].hash \in H
             PROVE  /\ Sound(A, StoreFiles(E, files)) /\ Spread(E, H, StoreFiles(E, files))
                    /\ files # <<>> =>
                         StoreFiles(E, files).files[files[Len(files)].hash] \in DOMAIN StoreFiles(E, files).recs
  OBVIOUS
<1> DEFINE m == Len(files)
           Good(n, X) == /\ Sound(A, X) /\ Spread(E, H, X)
                         /\ n # 0 => X.files[files[n].hash] \in DOMAIN X.recs
           S == [n \in 0..m |-> {X \in Engine : Good(n, X)}]
           step == [n \in 1..m |-> [X \in Engine |-> StoreFile(X, files[n])]]
           Rec(g) == g = [n \in 0..m |-> IF n = 0 THEN E ELSE StoreFile(g[n - 1], files[n])]
           done == CHOOSE g : Rec(g)
<1> m \in Nat /\ DOMAIN files = 1..m /\ \A n \in 1..m : files[n] \in Files
  BY SMT
<1> ASSUME NEW n \in 1..m, NEW x \in Engine, NEW l, Good(l, x)
    PROVE  StoreFile(x, files[n]) \in Engine /\ Good(n, StoreFile(x, files[n]))
  <2> DEFINE X == StoreFile(x, files[n])
  <2> Built(x) /\ Sourced(A, x) /\ Offered(x) /\ Spread(E, H, x)
    BY DEF Sound, Built
  <2> files[n] \in Files /\ files[n].hash \in H
    OBVIOUS
  <2> Built(X) /\ Grown(x, files[n], X)
    BY StoreFileIs
  <2> HIDE DEF X
  <2> Sourced(A, X) /\ Offered(X)
    BY GrownSourced
  <2> Spread(E, H, X)
    BY <1>SpreadOn
  <2> X.files[files[n].hash] \in DOMAIN X.recs
    BY DEF Grown
  <2> X \in Engine /\ Sound(A, X)
    BY DEF Sound, Built
  <2> QED BY DEF X
<1>1. E \in Engine /\ Good(0, E)
  BY <1>SpreadStart DEF Sound
<1> HIDE DEF Good, m
<1>2. E \in S[0]
  BY SMT, <1>1
<1>3. Steps(m, S, step)
  <2> SUFFICES ASSUME NEW n \in 1..m, NEW x \in S[n - 1]
               PROVE  step[n][x] \in S[n]
    BY DEF Steps
  <2> n - 1 \in 0..m /\ n \in 0..m
    BY SMT
  <2> x \in Engine /\ Good(n - 1, x)
    OBVIOUS
  <2> step[n][x] = StoreFile(x, files[n])
    OBVIOUS
  <2> StoreFile(x, files[n]) \in Engine /\ Good(n, StoreFile(x, files[n]))
    OBVIOUS
  <2> QED OBVIOUS
<1>4. PICK g : Runs(m, S, E, step, g)
  <2> HIDE DEF S, step
  <2> QED BY <1>2, <1>3, Recursion
<1>5. Rec(g)
  <2> \A n \in 0..m : (IF n = 0 THEN E ELSE step[n][g[n - 1]]) = (IF n = 0 THEN E ELSE StoreFile(g[n - 1], files[n]))
    <3> SUFFICES ASSUME NEW n \in 0..m, n # 0
                 PROVE  step[n][g[n - 1]] = StoreFile(g[n - 1], files[n])
      OBVIOUS
    <3> n \in 1..m /\ n - 1 \in 0..m
      BY SMT
    <3> g[n - 1] \in Engine
      BY <1>4 DEF Runs
    <3> QED OBVIOUS
  <2> HIDE DEF step, S
  <2> QED BY <1>4 DEF Runs
<1>6. Rec(done)
  BY <1>5
<1>7. StoreFiles(E, files) = done[m]
  BY DEF StoreFiles, m
<1> DEFINE P == {n \in 0..m : done[n] \in S[n]}
<1> HIDE DEF done, S, step
<1>8. 0 \in P
  <2> 0 \in 0..m
    BY SMT
  <2> QED BY <1>2, <1>6
<1>9. \A n \in 1..m : n - 1 \in P => n \in P
  <2> SUFFICES ASSUME NEW n \in 1..m, n - 1 \in P PROVE n \in P
    BY SMT
  <2> n \in 0..m /\ n # 0 /\ n - 1 \in 0..m
    BY SMT
  <2> done[n] = StoreFile(done[n - 1], files[n])
    BY <1>6
  <2> done[n - 1] \in Engine /\ Good(n - 1, done[n - 1])
    BY DEF S
  <2> done[n] \in Engine /\ Good(n, done[n])
    OBVIOUS
  <2> QED BY DEF S
<1>10. m \in P
  <2> HIDE DEF P
  <2> m \in 0..m
    BY SMT
  <2> QED BY <1>8, <1>9, Induct
<1>11. Good(m, done[m])
  <2> m \in 0..m
    BY SMT
  <2> QED BY <1>10 DEF S
<1>12. files # <<>> => m # 0
  BY SMT DEF m
<1> QED BY <1>7, <1>11, <1>12 DEF Good, m

----------------------------------------------------------------------------
(* The sources and the offered lists *)

\* An engine with other records and other lists.
Relisted(E, R, C, X) ==
    /\ X \in Engine /\ X.recs = R /\ X.clients = C
    /\ X.files = E.files /\ X.count = E.count /\ X.dead = E.dead /\ X.free = E.free
    /\ X.post = E.post /\ X.entries = E.entries /\ X.live = E.live /\ X.layout = E.layout

\* New records and lists, the rest as it was.
LEMMA RelistedIs ==
    ASSUME NEW E \in Engine, NEW R \in Seq(Record), NEW C \in Lists
    PROVE  Relisted(E, R, C, [E EXCEPT !.recs = R, !.clients = C])
<1> DEFINE X == [E EXCEPT !.recs = R, !.clients = C]
<1>1. X \in Engine
  BY DEF Engine
<1>2. /\ X.recs = R /\ X.clients = C
      /\ X.files = E.files /\ X.count = E.count /\ X.dead = E.dead /\ X.free = E.free
      /\ X.post = E.post /\ X.entries = E.entries /\ X.live = E.live /\ X.layout = E.layout
  BY SMT DEF Engine
<1> QED BY <1>1, <1>2 DEF Relisted

\* The records R are those of E with other sources; those without a file have none.
Resourced(E, R) ==
    /\ DOMAIN R = DOMAIN E.recs
    /\ \A k \in DOMAIN R : /\ Same(R[k], E.recs[k]) /\ R[k].name = E.recs[k].name
                           /\ R[k].next = E.recs[k].next
                           /\ ~E.recs[k].live /\ E.recs[k].src = <<>> => R[k].src = <<>>

\* Sources are no part of chains, slots and index.
LEMMA RelistedBuilt ==
    ASSUME NEW E, Built(E), NEW R, NEW C, NEW X, Relisted(E, R, C, X), Resourced(E, R)
    PROVE  Built(X) /\ Alike(E, X)
<1> E \in Engine /\ Slots(E) /\ Chains(E) /\ Index(E) /\ X \in Engine
  BY DEF Built, Relisted
<1> /\ X.recs = R /\ X.files = E.files /\ X.count = E.count /\ X.dead = E.dead /\ X.free = E.free
    /\ X.post = E.post /\ X.entries = E.entries /\ X.live = E.live
  BY DEF Relisted
<1> Alike(E, X)
  BY DEF Alike, Resourced
<1>1. Chains(X)
  BY AlikeChains
<1>2. Slots(X)
  <2> \A k \in DOMAIN E.recs : E.recs[k].src = <<>> /\ ~E.recs[k].live => X.recs[k].src = <<>>
    BY DEF Resourced
  <2> QED BY AlikeSlots
<1>3. Index(X)
  <2> \A k \in DOMAIN E.recs : X.recs[k].name = E.recs[k].name
    BY DEF Resourced
  <2> QED BY AlikeIndex
<1> QED BY <1>1, <1>2, <1>3 DEF Built

\* A part of a source list is one.
LEMMA SublistSources ==
    ASSUME NEW A, NEW list \in Seq(Source), SourceList(A, list), NEW I \in SUBSET DOMAIN list
    PROVE  /\ Sublist(list, I) \in Seq(Source) /\ SourceList(A, Sublist(list, I))
           /\ \A s : Has(Sublist(list, I), s) <=> \E k \in I : list[k].peer = s
           /\ \A k \in DOMAIN Sublist(list, I) : \E i \in I : Sublist(list, I)[k] = list[i]
<1> DEFINE c == Cardinality(I)
           sub == Sublist(list, I)
<1>1. /\ sub \in Seq(Source) /\ Len(sub) = c /\ c \in 0..Len(list)
      /\ \A k \in 1..c : Member(I, k) \in I /\ sub[k] = list[Member(I, k)]
      /\ \A j, k \in 1..c : j < k => Member(I, j) < Member(I, k)
      /\ \A i \in I : Place(I, i) \in 1..c /\ sub[Place(I, i)] = list[i]
  BY SublistEmbeds
<1> HIDE DEF sub
<1>2. DOMAIN sub = 1..c /\ c \in Nat /\ \A i \in I : i \in Nat /\ i \in DOMAIN list
  BY SMT, <1>1
<1>3. \A s : Has(sub, s) <=> \E k \in I : list[k].peer = s
  BY <1>1, <1>2 DEF Has
<1>4. ASSUME NEW j \in 1..c, NEW k \in 1..c, Member(I, j) = Member(I, k)
      PROVE  j = k
  <2> Member(I, j) \in I /\ j \in Nat /\ k \in Nat
    BY SMT, <1>1, <1>2
  <2> Member(I, j) \in Nat
    BY <1>2
  <2> ~(j < k) /\ ~(k < j)
    <3> j < k => Member(I, j) < Member(I, k)
      BY <1>1
    <3> k < j => Member(I, k) < Member(I, j)
      BY <1>1
    <3> QED BY SMT, <1>4
  <2> QED BY SMT
<1>5. SourceList(A, sub)
  <2> /\ \A k \in DOMAIN list : list[k].peer \in DOMAIN A /\ list[k].addr = A[list[k].peer]
      /\ \A j, k \in DOMAIN list :
           list[j].peer = list[k].peer \/ list[j].addr = list[k].addr => j = k
    BY DEF SourceList
  <2> ASSUME NEW k \in 1..c PROVE sub[k].peer \in DOMAIN A /\ sub[k].addr = A[sub[k].peer]
    <3> sub[k] = list[Member(I, k)] /\ Member(I, k) \in DOMAIN list
      BY <1>1, <1>2
    <3> QED OBVIOUS
  <2> ASSUME NEW j \in 1..c, NEW k \in 1..c, sub[j].peer = sub[k].peer \/ sub[j].addr = sub[k].addr
      PROVE  j = k
    <3> /\ sub[k] = list[Member(I, k)] /\ Member(I, k) \in DOMAIN list
        /\ sub[j] = list[Member(I, j)] /\ Member(I, j) \in DOMAIN list
      BY <1>1, <1>2
    <3> Member(I, j) = Member(I, k)
      OBVIOUS
    <3> QED BY <1>4
  <2> QED BY <1>2 DEF SourceList
<1>6. \A k \in DOMAIN sub : \E i \in I : sub[k] = list[i]
  BY <1>1, <1>2
<1> QED BY <1>1, <1>3, <1>5, <1>6 DEF sub
Gains(c, i, d) ==
    /\ d \in Seq(Nat) /\ \A j : In(d, j) <=> j = i \/ In(c, j)
    /\ Distinct(c) /\ ~In(c, i) => Distinct(d)

\* A session gains the record.
LEMMA AppendList ==
    ASSUME NEW c \in Seq(Nat), NEW i \in Nat
    PROVE  Gains(c, i, Append(c, i))
<1> DEFINE d == Append(c, i)
<1> /\ d \in Seq(Nat) /\ DOMAIN d = DOMAIN c \cup {Len(c) + 1} /\ d[Len(c) + 1] = i
    /\ \A k \in DOMAIN c : d[k] = c[k]
  BY SMT
<1> HIDE DEF d
<1>1. \A j : In(d, j) <=> j = i \/ In(c, j)
  BY DEF In
<1>2. Distinct(c) /\ ~In(c, i) => Distinct(d)
  BY DEF Distinct, In
<1> QED BY <1>1, <1>2 DEF d, Gains

\* What PutSource does.
Sourcing(A, E, s, X) ==
    /\ Sound(A, X) /\ Alike(E, X) /\ X.layout = E.layout /\ DOMAIN X.clients = DOMAIN E.clients
    /\ \A i \in DOMAIN E.recs : \A t : Has(X.recs[i].src, t) => t = s \/ Has(E.recs[i].src, t)

\* putSourceLocked keeps the two sides of a source together.
LEMMA PutSourceIs ==
    \A A, E : Sound(A, E) =>
      \A head \in DOMAIN E.recs : \A src \in Source :
        /\ E.recs[head].live /\ ~E.recs[head].sib
        /\ src.peer \in DOMAIN A /\ src.addr = A[src.peer] /\ src.peer \in DOMAIN E.clients
        => Sourcing(A, E, src.peer, PutSource(E, head, src))
\* An offered list that loses a record, and one that gains a record.
<1> DEFINE Loses(c, i, d) == d \in Seq(Nat) /\ Distinct(d) /\ \A j : In(d, j) <=> j # i /\ In(c, j)
<1> DEFINE Lost(c, i) == DropFirst(c, {k \in DOMAIN c : c[k] = i})
<1> HIDE DEF Loses, Lost
\* A session loses the record from its list.
<1>ForgetList.
    ASSUME NEW c \in Seq(Nat), Distinct(c), NEW i
    PROVE  Loses(c, i, Lost(c, i))
  <2> USE <1>ForgetList
  <2> DEFINE K == {k \in DOMAIN c : c[k] = i}
             I == DOMAIN c \ K
             d == DropFirst(c, K)
  <2>1. \A j, k \in K : j = k
    BY DEF Distinct
  <2>2. d = Sublist(c, I)
    BY <2>1, DropFirstElements
  <2>3. /\ d \in Seq(Nat) /\ Distinct(d)
        /\ \A x : In(d, x) <=> \E k \in I : c[k] = x
    <3>1. I \in SUBSET DOMAIN c
      BY SMT
    <3> HIDE DEF I
    <3> QED BY ZenonT(30), <2>2, <3>1, SublistElements
  <2> HIDE DEF d
  <2>4. \A j : In(d, j) <=> j # i /\ In(c, j)
    BY <2>3 DEF In
  <2> QED BY <2>3, <2>4 DEF d, Loses, Lost
\* A source that is put into a list takes the place of at most one.
<1> DEFINE Clash(list, src) == {k \in DOMAIN list : list[k].peer = src.peer \/ list[k].addr = src.addr}
<1> DEFINE PutList(list, src) == Append(DropFirst(list, Clash(list, src)), src)
<1> DEFINE PutIn(A, list, src, new) ==
               /\ \A j, k \in Clash(list, src) : j = k
               /\ new \in Seq(Source) /\ SourceList(A, new)
               /\ \A t : Has(new, t) <=>
                            t = src.peer \/ \E k \in DOMAIN list \ Clash(list, src) : list[k].peer = t
<1> HIDE DEF Clash, PutList, PutIn
\* The sources of a record once one was put: the one it displaced is gone.
<1>PutListIs.
    ASSUME NEW A, NEW list \in Seq(Source), SourceList(A, list),
           NEW src \in Source, src.peer \in DOMAIN A, src.addr = A[src.peer]
    PROVE  PutIn(A, list, src, PutList(list, src))
  <2> USE <1>PutListIs
  <2> DEFINE K == Clash(list, src)
             I == DOMAIN list \ K
             sub == Sublist(list, I)
             new == PutList(list, src)
  <2>1. /\ \A k \in DOMAIN list : list[k].peer \in DOMAIN A /\ list[k].addr = A[list[k].peer]
        /\ \A j, k \in DOMAIN list :
             list[j].peer = list[k].peer \/ list[j].addr = list[k].addr => j = k
    BY DEF SourceList
  <2>2. K \in SUBSET DOMAIN list /\ \A k \in K : list[k].addr = src.addr
    BY <2>1 DEF Clash
  <2>3. \A j, k \in K : j = k
    BY <2>1, <2>2
  <2>4. DropFirst(list, K) = sub
    <3> HIDE DEF K
    <3> QED BY <2>2, <2>3, DropFirstElements
  <2>5. I \in SUBSET DOMAIN list
    BY SMT
  <2>6. /\ sub \in Seq(Source) /\ SourceList(A, sub)
        /\ \A s : Has(sub, s) <=> \E k \in I : list[k].peer = s
        /\ \A k \in DOMAIN sub : \E i \in I : sub[k] = list[i]
    <3> HIDE DEF I
    <3> QED BY <2>5, SublistSources
  <2>7. new = Append(sub, src)
    BY <2>4 DEF PutList
  <2>8. \A k \in DOMAIN sub : sub[k].peer # src.peer /\ sub[k].addr # src.addr
    BY <2>6 DEF Clash
  <2> HIDE DEF sub, new, I
  <2>9. /\ new \in Seq(Source) /\ DOMAIN new = DOMAIN sub \cup {Len(sub) + 1} /\ new[Len(sub) + 1] = src
        /\ \A k \in DOMAIN sub : new[k] = sub[k]
    BY SMT, <2>6, <2>7
  <2>10. \A t : Has(new, t) <=> t = src.peer \/ \E k \in I : list[k].peer = t
    <3> \A t : Has(new, t) <=> t = src.peer \/ Has(sub, t)
      BY <2>9 DEF Has
    <3> QED BY <2>6
  <2>11. SourceList(A, new)
    <3>1. /\ \A k \in DOMAIN sub : sub[k].peer \in DOMAIN A /\ sub[k].addr = A[sub[k].peer]
          /\ \A j, k \in DOMAIN sub :
               sub[j].peer = sub[k].peer \/ sub[j].addr = sub[k].addr => j = k
      BY <2>6 DEF SourceList
    <3>2. \A k \in DOMAIN new : new[k].peer \in DOMAIN A /\ new[k].addr = A[new[k].peer]
      BY <2>9, <3>1
    <3>3. ASSUME NEW j \in DOMAIN new, NEW k \in DOMAIN new,
                 new[j].peer = new[k].peer \/ new[j].addr = new[k].addr
          PROVE  j = k
      <4>1. CASE j \in DOMAIN sub /\ k \in DOMAIN sub
        BY <2>9, <3>1, <3>3, <4>1
      <4>2. CASE j \in DOMAIN sub /\ k = Len(sub) + 1
        BY <2>8, <2>9, <3>3, <4>2
      <4>3. CASE k \in DOMAIN sub /\ j = Len(sub) + 1
        BY <2>8, <2>9, <3>3, <4>3
      <4> QED BY <2>9, <4>1, <4>2, <4>3
    <3> QED BY <3>2, <3>3 DEF SourceList
  <2> QED BY <2>3, <2>9, <2>10, <2>11 DEF new, I, PutIn
\* The offered lists once src is in the list of record head.
<1> DEFINE Forgotten(C, owner, taker, head) ==
               IF owner = taker \/ owner \notin DOMAIN C THEN C
               ELSE [C EXCEPT ![owner] = DropFirst(@, {k \in DOMAIN @ : @[k] = head})]
<1> DEFINE PutClients(C, head, list, src) ==
               LET same == Clash(list, src)
                   C1   == IF same = {} THEN C ELSE Forgotten(C, list[Min(same)].peer, src.peer, head)
               IN IF Has(list, src.peer) THEN C1 ELSE [C1 EXCEPT ![src.peer] = Append(@, head)]
<1> DEFINE ForgottenLists(C, owner, taker, head, X) ==
               /\ X \in Lists /\ DOMAIN X = DOMAIN C
               /\ \A t \in DOMAIN C : t # owner \/ owner = taker => X[t] = C[t]
               /\ owner \in DOMAIN C /\ owner # taker =>
                    X[owner] = Lost(C[owner], head)
<1> HIDE DEF Forgotten, PutClients, ForgottenLists
\* forgetOfferLocked, on the lists alone.
<1>ForgottenIs.
    ASSUME NEW C \in Lists, NEW owner, NEW taker, NEW head
    PROVE  ForgottenLists(C, owner, taker, head, Forgotten(C, owner, taker, head))
  <2> USE <1>ForgottenIs
  <2> DEFINE d == DropFirst(C[owner], {k \in DOMAIN C[owner] : C[owner][k] = head})
  <2>1. CASE owner = taker \/ owner \notin DOMAIN C
    BY <2>1 DEF Forgotten, ForgottenLists
  <2> CASE owner # taker /\ owner \in DOMAIN C
    <3> /\ DOMAIN C \subseteq Session /\ C = [s \in DOMAIN C |-> C[s]]
        /\ \A s \in DOMAIN C : C[s] \in Seq(Nat)
      BY ListsAre
    <3> Forgotten(C, owner, taker, head) = [C EXCEPT ![owner] = d]
      BY DEF Forgotten
    <3> d \in Seq(Nat)
      <4> {k \in DOMAIN C[owner] : k \in {j \in DOMAIN C[owner] : C[owner][j] = head}
             => \E j \in {j \in DOMAIN C[owner] : C[owner][j] = head} : j < k} \in SUBSET DOMAIN C[owner]
        OBVIOUS
      <4> QED BY SublistElements DEF DropFirst
    <3> HIDE DEF d
    <3> [C EXCEPT ![owner] = d] \in [DOMAIN C -> Seq(Nat)]
      OBVIOUS
    <3> [C EXCEPT ![owner] = d] \in Lists
      BY ListsAre
    <3> QED BY DEF d, ForgottenLists, Lost
  <2> QED BY <2>1
\* Every session's list has the same records, but head: it is in the lists of the
\* sessions that the new list of sources names.
<1> DEFINE OneList(C, head, list) ==
               \A t \in DOMAIN C : Distinct(C[t]) /\ (In(C[t], head) <=> Has(list, t))
<1> DEFINE OtherLists(C, head, X) ==
               /\ X \in Lists /\ DOMAIN X = DOMAIN C
               /\ \A t \in DOMAIN C : \A i : i # head => (In(X[t], i) <=> In(C[t], i))
<1> HIDE DEF OneList, OtherLists
\* putSourceLocked, on the lists: the taker's gains the record, the owner's loses it.
<1>PutClientsAre.
    ASSUME NEW C \in Lists, NEW head \in Nat, NEW A, NEW list \in Seq(Source), NEW src \in Source,
           src.peer \in DOMAIN C, SourceList(A, list), OneList(C, head, list),
           NEW new, PutIn(A, list, src, new)
    PROVE  /\ OtherLists(C, head, PutClients(C, head, list, src))
           /\ OneList(PutClients(C, head, list, src), head, new)
  <2> USE <1>PutClientsAre
  <2>a. /\ \A j, k \in Clash(list, src) : j = k
        /\ \A t : Has(new, t) <=>
                       t = src.peer \/ \E k \in DOMAIN list \ Clash(list, src) : list[k].peer = t
    BY DEF PutIn
  <2>b. /\ \A j, k \in DOMAIN list : list[j].peer = list[k].peer => j = k
        /\ \A t \in DOMAIN C : Distinct(C[t]) /\ (In(C[t], head) <=> Has(list, t))
    BY DEF SourceList, OneList
  <2> USE <2>a, <2>b
  <2> DEFINE same == Clash(list, src)
             o == list[Min(same)].peer
             s == src.peer
             C1 == IF same = {} THEN C ELSE Forgotten(C, o, s, head)
             X == PutClients(C, head, list, src)
  <2>1. /\ DOMAIN C \subseteq Session /\ \A t \in DOMAIN C : C[t] \in Seq(Nat)
    BY ListsAre
  <2> same # {} => Min(same) \in same
    <3> SUFFICES ASSUME same # {} PROVE Min(same) \in same
      BY SMTT(20)
    <3> same \subseteq Nat
      BY SMTT(20) DEF Clash
    <3> HIDE DEF same
    <3> QED BY MinIs
  <2>2. Has(list, s) => same # {} /\ o = s
    <3> SUFFICES ASSUME Has(list, s) PROVE same # {} /\ o = s
      BY SMTT(20)
    <3> PICK k \in DOMAIN list : list[k].peer = s
      BY DEF Has
    <3> k \in same
      BY DEF Clash
    <3> Min(same) = k
      OBVIOUS
    <3> QED OBVIOUS
  <2> \A t : Has(new, t) <=> t = s \/ (Has(list, t) /\ ~(same # {} /\ o = t))
    <3> ASSUME NEW t, t # s
        PROVE  (\E k \in DOMAIN list \ same : list[k].peer = t) <=> Has(list, t) /\ ~(same # {} /\ o = t)
      <4> ASSUME NEW k \in DOMAIN list \ same, list[k].peer = t
          PROVE  Has(list, t) /\ ~(same # {} /\ o = t)
        <5> Has(list, t)
          BY DEF Has
        <5> ASSUME same # {}, o = t PROVE FALSE
          <6> Min(same) \in same /\ same \subseteq DOMAIN list
            BY DEF Clash
          <6> QED OBVIOUS
        <5> QED OBVIOUS
      <4> ASSUME Has(list, t), ~(same # {} /\ o = t)
          PROVE  \E k \in DOMAIN list \ same : list[k].peer = t
        <5> PICK k \in DOMAIN list : list[k].peer = t
          BY DEF Has
        <5> k \notin same
          OBVIOUS
        <5> QED OBVIOUS
      <4> QED OBVIOUS
    <3> QED OBVIOUS
  <2> /\ C1 \in Lists /\ DOMAIN C1 = DOMAIN C
      /\ \A t \in DOMAIN C : ~(same # {} /\ t = o /\ o # s) => C1[t] = C[t]
      /\ same # {} /\ o \in DOMAIN C /\ o # s =>
            C1[o] = Lost(C[o], head)
    <3> CASE same = {}
      OBVIOUS
    <3> CASE same # {}
      <4> C1 = Forgotten(C, o, s, head)
        OBVIOUS
      <4> HIDE DEF same, o, s, C1
      <4> \A owner, taker : ForgottenLists(C, owner, taker, head, Forgotten(C, owner, taker, head))
        BY <1>ForgottenIs
      <4> ForgottenLists(C, o, s, head, C1)
        OBVIOUS
      <4> QED BY DEF ForgottenLists
    <3> QED OBVIOUS
  <2>3. X = IF Has(list, s) THEN C1 ELSE [C1 EXCEPT ![s] = Append(C1[s], head)]
    BY DEF PutClients
  <2> HIDE DEF same, o, C1, X
  <2> ASSUME NEW t \in DOMAIN C
      PROVE  /\ Distinct(C1[t]) /\ \A i : i # head => (In(C1[t], i) <=> In(C[t], i))
             /\ In(C1[t], head) <=> Has(list, t) /\ ~(same # {} /\ t = o /\ o # s)
    <3> CASE ~(same # {} /\ t = o /\ o # s)
      <4> C1[t] = C[t]
        OBVIOUS
      <4> QED OBVIOUS
    <3> CASE same # {} /\ t = o /\ o # s
      <4> C1[t] = Lost(C[t], head)
        OBVIOUS
      <4> C[t] \in Seq(Nat) /\ Distinct(C[t])
        BY <2>1
      <4> Loses(C[t], head, Lost(C[t], head))
        BY <1>ForgetList
      <4> Loses(C[t], head, C1[t])
        OBVIOUS
      <4> QED BY DEF Loses
    <3> QED OBVIOUS
  <2> CASE Has(list, s)
    <3> X = C1 /\ same # {} /\ o = s
      BY <2>2, <2>3
    <3> \A t \in DOMAIN C : In(X[t], head) <=> Has(new, t)
      OBVIOUS
    <3> QED BY DEF X, OtherLists, OneList
  <2> CASE ~Has(list, s)
    <3> X = [C1 EXCEPT ![s] = Append(C1[s], head)]
      BY <2>3
    <3> /\ C1 = [t \in DOMAIN C1 |-> C1[t]] /\ DOMAIN C1 = DOMAIN C /\ C1[s] \in Seq(Nat)
        /\ \A t \in DOMAIN C : C1[t] \in Seq(Nat)
      BY ListsAre
    <3> ~In(C1[s], head) /\ Distinct(C1[s])
      OBVIOUS
    <3> Gains(C1[s], head, Append(C1[s], head))
      BY AppendList
    <3> /\ Append(C1[s], head) \in Seq(Nat) /\ Distinct(Append(C1[s], head))
        /\ \A j : In(Append(C1[s], head), j) <=> j = head \/ In(C1[s], j)
      BY DEF Gains
    <3> X \in [DOMAIN C -> Seq(Nat)]
      OBVIOUS
    <3> X \in Lists /\ DOMAIN X = DOMAIN C
      BY <2>1, ListsAre
    <3> ASSUME NEW t \in DOMAIN C
        PROVE  /\ Distinct(X[t]) /\ (In(X[t], head) <=> Has(new, t))
               /\ \A i : i # head => (In(X[t], i) <=> In(C[t], i))
      <4> CASE t = s
        <5> X[t] = Append(C1[s], head)
          OBVIOUS
        <5> In(X[t], head) /\ Has(new, t) /\ Distinct(X[t])
          OBVIOUS
        <5> \A i : i # head => (In(X[t], i) <=> In(C[t], i))
          OBVIOUS
        <5> QED OBVIOUS
      <4> CASE t # s
        <5> X[t] = C1[t]
          OBVIOUS
        <5> QED OBVIOUS
      <4> QED OBVIOUS
    <3> QED BY DEF X, OtherLists, OneList
  <2> QED OBVIOUS
\* putSourceLocked replaces one source list and the offered lists.
<1>PutFields.
    ASSUME NEW E \in Engine, NEW head \in DOMAIN E.recs, NEW src
    PROVE  LET list == E.recs[head].src
               rec  == [E.recs[head] EXCEPT !.src = PutList(list, src)]
           IN PutSource(E, head, src) = [E EXCEPT !.recs = [E.recs EXCEPT ![head] = rec],
                                                  !.clients = PutClients(E.clients, head, list, src)]
  <2> USE <1>PutFields
  <2> DEFINE list == E.recs[head].src
             same == Clash(list, src)
             o == list[Min(same)].peer
             freed == IF same = {} THEN E ELSE ForgetOffer(E, o, src.peer, head)
             C1 == IF same = {} THEN E.clients ELSE Forgotten(E.clients, o, src.peer, head)
             rec == [E.recs[head] EXCEPT !.src = PutList(list, src)]
             R == [E.recs EXCEPT ![head] = rec]
             put == [freed EXCEPT !.recs[head].src = PutList(list, src)]
  <2>1. PutSource(E, head, src) =
          IF Has(list, src.peer) THEN put ELSE [put EXCEPT !.clients[src.peer] = Append(@, head)]
    BY DEF PutSource, Has, PutList, Clash
  <2>2. freed = [E EXCEPT !.clients = C1]
    <3> \A owner : ForgetOffer(E, owner, src.peer, head) = [E EXCEPT !.clients = Forgotten(E.clients, owner, src.peer, head)]
      BY DEF ForgetOffer, Forgotten, Engine
    <3> E = [E EXCEPT !.clients = E.clients]
      BY SMT DEF Engine
    <3> HIDE DEF same, o
    <3> QED OBVIOUS
  <2> HIDE DEF C1, same, o, freed
  <2>3. put = [E EXCEPT !.recs = R, !.clients = C1]
    BY <2>2 DEF Engine
  <2>4. PutClients(E.clients, head, list, src) =
          IF Has(list, src.peer) THEN C1 ELSE [C1 EXCEPT ![src.peer] = Append(@, head)]
    BY DEF PutClients, C1, same, o
  <2> HIDE DEF put, R, list
  <2>5. ~Has(list, src.peer) => [put EXCEPT !.clients[src.peer] = Append(@, head)]
           = [E EXCEPT !.recs = R, !.clients = [C1 EXCEPT ![src.peer] = Append(@, head)]]
    BY <2>3 DEF Engine
  <2> QED BY <2>1, <2>3, <2>4, <2>5 DEF R, list
<1> SUFFICES ASSUME NEW A, NEW E, Sound(A, E), NEW head \in DOMAIN E.recs, E.recs[head].live, ~E.recs[head].sib,
                    NEW src \in Source, src.peer \in DOMAIN A, src.addr = A[src.peer],
                    src.peer \in DOMAIN E.clients
             PROVE  Sourcing(A, E, src.peer, PutSource(E, head, src))
  OBVIOUS
<1> DEFINE list == E.recs[head].src
           new == PutList(list, src)
           rec == [E.recs[head] EXCEPT !.src = new]
           R == [E.recs EXCEPT ![head] = rec]
           C == PutClients(E.clients, head, list, src)
           X == [E EXCEPT !.recs = R, !.clients = C]
<1>1. /\ E \in Engine /\ Slots(E) /\ Chains(E) /\ Index(E) /\ Sourced(A, E) /\ Offered(E)
      /\ E.recs \in Seq(Record) /\ E.clients \in Lists /\ E.recs[head] \in Record /\ head \in Nat
      /\ list \in Seq(Source)
  <2> E \in Engine /\ Slots(E) /\ Chains(E) /\ Index(E) /\ Sourced(A, E) /\ Offered(E)
    BY DEF Sound
  <2> E.recs \in Seq(Record) /\ E.clients \in Lists
    BY DEF Engine
  <2> E.recs[head] \in Record /\ head \in Nat
    BY SMTT(20)
  <2> list \in Seq(Source)
    BY DEF Record
  <2> QED OBVIOUS
<1>2. PutSource(E, head, src) = X
  BY ZenonT(30), <1>1, <1>PutFields
<1>3. SourceList(A, list)
  BY <1>1 DEF Sourced
<1> HIDE DEF list, new
<1>4. /\ \A j, k \in Clash(list, src) : j = k
      /\ new \in Seq(Source) /\ SourceList(A, new)
      /\ \A t : Has(new, t) <=> t = src.peer \/ \E k \in DOMAIN list \ Clash(list, src) : list[k].peer = t
  <2> PutIn(A, list, src, new)
    BY <1>1, <1>3, <1>PutListIs DEF new
  <2> QED BY DEF PutIn
<1>5. /\ C \in Lists /\ DOMAIN C = DOMAIN E.clients
      /\ \A t \in DOMAIN E.clients : /\ Distinct(C[t]) /\ (In(C[t], head) <=> Has(new, t))
                                     /\ \A i : i # head => (In(C[t], i) <=> In(E.clients[t], i))
  <2> PutIn(A, list, src, new)
    BY <1>4 DEF PutIn
  <2> OneList(E.clients, head, list)
    BY <1>1 DEF Offered, OneList, list
  <2> OtherLists(E.clients, head, C) /\ OneList(C, head, new)
    BY <1>1, <1>3, <1>PutClientsAre
  <2> QED BY DEF OtherLists, OneList
<1> HIDE DEF C
<1>6. /\ rec \in Record /\ Same(rec, E.recs[head]) /\ rec.name = E.recs[head].name
      /\ rec.next = E.recs[head].next /\ rec.src = new
  BY <1>1, <1>4 DEF Record, Same
<1> HIDE DEF rec
<1>7. /\ R \in Seq(Record) /\ DOMAIN R = DOMAIN E.recs /\ R[head] = rec
      /\ \A k \in DOMAIN E.recs : k # head => R[k] = E.recs[k]
  BY SMTT(20), <1>1, <1>6
<1> HIDE DEF R
<1>8. Relisted(E, R, C, X)
  BY <1>1, <1>5, <1>7, RelistedIs
<1> HIDE DEF X
<1>9. Resourced(E, R)
  <2> \A k \in DOMAIN E.recs : Same(E.recs[k], E.recs[k])
    BY DEF Same
  <2> QED BY <1>6, <1>7 DEF Resourced
<1>10. Built(X) /\ Alike(E, X)
  <2> Built(E)
    BY <1>1 DEF Built
  <2> QED BY <1>8, <1>9, RelistedBuilt
<1>11. /\ X.recs = R /\ X.clients = C /\ X.layout = E.layout
  BY <1>8 DEF Relisted
<1>12. Sourced(A, X)
  <2> SUFFICES ASSUME NEW i \in DOMAIN R
               PROVE  SourceList(A, R[i].src) /\ (R[i].src # <<>> => R[i].live /\ ~R[i].sib)
    BY <1>11 DEF Sourced
  <2> CASE i = head
    BY <1>4, <1>6, <1>7 DEF Same
  <2> CASE i # head
    BY <1>1, <1>7 DEF Sourced
  <2> QED OBVIOUS
<1>13. Offered(X)
  <2> SUFFICES ASSUME NEW t \in DOMAIN C
               PROVE  /\ Distinct(C[t])
                      /\ \A i \in Nat : In(C[t], i) <=> i \in DOMAIN R /\ Has(R[i].src, t)
    BY <1>11 DEF Offered
  <2> \A i \in Nat : In(E.clients[t], i) <=> i \in DOMAIN E.recs /\ Has(E.recs[i].src, t)
    BY <1>1, <1>5 DEF Offered
  <2> ASSUME NEW i \in Nat
      PROVE  In(C[t], i) <=> i \in DOMAIN R /\ Has(R[i].src, t)
    <3> CASE i = head
      BY <1>5, <1>6, <1>7
    <3> CASE i # head
      BY <1>5, <1>7
    <3> QED OBVIOUS
  <2> QED BY <1>5
<1>14. \A i \in DOMAIN E.recs : \A t : Has(R[i].src, t) => t = src.peer \/ Has(E.recs[i].src, t)
  <2> \A t : Has(new, t) => t = src.peer \/ Has(list, t)
    BY <1>4 DEF Has
  <2> QED BY <1>6, <1>7 DEF list
<1> QED BY <1>2, <1>5, <1>10, <1>11, <1>12, <1>13, <1>14 DEF Sourcing, Sound, Built

\* What RemoveSourcesOf does: nothing to the lists, the session has none.
Removing(A, E, I, s, X) ==
    /\ Sound(A, X) /\ Alike(E, X) /\ X.layout = E.layout /\ X.clients = E.clients
    /\ \A i \in DOMAIN E.recs : \A t : Has(X.recs[i].src, t) <=> Has(E.recs[i].src, t) /\ ~(i \in I /\ t = s)

\* removeSourcesOfLocked, of a session that is no longer connected.
LEMMA RemoveSourcesIs ==
    ASSUME NEW A, NEW E, Sound(A, E), NEW I, NEW s, s \notin DOMAIN E.clients
    PROVE  Removing(A, E, I, s, RemoveSourcesOf(E, I, s))
<1> DEFINE keep(list) == {k \in DOMAIN list : list[k].peer # s}
           kept(list) == Sublist(list, keep(list))
           rec(i) == IF i \in I THEN [E.recs[i] EXCEPT !.src = kept(E.recs[i].src)] ELSE E.recs[i]
           R == [i \in DOMAIN E.recs |-> rec(i)]
           X == [E EXCEPT !.recs = R, !.clients = E.clients]
<1>1. /\ E \in Engine /\ Slots(E) /\ Chains(E) /\ Index(E) /\ Sourced(A, E) /\ Offered(E)
      /\ E.recs \in Seq(Record) /\ E.clients \in Lists /\ \A i \in DOMAIN E.recs : E.recs[i] \in Record
  BY SMT DEF Sound, Engine
<1>2. RemoveSourcesOf(E, I, s) = X
  <2> RemoveSourcesOf(E, I, s) = [E EXCEPT !.recs = R]
    BY DEF RemoveSourcesOf
  <2> HIDE DEF R
  <2> [E EXCEPT !.recs = R] = X
    BY <1>1 DEF Engine
  <2> QED OBVIOUS
<1>3. ASSUME NEW i \in DOMAIN E.recs
      PROVE  /\ R[i] \in Record /\ Same(R[i], E.recs[i]) /\ R[i].name = E.recs[i].name
             /\ R[i].next = E.recs[i].next
             /\ E.recs[i].src = <<>> => R[i].src = <<>>
             /\ SourceList(A, R[i].src)
             /\ \A t : Has(R[i].src, t) <=> Has(E.recs[i].src, t) /\ ~(i \in I /\ t = s)
  <2> DEFINE list == E.recs[i].src
  <2>1. list \in Seq(Source) /\ SourceList(A, list) /\ E.recs[i] \in Record
    BY <1>1 DEF Record, Sourced
  <2>2. R[i] = rec(i)
    OBVIOUS
  <2>3. CASE i \in I
    <3> HIDE DEF list
    <3>1. keep(list) \in SUBSET DOMAIN list
      OBVIOUS
    <3>2. /\ kept(list) \in Seq(Source) /\ SourceList(A, kept(list))
          /\ \A t : Has(kept(list), t) <=> \E k \in keep(list) : list[k].peer = t
          /\ \A k \in DOMAIN kept(list) : \E j \in keep(list) : kept(list)[k] = list[j]
      <4> HIDE DEF keep
      <4> QED BY <2>1, <3>1, SublistSources
    <3>3. \A t : (\E k \in keep(list) : list[k].peer = t) <=> Has(list, t) /\ t # s
      BY DEF Has
    <3> HIDE DEF kept
    <3>4. R[i] = [E.recs[i] EXCEPT !.src = kept(list)]
      BY <2>2, <2>3 DEF list
    <3>5. /\ R[i] \in Record /\ Same(R[i], E.recs[i]) /\ R[i].name = E.recs[i].name
          /\ R[i].next = E.recs[i].next /\ R[i].src = kept(list)
      BY SMT, <2>1, <3>2, <3>4 DEF Record, Same
    <3>6. list = <<>> => kept(list) = <<>>
      <4> SUFFICES ASSUME list = <<>> PROVE kept(list) = <<>>
        BY SMT
      <4>1. keep(list) = {}
        BY SMT DEF keep
      <4> DOMAIN kept(list) = {}
        BY <3>2, <4>1
      <4> QED BY SMT, <3>2
    <3> QED BY <2>3, <3>2, <3>3, <3>5, <3>6 DEF list
  <2> CASE i \notin I
    BY <2>1, <2>2 DEF Same
  <2> QED BY <2>3
<1>4. DOMAIN R = DOMAIN E.recs
  BY SMT
<1>5. R \in Seq(Record)
  <2>1. R = [k \in 1..Len(E.recs) |-> R[k]] /\ Len(E.recs) \in Nat
    BY SMTT(20), <1>1
  <2>2. \A k \in 1..Len(E.recs) : R[k] \in Record
    <3> DOMAIN E.recs = 1..Len(E.recs)
      BY SMT, <1>1
    <3> HIDE DEF R
    <3> QED BY <1>3
  <2> HIDE DEF R
  <2> QED BY SMT, <2>1, <2>2
<1> HIDE DEF R
<1>6. Relisted(E, R, E.clients, X)
  BY <1>1, <1>5, RelistedIs
<1> HIDE DEF X
<1>7. Resourced(E, R)
  BY <1>3, <1>4 DEF Resourced
<1>8. Built(X) /\ Alike(E, X)
  <2> Built(E)
    BY <1>1 DEF Built
  <2> QED BY <1>6, <1>7, RelistedBuilt
<1> /\ X.recs = R /\ X.clients = E.clients /\ X.layout = E.layout
  BY <1>6 DEF Relisted
<1>9. Sourced(A, X)
  <2> SUFFICES ASSUME NEW i \in DOMAIN R
               PROVE  SourceList(A, R[i].src) /\ (R[i].src # <<>> => R[i].live /\ ~R[i].sib)
    BY DEF Sourced
  <2> E.recs[i].src # <<>> => E.recs[i].live /\ ~E.recs[i].sib
    BY <1>1, <1>4 DEF Sourced
  <2> QED BY <1>3, <1>4 DEF Same
<1>10. Offered(X)
  <2> SUFFICES ASSUME NEW t \in DOMAIN E.clients
               PROVE  /\ Distinct(E.clients[t])
                      /\ \A i \in Nat : In(E.clients[t], i) <=> i \in DOMAIN R /\ Has(R[i].src, t)
    BY DEF Offered
  <2> /\ Distinct(E.clients[t])
      /\ \A i \in Nat : In(E.clients[t], i) <=> i \in DOMAIN E.recs /\ Has(E.recs[i].src, t)
    BY <1>1 DEF Offered
  <2> t # s
    OBVIOUS
  <2> QED BY <1>3, <1>4
<1>11. \A i \in DOMAIN E.recs : \A t : Has(R[i].src, t) <=> Has(E.recs[i].src, t) /\ ~(i \in I /\ t = s)
  BY <1>3
<1> QED BY <1>2, <1>8, <1>9, <1>10, <1>11 DEF Removing, Sound, Built

\* A session's list is detached, or a new session has an empty one.
LEMMA OtherClients ==
    ASSUME NEW A, NEW E, Sound(A, E), NEW C \in Lists,
           \A t \in DOMAIN C : \/ t \in DOMAIN E.clients /\ C[t] = E.clients[t]
                               \/ C[t] = <<>> /\ \A i \in DOMAIN E.recs : ~Has(E.recs[i].src, t)
    PROVE  Sound(A, [E EXCEPT !.clients = C]) /\ Relisted(E, E.recs, C, [E EXCEPT !.clients = C])
<1> DEFINE X == [E EXCEPT !.clients = C]
<1> /\ E \in Engine /\ Slots(E) /\ Chains(E) /\ Index(E) /\ Sourced(A, E) /\ Offered(E)
    /\ E.recs \in Seq(Record)
  BY SMT DEF Sound, Engine
<1>1. X = [E EXCEPT !.recs = E.recs, !.clients = C]
  BY DEF Engine
<1> Relisted(E, E.recs, C, X)
  <2> HIDE DEF X
  <2> QED BY <1>1, RelistedIs
<1> HIDE DEF X
<1>2. Resourced(E, E.recs)
  BY DEF Resourced, Same
<1>3. Built(X)
  <2> Built(E)
    BY DEF Built
  <2> QED BY <1>2, RelistedBuilt
<1>4. X.recs = E.recs /\ X.clients = C
  BY DEF Relisted
<1>5. Sourced(A, X)
  BY <1>4 DEF Sourced
<1>6. Offered(X)
  <2> SUFFICES ASSUME NEW t \in DOMAIN C
               PROVE  /\ Distinct(C[t])
                      /\ \A i \in Nat : In(C[t], i) <=> i \in DOMAIN E.recs /\ Has(E.recs[i].src, t)
    BY <1>4 DEF Offered
  <2> CASE t \in DOMAIN E.clients /\ C[t] = E.clients[t]
    BY DEF Offered
  <2> CASE C[t] = <<>> /\ \A i \in DOMAIN E.recs : ~Has(E.recs[i].src, t)
    <3> Distinct(<<>>) /\ \A i : ~In(<<>>, i)
      BY SMTT(20) DEF Distinct, In
    <3> QED OBVIOUS
  <2> QED OBVIOUS
<1> QED BY <1>3, <1>5, <1>6 DEF X, Sound, Built

\* The engine once it is emptied, with the sessions still there.
Empty(L, D) == [NewEngine EXCEPT !.layout = L, !.clients = [s \in D |-> <<>>]]

\* An engine without files is sound.
LEMMA EmptySound ==
    ASSUME NEW A, NEW L \in Nat, NEW D \in SUBSET Session
    PROVE  /\ Sound(A, Empty(L, D))
           /\ Empty(L, D).layout = L /\ Empty(L, D).clients = [s \in D |-> <<>>]
           /\ Empty(L, D).recs = <<>> /\ Empty(L, D).files = [h \in Hash |-> 0]
<1> DEFINE E == Empty(L, D)
           C == [s \in D |-> <<>>]
<1>1. C \in Lists
  <2> C \in [D -> Seq(Nat)]
    BY SMT
  <2> QED BY ListsAre
<1> HIDE DEF C
<1>2. E = [NewEngine EXCEPT !.layout = L, !.clients = C]
  BY DEF C, Empty
<1> /\ E.recs = <<>> /\ E.files = [h \in Hash |-> 0] /\ E.count = 0 /\ E.dead = <<>> /\ E.free = <<>>
    /\ E.post = [w \in Word |-> {}] /\ E.entries = 0 /\ E.live = 0 /\ E.layout = L /\ E.clients = C
  BY SMT, <1>2 DEF NewEngine
<1>3. E \in Engine
  <2> E = [recs |-> <<>>, files |-> [h \in Hash |-> 0], count |-> 0,
            dead |-> <<>>, free |-> <<>>, post |-> [w \in Word |-> {}],
            entries |-> 0, live |-> 0, layout |-> L, clients |-> C]
    BY <1>2 DEF NewEngine
  <2> /\ <<>> \in Seq(Record) /\ <<>> \in Seq(Nat) /\ [h \in Hash |-> 0] \in [Hash -> Nat]
      /\ [w \in Word |-> {}] \in [Word -> SUBSET Nat] /\ 0 \in Int
    BY SMT
  <2> QED BY SMTT(20), <1>1 DEF Engine
<1> HIDE DEF E
<1> DOMAIN E.recs = {} /\ E.recs \in Seq(Record) /\ \A k : ~In(<<>>, k)
  BY SMT DEF In
<1>4. Cardinality({}) = 0 /\ IsFiniteSet({})
  BY FS_EmptySet
<1>5. Slots(E)
  <2> Live(E) = {}
    BY DEF Live
  <2> Distinct(<<>>)
    BY SMT DEF Distinct
  <2> QED BY <1>4 DEF Slots
<1>6. Chains(E)
  <2> SUFFICES ASSUME NEW h \in Hash PROVE Chained(E, h, Chain(E, h))
    BY DEF Chains
  <2> <<>> \in Seq(DOMAIN E.recs) /\ DOMAIN <<>> = {}
    BY SMT
  <2> Chained(E, h, <<>>)
    BY DEF Chained
  <2> Chain(E, h) = <<>>
    BY ChainIs
  <2> QED OBVIOUS
<1>7. Index(E)
  <2> Live(E) = {} /\ Entries(E) = {} /\ Named(E) = {}
    BY DEF Live, Entries, Named
  <2> \A w \in Word : E.post[w] = {}
    OBVIOUS
  <2> QED BY <1>4 DEF Index
<1>8. Sourced(A, E)
  BY DEF Sourced
<1>9. Offered(E)
  <2> \A s \in D : C[s] = <<>>
    BY DEF C
  <2> DOMAIN C = D /\ Distinct(<<>>)
    BY SMT DEF C, Distinct
  <2> QED BY DEF Offered
<1> QED BY <1>3, <1>5, <1>6, <1>7, <1>8, <1>9 DEF Sound, E, C

\* installFilesLocked: nothing is sourced.
Installed(A, L, D, X) ==
    /\ Sound(A, X) /\ X.layout = L /\ X.clients = [s \in D |-> <<>>]
    /\ \A i \in DOMAIN X.recs : X.recs[i].src = <<>>

\* A load leaves a sound engine.
LEMMA InstallFilesIs ==
    ASSUME NEW A, NEW E, NEW L \in Nat, E.layout + 1 = L, NEW D \in SUBSET Session, DOMAIN E.clients = D,
           NEW files \in Seq(Files)
    PROVE  Installed(A, L, D, InstallFiles(E, files))
<1> DEFINE X == InstallFiles(E, files)
           E0 == Empty(L, D)
<1>1. X = StoreFiles(E0, files)
  BY DEF InstallFiles, Empty
<1> Sound(A, E0) /\ E0.layout = L /\ E0.clients = [s \in D |-> <<>>] /\ E0.recs = <<>>
  BY ZenonT(30), EmptySound
<1> HIDE DEF E0
<1>2. \A n \in DOMAIN files : files[n].hash \in Hash
  <2> \A n \in DOMAIN files : files[n] \in Files
    BY SMT
  <2> QED BY DEF Files
<1>3. Sound(A, X) /\ Spread(E0, Hash, X)
  BY <1>1, <1>2, StoreFilesIs
<1> HIDE DEF X
<1>4. DOMAIN E0.recs = {}
  BY SMT
<1>5. /\ X.layout = L /\ X.clients = [s \in D |-> <<>>]
      /\ \A i \in DOMAIN X.recs : X.recs[i].src = <<>>
  BY <1>3, <1>4 DEF Spread
<1> QED BY <1>3, <1>5 DEF X, Installed

=============================================================================
