------------------------- MODULE MemoryEngineProofs -------------------------
(***************************************************************************)
(* What MemoryEngine guarantees for every set of hashes, words, addresses, *)
(* files and sessions and for every chunk, page and rebuild limit, proved. *)
(*                                                                         *)
(* MemoryEngineLemmas has the inductive invariant IInv and the operations  *)
(* that add.  Here are those that take away or move: reaping (Reaping),    *)
(* the purge and the renumbering (Cleaning), and the import of a handover  *)
(* (Importing), each shown to leave any sound engine sound.  The steps     *)
(* follow from those, and the properties from the invariant.               *)
(***************************************************************************)
EXTENDS MemoryEngineLemmas

USE Zenon

----------------------------------------------------------------------------
(* Reaping *)

\* The records X has left are those of E, and every source.
Reaping(E, X) ==
    /\ X.layout = E.layout /\ X.clients = E.clients /\ DOMAIN X.recs = DOMAIN E.recs
    /\ \A k \in DOMAIN E.recs : /\ X.recs[k].src = E.recs[k].src
                                /\ X.recs[k].live => /\ E.recs[k].live /\ X.recs[k].hash = E.recs[k].hash
                                                     /\ X.recs[k].size = E.recs[k].size

\* A record is reaped when its hash has no source.
LEMMA ReapIs ==
    \A A, E : Sound(A, E) => \A i \in DOMAIN E.recs : Sound(A, Reap(E, i)) /\ Reaping(E, Reap(E, i))
\* What RemoveRec does to the records.
<1> DEFINE Removed(E, i, X) ==
               LET h == E.recs[i].hash
                   first == E.files[h] = i
               IN
               /\ X \in Engine /\ DOMAIN X.recs = DOMAIN E.recs
               /\ X.recs[i] = Blank
               /\ \A k \in DOMAIN E.recs : k # i =>
                    /\ X.recs[k].live <=> E.recs[k].live
                    /\ X.recs[k].hash = E.recs[k].hash /\ X.recs[k].size = E.recs[k].size
                    /\ X.recs[k].name = E.recs[k].name /\ X.recs[k].src = E.recs[k].src
                    /\ X.recs[k].sib <=> E.recs[k].sib /\ ~(first /\ k = E.recs[i].next)
                    /\ X.recs[k].next = IF ~(first /\ k = E.recs[i].next) /\ E.recs[k].next = i
                                        THEN E.recs[i].next ELSE E.recs[k].next
               /\ X.files[h] = (IF first THEN E.recs[i].next ELSE E.files[h])
               /\ \A g \in Hash : g # h => X.files[g] = E.files[g]
               /\ X.dead = Append(E.dead, i) /\ X.free = E.free /\ X.count = E.count - 1
               /\ X.post = E.post /\ X.entries = E.entries /\ X.live = E.live - Cardinality(E.recs[i].name)
               /\ X.layout = E.layout /\ X.clients = E.clients
<1> HIDE DEF Removed
\* removeRecLocked, field by field.
<1>RemovedFields.
    ASSUME NEW E \in Engine, NEW i \in DOMAIN E.recs
    PROVE  Removed(E, i, RemoveRec(E, i))
  <2> USE <1>RemovedFields
  <2> DEFINE rec == E.recs[i]
             h == rec.hash
             first == E.files[h] = i
             relink(k) == IF k = i THEN Blank
                          ELSE IF first /\ k = rec.next THEN [E.recs[k] EXCEPT !.sib = FALSE]
                          ELSE IF E.recs[k].next = i THEN [E.recs[k] EXCEPT !.next = rec.next]
                          ELSE E.recs[k]
             R == [k \in DOMAIN E.recs |-> relink(k)]
             F == [E.files EXCEPT ![h] = IF first THEN rec.next ELSE @]
             X == [E EXCEPT !.recs = R, !.files = F, !.dead = Append(E.dead, i), !.count = E.count - 1,
                            !.live = E.live - Cardinality(rec.name)]
  <2>1. /\ E.recs \in Seq(Record) /\ E.files \in [Hash -> Nat] /\ E.dead \in Seq(Nat) /\ E.count \in Int
        /\ E.live \in Int
    BY DEF Engine
  <2>2. \A k \in DOMAIN E.recs : E.recs[k] \in Record /\ k \in Nat
    BY SMT, <2>1
  <2>3. rec \in Record /\ h \in Hash /\ rec.next \in Nat /\ rec.name \in Name
    BY <2>2 DEF Record
  <2>4. RemoveRec(E, i) = X
    BY DEF RemoveRec
  <2>5. Blank \in Record
    <3> (CHOOSE g \in Hash : TRUE) \in Hash
      BY <2>3
    <3> {} \in Name
      BY FS_EmptySet DEF Name
    <3> <<>> \in Seq(Source)
      BY SMT
    <3> QED BY SMT DEF Blank, Record
  <2> HIDE DEF first
  <2>6. ASSUME NEW k \in DOMAIN E.recs
        PROVE  relink(k) \in Record
    BY <2>2, <2>3, <2>5 DEF Record
  <2>7. R \in Seq(Record) /\ DOMAIN R = DOMAIN E.recs
    <3> DOMAIN E.recs = 1..Len(E.recs) /\ Len(E.recs) \in Nat
      BY SMT, <2>1
    <3> HIDE DEF relink
    <3> QED BY SMT, <2>6
  <2>8. F \in [Hash -> Nat]
    BY <2>1, <2>3
  <2>9. Append(E.dead, i) \in Seq(Nat)
    BY SMT, <2>1, <2>2
  <2>10. Cardinality(rec.name) \in Nat
    BY <2>3, FS_CardinalityType DEF Name
  <2>11. E.count - 1 \in Int /\ E.live - Cardinality(rec.name) \in Int
    BY SMT, <2>1, <2>10
  <2>12. ASSUME NEW k \in DOMAIN E.recs, k # i
         PROVE  /\ R[k].live <=> E.recs[k].live
                /\ R[k].hash = E.recs[k].hash /\ R[k].size = E.recs[k].size
                /\ R[k].name = E.recs[k].name /\ R[k].src = E.recs[k].src
                /\ R[k].sib <=> E.recs[k].sib /\ ~(first /\ k = rec.next)
                /\ R[k].next = IF ~(first /\ k = rec.next) /\ E.recs[k].next = i
                               THEN rec.next ELSE E.recs[k].next
    <3> E.recs[k] \in Record /\ R[k] = relink(k)
      BY <2>2
    <3> QED BY <2>12 DEF Record
  <2>13. R[i] = Blank
    OBVIOUS
  <2>14. /\ F[h] = (IF first THEN rec.next ELSE E.files[h])
         /\ \A g \in Hash : g # h => F[g] = E.files[g]
    BY <2>1, <2>3
  <2> HIDE DEF R, F
  <2>15. X \in Engine
    BY <2>7, <2>8, <2>9, <2>11 DEF Engine
  <2>16. /\ X.recs = R /\ X.files = F /\ X.dead = Append(E.dead, i) /\ X.count = E.count - 1
         /\ X.live = E.live - Cardinality(rec.name) /\ X.free = E.free /\ X.post = E.post
         /\ X.entries = E.entries /\ X.layout = E.layout /\ X.clients = E.clients
    BY SMT DEF Engine
  <2> HIDE DEF X
  <2>17. Removed(E, i, X)
    BY <2>7, <2>12, <2>13, <2>14, <2>15, <2>16 DEF Removed, first
  <2> QED BY <2>4, <2>17
\* A record is the first of its hash, or the next of the one before it.
<1> DEFINE ChainAt(E, c, p, i) ==
               /\ p \in DOMAIN c /\ c[p] = i /\ Distinct(c)
               /\ E.files[E.recs[i].hash] = i <=> p = 1
               /\ \A k \in DOMAIN E.recs : E.recs[k].next = i <=> p > 1 /\ k = c[p - 1]
               /\ E.recs[i].next = IF p = Len(c) THEN 0 ELSE c[p + 1]
<1> HIDE DEF ChainAt
\* Every live record has its place in the chain of its hash.
<1>ChainAtIs.
    ASSUME NEW E \in Engine, Slots(E), Chains(E), NEW i \in DOMAIN E.recs, E.recs[i].live
    PROVE  \E p : ChainAt(E, Chain(E, E.recs[i].hash), p, i)
  <2> USE <1>ChainAtIs
  <2> DEFINE h == E.recs[i].hash
             c == Chain(E, h)
  <2>1. E.recs \in Seq(Record) /\ E.recs[i] \in Record /\ i \in Nat
    BY SMT DEF Engine
  <2>2. h \in Hash /\ 0 \notin DOMAIN E.recs
    BY SMTT(20), <2>1 DEF Record
  <2> HIDE DEF h
  <2>3. Chained(E, h, c)
    BY <2>2 DEF Chains
  <2> HIDE DEF c
  <2>4. c \in Seq(DOMAIN E.recs)
    BY <2>3 DEF Chained
  <2>5. DOMAIN c = 1..Len(c) /\ Len(c) \in Nat /\ \A k \in DOMAIN c : c[k] \in DOMAIN E.recs /\ k \in Nat
    BY SMT, <2>4
  <2>6. Distinct(c)
    BY <2>3 DEF Chained, Distinct
  <2>7. PICK p \in DOMAIN c : c[p] = i
    BY <2>3 DEF Chained, In, h
  <2>8. E.files[h] = i <=> p = 1
    <3> c # <<>> /\ 1 \in DOMAIN c
      BY SMT, <2>5, <2>7
    <3> E.files[h] = c[1]
      BY <2>3 DEF Chained
    <3> QED BY <2>6, <2>7 DEF Distinct
  <2>9. E.recs[i].next = IF p = Len(c) THEN 0 ELSE c[p + 1]
    BY <2>3, <2>7 DEF Chained
  <2>10. ASSUME p > 1 PROVE p - 1 \in DOMAIN c /\ E.recs[c[p - 1]].next = i
    <3> p - 1 \in DOMAIN c /\ p - 1 # Len(c) /\ (p - 1) + 1 = p
      BY SMT, <2>5, <2>7, <2>10
    <3> QED BY <2>3, <2>7 DEF Chained
  <2>11. ASSUME NEW k \in DOMAIN E.recs, E.recs[k].next = i PROVE p > 1 /\ k = c[p - 1]
    <3> E.recs[k].live
      BY <2>2, <2>11 DEF Slots
    <3> DEFINE g == E.recs[k].hash
               d == Chain(E, g)
    <3> E.recs[k] \in Record
      BY SMT, <2>1
    <3> g \in Hash
      BY DEF Record
    <3> HIDE DEF g
    <3> Chained(E, g, d)
      BY DEF Chains
    <3> HIDE DEF d
    <3> d \in Seq(DOMAIN E.recs)
      BY DEF Chained
    <3> PICK q \in DOMAIN d : d[q] = k
      BY DEF Chained, In, g
    <3> q # Len(d) /\ d[q + 1] = i
      BY <2>2, <2>11 DEF Chained
    <3> q + 1 \in DOMAIN d /\ q + 1 > 1 /\ (q + 1) - 1 = q
      BY SMT
    <3> E.recs[i].hash = g
      BY DEF Chained
    <3> d = c /\ g = h
      BY DEF c, d, h
    <3> p = q + 1
      BY <2>6, <2>7 DEF Distinct
    <3> QED OBVIOUS
  <2>12. ChainAt(E, c, p, i)
    BY <2>6, <2>7, <2>8, <2>9, <2>10, <2>11 DEF ChainAt, h
  <2> QED BY <2>12 DEF c, h
\* The chain of the hash, without the record.
<1>RemovedChain.
    ASSUME NEW E \in Engine, Slots(E), Chains(E), NEW i \in DOMAIN E.recs, E.recs[i].live,
           NEW X, Removed(E, i, X)
    PROVE  \E d : Chained(X, E.recs[i].hash, d)
  <2> USE <1>RemovedChain
  <2> DEFINE h == E.recs[i].hash
             c == Chain(E, h)
             N == E.recs[i].next
  <2>1. E.recs \in Seq(Record) /\ E.recs[i] \in Record
    BY SMT DEF Engine
  <2>2. h \in Hash
    BY <2>1 DEF Record
  <2>3. PICK p : ChainAt(E, c, p, i)
    BY <1>ChainAtIs
  <2>4. /\ DOMAIN X.recs = DOMAIN E.recs /\ X.recs[i] = Blank
        /\ \A k \in DOMAIN E.recs : k # i =>
             /\ X.recs[k].live <=> E.recs[k].live
             /\ X.recs[k].hash = E.recs[k].hash /\ X.recs[k].size = E.recs[k].size
             /\ X.recs[k].sib <=> E.recs[k].sib /\ ~(E.files[h] = i /\ k = N)
             /\ X.recs[k].next = IF ~(E.files[h] = i /\ k = N) /\ E.recs[k].next = i THEN N ELSE E.recs[k].next
        /\ X.files[h] = (IF E.files[h] = i THEN N ELSE E.files[h])
    BY DEF Removed
  <2> HIDE DEF h
  <2>5. Chained(E, h, c)
    BY <2>2 DEF Chains
  <2> HIDE DEF c, N
  <2>6. /\ p \in DOMAIN c /\ c[p] = i /\ Distinct(c) /\ (E.files[h] = i <=> p = 1)
        /\ \A k \in DOMAIN E.recs : E.recs[k].next = i <=> p > 1 /\ k = c[p - 1]
        /\ N = IF p = Len(c) THEN 0 ELSE c[p + 1]
    BY <2>3 DEF ChainAt, N, h
  <2> DEFINE m == Len(c) - 1
             at(k) == IF k < p THEN k ELSE k + 1
             d == [k \in 1..m |-> c[at(k)]]
  <2>7. /\ c \in Seq(DOMAIN E.recs)
        /\ E.files[h] = IF c = <<>> THEN 0 ELSE c[1]
        /\ \A k \in DOMAIN c :
             /\ E.recs[c[k]].live /\ E.recs[c[k]].hash = h /\ (E.recs[c[k]].sib <=> k > 1)
             /\ E.recs[c[k]].next = IF k = Len(c) THEN 0 ELSE c[k + 1]
        /\ \A j, k \in DOMAIN c : j # k => E.recs[c[j]].size # E.recs[c[k]].size
        /\ \A k \in DOMAIN E.recs : E.recs[k].live /\ E.recs[k].hash = h => In(c, k)
    BY <2>5 DEF Chained
  <2>8. /\ DOMAIN c = 1..Len(c) /\ Len(c) \in Nat /\ p \in Nat /\ m \in Nat
        /\ \A k \in DOMAIN c : c[k] \in DOMAIN E.recs
    BY SMT, <2>6, <2>7
  <2>9. \A k \in 1..m : at(k) \in DOMAIN c /\ at(k) # p /\ (at(k) > 1 <=> ~(at(k) = 1)) /\ at(k) \in Nat
    BY SMT, <2>6, <2>8
  <2>10. \A j, k \in 1..m : at(j) = at(k) => j = k
    BY SMT, <2>8
  <2>11. \A k \in 1..m : d[k] = c[at(k)] /\ d[k] \in DOMAIN E.recs /\ d[k] # i
    BY <2>6, <2>8, <2>9 DEF Distinct
  <2>12. d \in Seq(DOMAIN X.recs) /\ Len(d) = m /\ DOMAIN d = 1..m
    <3> HIDE DEF at
    <3> QED BY SMT, <2>4, <2>8, <2>11
  <2>13. \A k \in 1..m : k < m => at(k + 1) = IF at(k) + 1 = p THEN at(k) + 2 ELSE at(k) + 1
    BY SMT, <2>8
  <2>14. \A k \in 1..m : /\ k = m <=> at(k) = Len(c) \/ (at(k) + 1 = p /\ p = Len(c))
                         /\ k > 1 <=> at(k) > 1 /\ ~(p = 1 /\ at(k) = 2)
    <3> SUFFICES ASSUME NEW k \in 1..m
                 PROVE  /\ k = m <=> at(k) = Len(c) \/ (at(k) + 1 = p /\ p = Len(c))
                        /\ k > 1 <=> at(k) > 1 /\ ~(p = 1 /\ at(k) = 2)
      BY SMT
    <3> k \in Nat /\ p \in 1..Len(c) /\ Len(c) \in Nat /\ k \in 1..(Len(c) - 1) /\ m = Len(c) - 1
      BY SMT, <2>6, <2>8
    <3> HIDE DEF m
    <3> CASE k < p
      BY SMT
    <3> CASE ~(k < p)
      BY SMT
    <3> QED OBVIOUS
  <2> HIDE DEF at, d, m
  <2>15. ASSUME NEW k \in 1..m
         PROVE  /\ X.recs[d[k]].live /\ X.recs[d[k]].hash = h /\ (X.recs[d[k]].sib <=> k > 1)
                /\ X.recs[d[k]].next = IF k = m THEN 0 ELSE d[k + 1]
    <3> DEFINE q == at(k)
               r == c[q]
    <3>1. d[k] = r /\ r \in DOMAIN E.recs /\ r # i /\ q \in DOMAIN c /\ q \in Nat /\ q # p
      BY <2>9, <2>11
    <3>2. /\ E.recs[r].live /\ E.recs[r].hash = h /\ (E.recs[r].sib <=> q > 1)
          /\ E.recs[r].next = IF q = Len(c) THEN 0 ELSE c[q + 1]
      BY <2>7, <3>1
    <3>3. /\ X.recs[r].live <=> E.recs[r].live
          /\ X.recs[r].hash = E.recs[r].hash
          /\ X.recs[r].sib <=> E.recs[r].sib /\ ~(E.files[h] = i /\ r = N)
          /\ X.recs[r].next = IF ~(E.files[h] = i /\ r = N) /\ E.recs[r].next = i THEN N ELSE E.recs[r].next
      BY <2>4, <3>1
    <3>4. E.files[h] = i /\ r = N <=> p = 1 /\ q = 2
      <4>1. p = 1 /\ q = 2 => p # Len(c) /\ p + 1 = q
        BY SMT, <2>8, <3>1
      <4>2. p = 1 /\ p # Len(c) => p + 1 \in DOMAIN c /\ p + 1 = 2
        BY SMT, <2>8, <2>6
      <4> 0 \notin DOMAIN E.recs
        BY SMT, <2>1
      <4> QED BY <2>6, <3>1, <4>1, <4>2 DEF Distinct
    <3>5. E.recs[r].next = i <=> q + 1 = p
      <4>1. p > 1 => p - 1 \in DOMAIN c
        BY SMT, <2>6, <2>8
      <4> q + 1 = p <=> p > 1 /\ q = p - 1
        BY SMT, <2>8, <3>1
      <4> QED BY <2>6, <3>1, <4>1 DEF Distinct
    <3>6. k \in Nat /\ (k = m <=> q = Len(c) \/ (q + 1 = p /\ p = Len(c))) /\ (k > 1 <=> q > 1 /\ ~(p = 1 /\ q = 2))
      BY SMT, <2>14
    <3> HIDE DEF r
    <3>7. X.recs[r].sib <=> k > 1
      BY <3>2, <3>3, <3>4, <3>6
    <3>8. k # m => d[k + 1] = IF q + 1 = p THEN c[q + 2] ELSE c[q + 1]
      <4> SUFFICES ASSUME k # m PROVE d[k + 1] = IF q + 1 = p THEN c[q + 2] ELSE c[q + 1]
        BY SMT
      <4> k < m /\ k + 1 \in 1..m
        BY SMT, <2>8
      <4> d[k + 1] = c[at(k + 1)] /\ at(k + 1) = IF q + 1 = p THEN q + 2 ELSE q + 1
        BY <2>11, <2>13
      <4> QED OBVIOUS
    <3> HIDE DEF q
    <3>9. X.recs[r].next = IF q + 1 = p THEN N ELSE E.recs[r].next
      <4> ~(p = 1 /\ q = 2 /\ q + 1 = p)
        BY SMT, <3>1
      <4> QED BY <3>3, <3>4, <3>5
    <3>10. X.recs[r].next = IF k = m THEN 0 ELSE d[k + 1]
      <4> CASE q + 1 = p
        <5> p + 1 = q + 2 /\ q # Len(c)
          BY SMT, <2>6, <2>8, <3>1
        <5> QED BY <2>6, <3>6, <3>8, <3>9
      <4> CASE q + 1 # p
        BY <3>2, <3>6, <3>8, <3>9
      <4> QED OBVIOUS
    <3> QED BY <3>1, <3>2, <3>3, <3>7, <3>10
  <2>16. ASSUME NEW j \in 1..m, NEW k \in 1..m, j # k
         PROVE  X.recs[d[j]].size # X.recs[d[k]].size
    <3>1. E.recs[c[at(j)]].size # E.recs[c[at(k)]].size
      BY <2>7, <2>9, <2>10, <2>16
    <3> X.recs[d[j]].size = E.recs[d[j]].size /\ X.recs[d[k]].size = E.recs[d[k]].size
      BY <2>4, <2>11
    <3> d[j] = c[at(j)] /\ d[k] = c[at(k)]
      BY <2>11
    <3> QED BY <3>1
  <2>17. ASSUME NEW k \in DOMAIN X.recs, X.recs[k].live, X.recs[k].hash = h PROVE In(d, k)
    <3> k # i
      BY SMT, <2>4, <2>17 DEF Blank
    <3> E.recs[k].live /\ E.recs[k].hash = h
      BY <2>4, <2>17
    <3> PICK q \in DOMAIN c : c[q] = k
      BY <2>4, <2>7 DEF In
    <3> q # p
      BY <2>6
    <3> PICK j \in 1..m : at(j) = q
      <4> IF q < p THEN q \in 1..m /\ at(q) = q ELSE q - 1 \in 1..m /\ at(q - 1) = q
        BY SMT, <2>6, <2>8 DEF at, m
      <4> QED OBVIOUS
    <3> QED BY <2>11, <2>12 DEF In
  <2>18. X.files[h] = IF d = <<>> THEN 0 ELSE d[1]
    <3> d = <<>> <=> m = 0
      BY SMT, <2>12, <2>8
    <3> c # <<>>
      BY SMT, <2>6
    <3> CASE p = 1
      <4> X.files[h] = N /\ (p = Len(c) <=> m = 0)
        BY SMT, <2>4, <2>6, <2>8 DEF m
      <4> m # 0 => d[1] = c[p + 1]
        <5> SUFFICES ASSUME m # 0 PROVE d[1] = c[p + 1]
          BY SMT
        <5> 1 \in 1..m /\ at(1) = p + 1
          BY SMT, <2>8 DEF at
        <5> QED BY <2>11
      <4> QED BY <2>6
    <3> CASE p # 1
      <4> X.files[h] = c[1]
        BY <2>4, <2>6, <2>7
      <4> m # 0 /\ 1 \in 1..m /\ at(1) = 1
        BY SMT, <2>6, <2>8 DEF at, m
      <4> d[1] = c[1]
        BY <2>11
      <4> QED OBVIOUS
    <3> QED OBVIOUS
  <2>19. Chained(X, h, d)
    BY <2>12, <2>15, <2>16, <2>17, <2>18 DEF Chained
  <2> QED BY <2>19 DEF h
\* The chain of the record's hash closes over the gap; the others stay.
<1>RemovedChains.
    ASSUME NEW E \in Engine, Slots(E), Chains(E), NEW i \in DOMAIN E.recs, E.recs[i].live,
           NEW X, Removed(E, i, X)
    PROVE  Chains(X)
  <2> USE <1>RemovedChains
  <2> DEFINE h == E.recs[i].hash
  <2>1. E.recs \in Seq(Record) /\ X.recs \in Seq(Record) /\ E.recs[i] \in Record
    BY SMT DEF Engine, Removed
  <2>2. h \in Hash
    BY <2>1 DEF Record
  <2>3. PICK p : ChainAt(E, Chain(E, h), p, i)
    BY <1>ChainAtIs
  <2>4. Chained(E, h, Chain(E, h))
    BY <2>2 DEF Chains
  <2>5. E.recs[i].next # 0 => E.recs[E.recs[i].next].hash = h
    <3> DEFINE c == Chain(E, h)
    <3> c \in Seq(DOMAIN E.recs) /\ p \in DOMAIN c
      BY <2>3, <2>4 DEF ChainAt, Chained
    <3> HIDE DEF c
    <3> p # Len(c) => p + 1 \in DOMAIN c
      BY SMT
    <3> E.recs[i].next = IF p = Len(c) THEN 0 ELSE c[p + 1]
      BY <2>3 DEF ChainAt, c
    <3> \A k \in DOMAIN c : E.recs[c[k]].hash = h
      BY <2>4 DEF Chained, c
    <3> QED OBVIOUS
  <2>6. /\ DOMAIN X.recs = DOMAIN E.recs /\ X.recs[i] = Blank
        /\ \A k \in DOMAIN E.recs : k # i =>
             /\ X.recs[k].live <=> E.recs[k].live
             /\ X.recs[k].hash = E.recs[k].hash /\ X.recs[k].size = E.recs[k].size
             /\ X.recs[k].sib <=> E.recs[k].sib /\ ~(E.files[h] = i /\ k = E.recs[i].next)
             /\ X.recs[k].next = IF ~(E.files[h] = i /\ k = E.recs[i].next) /\ E.recs[k].next = i
                                 THEN E.recs[i].next ELSE E.recs[k].next
        /\ \A g \in Hash : g # h => X.files[g] = E.files[g]
    BY DEF Removed
  <2> SUFFICES ASSUME NEW g \in Hash PROVE Chained(X, g, Chain(X, g))
    BY DEF Chains
  <2>7. CASE g = h
    <3> PICK d : Chained(X, h, d)
      BY <1>RemovedChain
    <3> Chain(X, h) = d
      BY <2>1, ChainIs
    <3> QED BY <2>7
  <2>8. CASE g # h
    <3> DEFINE d == Chain(E, g)
    <3>1. Chained(E, g, d)
      BY DEF Chains
    <3> HIDE DEF d, h
    <3>2. d \in Seq(DOMAIN E.recs) /\ \A k \in DOMAIN d : E.recs[d[k]].live /\ E.recs[d[k]].hash = g
      BY <3>1 DEF Chained
    <3>3. \A k \in DOMAIN d : d[k] \in DOMAIN E.recs /\ (k # Len(d) => k + 1 \in DOMAIN d)
      BY SMT, <3>2
    <3>4. 0 \notin DOMAIN E.recs
      BY SMT, <2>1
    <3>5. ASSUME NEW k \in DOMAIN d
          PROVE  /\ d[k] \in DOMAIN X.recs /\ Same(X.recs[d[k]], E.recs[d[k]])
                 /\ X.recs[d[k]].next = E.recs[d[k]].next
      <4> d[k] \in DOMAIN E.recs /\ d[k] # i
        BY <2>8, <3>2, <3>3 DEF h
      <4> d[k] # E.recs[i].next
        BY <2>5, <2>8, <3>2, <3>4
      <4> E.recs[d[k]].next # i
        <5> E.recs[d[k]].next = IF k = Len(d) THEN 0 ELSE d[k + 1]
          BY <3>1 DEF Chained
        <5> QED BY <2>8, <3>2, <3>3, <3>4 DEF h
      <4> QED BY <2>6 DEF Same
    <3> ASSUME NEW k \in DOMAIN X.recs, X.recs[k].live, X.recs[k].hash = g
        PROVE  k \in DOMAIN E.recs /\ E.recs[k].live /\ E.recs[k].hash = g
      <4> k # i
        BY SMT, <2>6 DEF Blank
      <4> QED BY <2>6
    <3> Keeps(E, X, g, d)
      BY <2>6, <2>8, <3>5 DEF Keeps
    <3> Chained(X, g, d)
      BY <2>1, <3>1, KeptChain
    <3> Chain(X, g) = d
      BY <2>1, ChainIs
    <3> QED OBVIOUS
  <2> QED BY <2>7, <2>8
\* One record less is live.
<1>RemovedLive.
    ASSUME NEW E \in Engine, NEW i \in DOMAIN E.recs, E.recs[i].live, NEW X, Removed(E, i, X)
    PROVE  /\ Live(X) = Live(E) \ {i} /\ i \in Live(E)
           /\ IsFiniteSet(Live(E)) /\ Cardinality(Live(X)) = Cardinality(Live(E)) - 1
  <2> USE <1>RemovedLive
  <2>1. Live(X) = Live(E) \ {i} /\ i \in Live(E)
    <3> ~X.recs[i].live
      BY SMTT(20) DEF Removed, Blank
    <3> QED BY DEF Live, Removed
  <2>2. IsFiniteSet(Live(E))
    <3> E.recs \in Seq(Record)
      BY DEF Engine
    <3> DOMAIN E.recs = 1..Len(E.recs) /\ Len(E.recs) \in Nat /\ Live(E) \subseteq DOMAIN E.recs
      BY SMT DEF Live
    <3> QED BY Interval, FS_Subset
  <2> QED BY <2>1, <2>2, FS_RemoveElement
\* The slot is dead, once.
<1>RemovedSlots.
    ASSUME NEW E \in Engine, Slots(E), NEW i \in DOMAIN E.recs, E.recs[i].live, NEW X, Removed(E, i, X)
    PROVE  Slots(X)
  <2> USE <1>RemovedSlots
  <2>1. /\ E.dead \in Seq(Nat) /\ E.free \in Seq(Nat) /\ i \in Nat /\ E.count \in Int
        /\ 0 \notin DOMAIN E.recs
    BY SMT DEF Engine
  <2>2. /\ Distinct(E.dead) /\ Distinct(E.free)
        /\ \A k \in Nat : In(E.dead, k) => ~In(E.free, k)
        /\ \A k \in Nat : In(E.dead, k) \/ In(E.free, k) <=> k \in DOMAIN E.recs /\ ~E.recs[k].live
        /\ \A k \in DOMAIN E.recs : ~E.recs[k].live => E.recs[k].next = 0 /\ E.recs[k].src = <<>>
        /\ E.count = Cardinality(Live(E))
    BY DEF Slots
  <2> /\ X.dead = Append(E.dead, i) /\ X.free = E.free /\ X.count = E.count - 1
      /\ DOMAIN X.recs = DOMAIN E.recs /\ X.recs[i] = Blank
      /\ \A k \in DOMAIN E.recs : k # i =>
           /\ X.recs[k].live <=> E.recs[k].live
           /\ X.recs[k].src = E.recs[k].src
           /\ X.recs[k].next = E.recs[k].next \/ E.recs[k].next = i
    BY DEF Removed
  <2>3. ~In(E.dead, i) /\ ~In(E.free, i)
    BY <2>1, <2>2
  <2>4. Gains(E.dead, i, X.dead)
    BY <2>1, AppendList
  <2>5. Distinct(X.dead) /\ \A k : In(X.dead, k) <=> k = i \/ In(E.dead, k)
    BY <2>2, <2>3, <2>4 DEF Gains
  <2>6. ~X.recs[i].live /\ X.recs[i].next = 0 /\ X.recs[i].src = <<>>
    BY SMT DEF Blank
  <2>7. \A k \in Nat : In(X.dead, k) \/ In(X.free, k) <=> k \in DOMAIN X.recs /\ ~X.recs[k].live
    BY <2>2, <2>5, <2>6
  <2>8. ASSUME NEW k \in DOMAIN X.recs, ~X.recs[k].live PROVE X.recs[k].next = 0 /\ X.recs[k].src = <<>>
    <3>1. CASE k = i
      BY <2>6, <3>1
    <3> CASE k # i
      <4> E.recs[k].next = 0 /\ E.recs[k].src = <<>> /\ i # 0
        BY <2>1, <2>2, <2>8
      <4> QED OBVIOUS
    <3> QED BY <3>1
  <2>9. X.count = Cardinality(Live(X))
    <3> Cardinality(Live(X)) = Cardinality(Live(E)) - 1
      BY <1>RemovedLive
    <3> QED BY <2>2
  <2> QED BY <2>2, <2>3, <2>5, <2>7, <2>8, <2>9 DEF Slots
\* The postings stay, as stale entries, and the live ones are fewer by its name.
<1>RemovedIndex.
    ASSUME NEW E \in Engine, Index(E), NEW i \in DOMAIN E.recs, E.recs[i].live, NEW X, Removed(E, i, X)
    PROVE  Index(X)
  <2> USE <1>RemovedIndex
  <2>1. Live(X) = Live(E) \ {i} /\ i \in Live(E)
    BY <1>RemovedLive
  <2>2. /\ X.post = E.post /\ X.free = E.free /\ X.entries = E.entries
        /\ X.live = E.live - Cardinality(E.recs[i].name) /\ DOMAIN X.recs = DOMAIN E.recs
        /\ \A k \in DOMAIN E.recs : k # i => X.recs[k].name = E.recs[k].name
    BY DEF Removed
  <2>3. E.recs[i] \in Record /\ \A k \in Live(E) : k \in DOMAIN E.recs
    BY SMT DEF Engine, Live
  <2> DEFINE name == E.recs[i].name
             Q == Named(X)
  <2>4. name \in SUBSET Word /\ IsFiniteSet(name)
    BY <2>3 DEF Record, Name
  <2>5. Entries(X) = Entries(E)
    BY <2>2 DEF Entries
  <2>6. Named(E) = Q \cup (name \X {i}) /\ Q \cap (name \X {i}) = {}
    <3> HIDE DEF name
    <3> \A x : x \in Named(E) <=> x \in Word \X Live(E) /\ x[1] \in E.recs[x[2]].name
      BY DEF Named
    <3> \A x : x \in Q <=> x \in Word \X (Live(E) \ {i}) /\ x[1] \in X.recs[x[2]].name
      BY <2>1 DEF Named
    <3> HIDE DEF Q
    <3> \A x \in Word \X (Live(E) \ {i}) : X.recs[x[2]].name = E.recs[x[2]].name /\ x \in Word \X Live(E) /\ x[2] # i
      BY SMT, <2>2, <2>3
    <3> \A x \in Word \X Live(E) : x[2] # i => x \in Word \X (Live(E) \ {i})
      BY SMT
    <3> \A x \in name \X {i} : x \in Word \X Live(E) /\ x[1] \in name /\ x[2] = i
      BY SMT, <2>1, <2>4
    <3> \A x \in Word \X Live(E) : x[2] = i /\ x[1] \in name => x \in name \X {i}
      BY SMT
    <3> ASSUME NEW x PROVE x \in Named(E) <=> x \in Q \/ x \in name \X {i}
      BY DEF name
    <3> ASSUME NEW x \in Q PROVE x \notin name \X {i}
      OBVIOUS
    <3> QED OBVIOUS
  <2>7. IsFiniteSet(Named(E))
    BY NamedEntries
  <2>8. IsFiniteSet(Q)
    <3> HIDE DEF Q, name
    <3> Q \subseteq Named(E)
      BY <2>6
    <3> QED BY <2>7, FS_Subset
  <2>9. Cardinality(Named(E)) = Cardinality(Q) + Cardinality(name)
    <3> HIDE DEF Q, name
    <3> Cardinality(Q \cup (name \X {i})) = Cardinality(Q) + Cardinality(name)
      BY <2>4, <2>6, <2>8, AddPairs
    <3> QED BY <2>6
  <2>10. Cardinality(Q) \in Nat /\ Cardinality(name) \in Nat
    BY <2>4, <2>8, FS_CardinalityType
  <2>11. X.live = Cardinality(Q)
    <3> E.live = Cardinality(Named(E))
      BY DEF Index
    <3> HIDE DEF Q, name
    <3> QED BY SMT, <2>2, <2>9, <2>10 DEF name
  <2>12. \A k \in Live(X) : \A w \in X.recs[k].name : k \in X.post[w]
    <3> SUFFICES ASSUME NEW k \in Live(X), NEW w \in X.recs[k].name PROVE k \in X.post[w]
      BY SMT
    <3> k \in Live(E) /\ k # i
      BY <2>1
    <3> QED BY <2>2, <2>3 DEF Index
  <2> QED BY <2>2, <2>5, <2>11, <2>12 DEF Index
<1> SUFFICES ASSUME NEW A, NEW E, Sound(A, E), NEW i \in DOMAIN E.recs
             PROVE  Sound(A, Reap(E, i)) /\ Reaping(E, Reap(E, i))
  OBVIOUS
<1>1. E \in Engine /\ Slots(E) /\ Chains(E) /\ Index(E) /\ Sourced(A, E) /\ Offered(E)
  BY DEF Sound
<1>2. CASE ~(E.recs[i].live /\ E.recs[HeadOf(E, i)].src = <<>>)
  <2> Reap(E, i) = E
    BY <1>2 DEF Reap
  <2> QED BY DEF Reaping
<1>3. CASE E.recs[i].live /\ E.recs[HeadOf(E, i)].src = <<>>
  <2> DEFINE X == RemoveRec(E, i)
  <2>1. Reap(E, i) = X
    BY <1>3 DEF Reap
  <2>2. Removed(E, i, X)
    BY <1>1, <1>RemovedFields
  <2> HIDE DEF X
  <2>3. X \in Engine /\ Slots(X) /\ Chains(X) /\ Index(X)
    <3> X \in Engine
      BY <2>2 DEF Removed
    <3> Slots(X)
      BY <1>1, <1>3, <2>2, <1>RemovedSlots
    <3> Chains(X)
      BY <1>1, <1>3, <2>2, <1>RemovedChains
    <3> Index(X)
      BY <1>1, <1>3, <2>2, <1>RemovedIndex
    <3> QED OBVIOUS
  <2>4. E.recs[i].src = <<>>
    BY <1>1, <1>3 DEF HeadOf, Sourced
  <2> X.recs[i].src = <<>> /\ ~X.recs[i].live
    BY SMTT(20), <2>2 DEF Removed, Blank
  <2> /\ X.layout = E.layout /\ X.clients = E.clients /\ DOMAIN X.recs = DOMAIN E.recs
      /\ \A k \in DOMAIN E.recs : k # i =>
           /\ X.recs[k].live <=> E.recs[k].live
           /\ X.recs[k].hash = E.recs[k].hash /\ X.recs[k].size = E.recs[k].size
           /\ X.recs[k].src = E.recs[k].src /\ (X.recs[k].sib => E.recs[k].sib)
    BY <2>2 DEF Removed
  <2> Reaping(E, X)
    BY <2>4 DEF Reaping
  <2> Sourced(A, X)
    BY <1>1, <2>4 DEF Sourced
  <2> Offered(X)
    <3> \A k \in DOMAIN E.recs : X.recs[k].src = E.recs[k].src
      BY DEF Reaping
    <3> QED BY <1>1 DEF Offered
  <2> QED BY <2>1, <2>3 DEF Sound
<1> QED BY <1>2, <1>3

\* The loop of CleanupStale.
LEMMA ReapedIs ==
    ASSUME NEW A, NEW E, Sound(A, E)
    PROVE  Sound(A, Reaped(E)) /\ Reaping(E, Reaped(E))
<1> DEFINE m == Len(E.recs)
           S == [n \in 0..m |-> {X \in Engine : Sound(A, X) /\ Reaping(E, X)}]
           step == [n \in 1..m |-> [X \in Engine |-> Reap(X, n)]]
           Rec(g) == g = [n \in 0..m |-> IF n = 0 THEN E ELSE Reap(g[n - 1], n)]
           done == CHOOSE g : Rec(g)
<1>1. m \in Nat /\ DOMAIN E.recs = 1..m
  BY SMT DEF Sound, Engine
<1>2. ASSUME NEW n \in 1..m, NEW Y \in Engine, Sound(A, Y), Reaping(E, Y)
      PROVE  Reap(Y, n) \in Engine /\ Sound(A, Reap(Y, n)) /\ Reaping(E, Reap(Y, n))
  <2> DEFINE X == Reap(Y, n)
  <2>1. n \in DOMAIN Y.recs
    BY <1>1, <1>2 DEF Reaping
  <2> Sound(A, X) /\ Reaping(Y, X)
    BY <1>2, <2>1, ReapIs
  <2> HIDE DEF X
  <2> Reaping(E, X)
    BY <1>2 DEF Reaping
  <2> QED BY DEF X, Sound
<1>3. E \in Engine /\ Reaping(E, E)
  BY DEF Sound, Reaping
<1> HIDE DEF m
<1>4. E \in S[0]
  <2> 0 \in 0..m
    BY SMT, <1>1
  <2> QED BY <1>3
<1>5. Steps(m, S, step)
  <2> SUFFICES ASSUME NEW n \in 1..m, NEW x \in S[n - 1]
               PROVE  step[n][x] \in S[n]
    BY DEF Steps
  <2> n - 1 \in 0..m /\ n \in 0..m
    BY SMT, <1>1
  <2> x \in Engine /\ Sound(A, x) /\ Reaping(E, x)
    OBVIOUS
  <2> step[n][x] = Reap(x, n)
    OBVIOUS
  <2> QED BY <1>2
<1>6. PICK g : Runs(m, S, E, step, g)
  <2> HIDE DEF S, step
  <2> QED BY <1>1, <1>4, <1>5, Recursion
<1>7. Rec(g)
  <2> \A n \in 0..m : (IF n = 0 THEN E ELSE step[n][g[n - 1]]) = (IF n = 0 THEN E ELSE Reap(g[n - 1], n))
    <3> SUFFICES ASSUME NEW n \in 0..m, n # 0
                 PROVE  step[n][g[n - 1]] = Reap(g[n - 1], n)
      OBVIOUS
    <3> n \in 1..m /\ n - 1 \in 0..m
      BY SMT, <1>1
    <3> g[n - 1] \in Engine
      BY <1>6 DEF Runs
    <3> QED OBVIOUS
  <2> HIDE DEF step, S
  <2> QED BY <1>6 DEF Runs
<1>8. Rec(done)
  BY <1>7
<1>9. Reaped(E) = done[m]
  BY DEF Reaped, m
<1> DEFINE P == {n \in 0..m : done[n] \in S[n]}
<1> HIDE DEF done, step
<1>10. 0 \in P
  <2> 0 \in 0..m
    BY SMT, <1>1
  <2> QED BY <1>4, <1>8
<1>11. \A n \in 1..m : n - 1 \in P => n \in P
  <2> SUFFICES ASSUME NEW n \in 1..m, n - 1 \in P PROVE n \in P
    BY SMT
  <2> n \in 0..m /\ n # 0 /\ n - 1 \in 0..m
    BY SMT, <1>1
  <2> done[n] = Reap(done[n - 1], n)
    BY <1>8
  <2> done[n - 1] \in Engine /\ Sound(A, done[n - 1]) /\ Reaping(E, done[n - 1])
    BY DEF S
  <2> done[n] \in Engine /\ Sound(A, done[n]) /\ Reaping(E, done[n])
    BY <1>2
  <2> QED BY DEF S
<1>12. m \in P
  <2> HIDE DEF P
  <2> m \in 0..m
    BY SMT, <1>1
  <2> QED BY <1>1, <1>10, <1>11, Induct
<1>13. Sound(A, done[m]) /\ Reaping(E, done[m])
  <2> m \in 0..m
    BY SMT, <1>1
  <2> QED BY <1>12 DEF S
<1> QED BY <1>9, <1>13

----------------------------------------------------------------------------
(* The purge, and the renumbering *)

\* What is left once the dead slots are free.
Freed(E) == IF E.dead = <<>> THEN E ELSE [Purge(E) EXCEPT !.free = @ \o E.dead, !.dead = <<>>]

\* No id of a freed slot is left in the index.
LEMMA FreedIs ==
    \A A, E : Sound(A, E) =>
      /\ Sound(A, Freed(E)) /\ Freed(E).recs = E.recs /\ Freed(E).layout = E.layout
      /\ Freed(E).clients = E.clients
\* purge, and the dead slots to the free ones, field by field.
<1>FreedFields.
    ASSUME NEW E \in Engine, E.dead # <<>>, IsFiniteSet(Entries(E))
    PROVE  LET X == Freed(E) IN
           /\ X \in Engine /\ X.recs = E.recs /\ X.files = E.files /\ X.count = E.count
           /\ X.live = E.live /\ X.layout = E.layout /\ X.clients = E.clients
           /\ X.dead = <<>> /\ X.free = E.free \o E.dead
           /\ X.post = [w \in Word |-> E.post[w] \cap Live(E)]
           /\ X.entries = E.entries - Cardinality({x \in Entries(E) : x[2] \notin Live(E)})
  <2> USE <1>FreedFields
  <2> DEFINE P == [w \in Word |-> E.post[w] \cap Live(E)]
             T == {x \in Entries(E) : x[2] \notin Live(E)}
             n == E.entries - Cardinality(T)
             X == [E EXCEPT !.post = P, !.entries = n, !.free = E.free \o E.dead, !.dead = <<>>]
  <2> /\ E.post \in [Word -> SUBSET Nat] /\ E.entries \in Int /\ E.free \in Seq(Nat) /\ E.dead \in Seq(Nat)
    BY DEF Engine
  <2>1. P \in [Word -> SUBSET Nat]
    OBVIOUS
  <2>2. Cardinality(T) \in Nat
    <3> T \subseteq Entries(E)
      OBVIOUS
    <3> HIDE DEF T
    <3> QED BY FS_Subset, FS_CardinalityType
  <2> HIDE DEF T
  <2>3. n \in Int
    BY SMT, <2>2
  <2>4. Purge(E) = [E EXCEPT !.post = P, !.entries = n]
    BY DEF Purge, T
  <2> HIDE DEF P, n
  <2>5. E.free \o E.dead \in Seq(Nat) /\ <<>> \in Seq(Nat)
    BY SMT
  <2>6. Freed(E) = X
    BY SMT, <2>4 DEF Freed, Engine
  <2>7. X \in Engine
    BY <2>1, <2>3, <2>5 DEF Engine
  <2>8. /\ X.recs = E.recs /\ X.files = E.files /\ X.count = E.count
        /\ X.live = E.live /\ X.layout = E.layout /\ X.clients = E.clients
        /\ X.dead = <<>> /\ X.free = E.free \o E.dead /\ X.post = P /\ X.entries = n
    BY DEF Engine
  <2> HIDE DEF X
  <2> QED BY <2>6, <2>7, <2>8 DEF P, n, T
<1> SUFFICES ASSUME NEW A, NEW E, Sound(A, E)
             PROVE  Sound(A, Freed(E)) /\ Freed(E).recs = E.recs /\ Freed(E).layout = E.layout
                    /\ Freed(E).clients = E.clients
  OBVIOUS
<1> DEFINE X == Freed(E)
<1>1. E \in Engine /\ Slots(E) /\ Chains(E) /\ Index(E) /\ Sourced(A, E) /\ Offered(E)
  BY DEF Sound
<1>2. CASE E.dead = <<>>
  BY <1>2 DEF Freed
<1>3. CASE E.dead # <<>>
  <2>1. IsFiniteSet(Entries(E))
    BY <1>1 DEF Index
  <2>2. /\ X \in Engine /\ X.recs = E.recs /\ X.files = E.files /\ X.count = E.count
        /\ X.live = E.live /\ X.layout = E.layout /\ X.clients = E.clients
        /\ X.dead = <<>> /\ X.free = E.free \o E.dead
        /\ X.post = [w \in Word |-> E.post[w] \cap Live(E)]
        /\ X.entries = E.entries - Cardinality({x \in Entries(E) : x[2] \notin Live(E)})
    BY <1>1, <1>3, <2>1, <1>FreedFields
  <2> HIDE DEF X
  <2>3. Alike(E, X)
    BY <2>2 DEF Alike, Same
  <2>4. Chains(X)
    BY <1>1, <2>2, <2>3, AlikeChains
  <2>5. /\ Distinct(E.dead) /\ Distinct(E.free)
        /\ \A i \in Nat : In(E.dead, i) => ~In(E.free, i)
        /\ \A i \in Nat : In(E.dead, i) \/ In(E.free, i) <=> i \in DOMAIN E.recs /\ ~E.recs[i].live
    BY <1>1 DEF Slots
  <2>6. E.dead \in Seq(Nat) /\ E.free \in Seq(Nat)
    BY <1>1 DEF Engine
  <2>7. Joins(E.free, E.dead, X.free)
    <3> Joins(E.free, E.dead, E.free \o E.dead)
      BY <2>6, JoinLists
    <3> QED BY <2>2
  <2>8. \A i : In(E.dead, i) => i \in Nat
    BY SMT, <2>6 DEF In
  <2>9. \A i : ~In(X.dead, i)
    BY SMT, <2>2 DEF In
  <2>10. Distinct(X.dead)
    BY SMT, <2>2 DEF Distinct
  <2>11. Live(X) = Live(E)
    BY <2>2 DEF Live
  <2>12. \A i : In(X.free, i) <=> In(E.free, i) \/ In(E.dead, i)
    BY <2>7 DEF Joins
  <2>13. Distinct(X.free)
    BY <2>5, <2>7, <2>8 DEF Joins
  <2>14. Slots(X)
    <3> \A i \in Nat : In(X.dead, i) \/ In(X.free, i) <=> i \in DOMAIN X.recs /\ ~X.recs[i].live
      BY <2>2, <2>5, <2>9, <2>12
    <3> /\ \A i \in DOMAIN X.recs : ~X.recs[i].live => X.recs[i].next = 0 /\ X.recs[i].src = <<>>
        /\ X.count = Cardinality(Live(X))
      BY <1>1, <2>2, <2>11 DEF Slots
    <3> QED BY <2>9, <2>10, <2>13 DEF Slots
  <2>15. Index(X)
    <3>1. \A w \in Word : X.post[w] = E.post[w] \cap Live(E)
      BY <2>2
    <3>2. \A i \in Live(E) : E.recs[i].name \subseteq Word /\ i \in DOMAIN E.recs /\ i \in Nat /\ E.recs[i].live
      <4> E.recs \in Seq(Record)
        BY <1>1 DEF Engine
      <4> \A i \in DOMAIN E.recs : E.recs[i] \in Record /\ i \in Nat
        BY SMT
      <4> \A i \in DOMAIN E.recs : E.recs[i].name \subseteq Word
        BY DEF Record, Name
      <4> QED BY DEF Live
    <3>3. \A i \in Live(X) : \A w \in X.recs[i].name : i \in X.post[w]
      BY <1>1, <2>2, <2>11, <3>1, <3>2 DEF Index
    <3>4. \A w \in Word : \A i \in X.post[w] : i \in DOMAIN X.recs /\ ~In(X.free, i)
      BY <2>2, <2>5, <2>12, <3>1, <3>2
    <3> DEFINE T == {x \in Entries(E) : x[2] \notin Live(E)}
    <3>5. Entries(X) = Entries(E) \ T
      <4>1. ASSUME NEW x \in Word \X DOMAIN E.recs
            PROVE  x[2] \in X.post[x[1]] <=> x[2] \in E.post[x[1]] /\ x[2] \in Live(E)
        <5> x[1] \in Word
          BY SMT
        <5> QED BY <3>1
      <4> QED BY <2>2, <4>1 DEF Entries
    <3>6. T \subseteq Entries(E)
      OBVIOUS
    <3>7. X.entries = Cardinality(Entries(E)) - Cardinality(T)
      BY <1>1, <2>2 DEF Index
    <3> HIDE DEF T
    <3>8. Entries(E) \cap T = T
      BY <3>6
    <3> IsFiniteSet(Entries(E) \ T) /\ Cardinality(Entries(E) \ T) = Cardinality(Entries(E)) - Cardinality(Entries(E) \cap T)
      BY <2>1, FS_Difference
    <3> IsFiniteSet(Entries(X)) /\ X.entries = Cardinality(Entries(X))
      BY <3>5, <3>7, <3>8
    <3> Named(X) = Named(E)
      BY <2>2, <2>11 DEF Named
    <3> X.live = Cardinality(Named(X))
      BY <1>1, <2>2 DEF Index
    <3> QED BY <3>3, <3>4 DEF Index
  <2> Sourced(A, X) /\ Offered(X)
    BY <1>1, <2>2 DEF Sourced, Offered
  <2> QED BY <2>2, <2>4, <2>14, <2>15 DEF Sound, X
<1> QED BY <1>2, <1>3

\* The renumbering keeps the engine sound, and the sources with their records.
Cleaning(E, X) ==
    /\ DOMAIN X.clients = DOMAIN E.clients
    /\ \/ X.layout = E.layout /\ Reaping(E, X)
       \/ /\ X.layout = E.layout + 1
          /\ \A k \in DOMAIN X.recs : \E i \in DOMAIN E.recs : X.recs[k].src = E.recs[i].src

\* rebuildIndexLocked keeps the engine sound.
LEMMA RebuildIs ==
    \A A, E : Sound(A, E) => Sound(A, RebuildIndex(E)) /\ Cleaning(E, RebuildIndex(E))
\* The numbering of the live records.
<1> DEFINE Numbers(E) ==
               LET c == Cardinality(Live(E)) IN
               /\ c \in Nat /\ Live(E) \subseteq DOMAIN E.recs /\ 0 \notin Live(E)
               /\ \A i \in Live(E) : NewID(E, i) \in 1..c /\ Member(Live(E), NewID(E, i)) = i
               /\ \A i : i \notin Live(E) => NewID(E, i) = 0
               /\ \A k \in 1..c : Member(Live(E), k) \in Live(E) /\ NewID(E, Member(Live(E), k)) = k
<1> HIDE DEF Numbers
\* The new ids number the live records, in their order.
<1>NumbersAre.
    ASSUME NEW E \in Engine
    PROVE  Numbers(E)
  <2> USE <1>NumbersAre
  <2> DEFINE L == Live(E)
             n == Len(E.recs)
             c == Cardinality(L)
  <2>1. E.recs \in Seq(Record)
    BY DEF Engine
  <2> n \in Nat /\ L \in SUBSET (1..n) /\ L \subseteq DOMAIN E.recs /\ 0 \notin L
    BY SMT, <2>1 DEF Live
  <2> HIDE DEF L, n
  <2> /\ c \in 0..n
      /\ \A i \in L : Place(L, i) \in 1..c
      /\ \A i, j \in L : i < j => Place(L, i) < Place(L, j)
      /\ \A k \in 1..c : Member(L, k) \in L /\ Place(L, Member(L, k)) = k
    BY Places
  <2>2. c \in Nat
    BY SMT
  <2>3. ASSUME NEW i \in L PROVE Member(L, Place(L, i)) = i
    <3> DEFINE j == Member(L, Place(L, i))
    <3> Place(L, i) \in 1..c /\ j \in L /\ Place(L, j) = Place(L, i)
      OBVIOUS
    <3> HIDE DEF j
    <3> i \in Nat /\ j \in Nat /\ Place(L, i) \in Nat
      BY SMT, <2>2
    <3> ~(i < j) /\ ~(j < i)
      BY SMT
    <3> QED BY SMT DEF j
  <2>4. (\A i \in L : NewID(E, i) = Place(L, i)) /\ \A i : i \notin L => NewID(E, i) = 0
    BY DEF NewID, L
  <2> QED BY <2>2, <2>3, <2>4 DEF Numbers, L
\* What RebuildIndex makes of the engine.
<1> DEFINE Moved(E, X) ==
               LET c == Cardinality(Live(E)) IN
               /\ X \in Engine /\ DOMAIN X.recs = 1..c
               /\ \A k \in 1..c : LET r == E.recs[Member(Live(E), k)] IN
                    /\ SameFile(X.recs[k], r) /\ X.recs[k].next = NewID(E, r.next)
               /\ \A h \in Hash : X.files[h] = NewID(E, E.files[h])
               /\ \A w \in Word : X.post[w] = {k \in 1..c : w \in X.recs[k].name}
               /\ X.entries = Cardinality(Named(E)) /\ X.live = Cardinality(Named(E))
               /\ X.dead = <<>> /\ X.free = <<>> /\ X.count = E.count /\ X.layout = E.layout + 1
               /\ DOMAIN X.clients = DOMAIN E.clients
               /\ \A s \in DOMAIN E.clients : X.clients[s] = Renumbered(E, E.clients[s])
<1> HIDE DEF Moved
\* An offered list with the new ids.
<1>RenumberedIs.
    ASSUME NEW E \in Engine, Numbers(E), NEW list \in Seq(Nat), \A k \in DOMAIN list : list[k] \in Live(E)
    PROVE  /\ Renumbered(E, list) \in Seq(Nat)
           /\ \A j : In(Renumbered(E, list), j) <=> \E k \in DOMAIN list : NewID(E, list[k]) = j
           /\ Distinct(list) => Distinct(Renumbered(E, list))
  <2> USE <1>RenumberedIs
  <2> DEFINE new == [k \in DOMAIN list |-> NewID(E, list[k])]
             I == {k \in DOMAIN new : new[k] # 0}
  <2>1. Cardinality(Live(E)) \in Nat
    BY DEF Numbers
  <2>2. \A k \in DOMAIN list : NewID(E, list[k]) \in 1..Cardinality(Live(E))
    BY DEF Numbers
  <2>3. \A k \in DOMAIN list : NewID(E, list[k]) \in Nat /\ NewID(E, list[k]) # 0
    BY SMT, <2>1, <2>2
  <2>4. new \in Seq(Nat)
    <3> DOMAIN list = 1..Len(list) /\ Len(list) \in Nat
      BY SMT
    <3> QED BY SMT, <2>3
  <2>5. I \in SUBSET DOMAIN new /\ \A k \in DOMAIN new : k \in I
    BY <2>3
  <2>6. Renumbered(E, list) = Sublist(new, I)
    BY DEF Renumbered
  <2>7. Distinct(list) => Distinct(new)
    <3>1. \A j, k \in DOMAIN list : NewID(E, list[j]) = NewID(E, list[k]) => list[j] = list[k]
      BY DEF Numbers
    <3> QED BY <3>1 DEF Distinct
  <2>8. \A k \in DOMAIN list : new[k] = NewID(E, list[k])
    OBVIOUS
  <2>9. DOMAIN new = DOMAIN list
    OBVIOUS
  <2> HIDE DEF new, I
  <2>10. /\ Sublist(new, I) \in Seq(Nat)
         /\ \A x : In(Sublist(new, I), x) <=> \E i \in I : new[i] = x
         /\ Distinct(new) => Distinct(Sublist(new, I))
    BY <2>4, <2>5, SublistElements
  <2>11. \A j : In(Sublist(new, I), j) <=> \E k \in DOMAIN list : NewID(E, list[k]) = j
    BY <2>5, <2>8, <2>9, <2>10
  <2> QED BY <2>6, <2>7, <2>10, <2>11
\* rebuildIndexLocked, field by field.
<1>RebuildFields.
    ASSUME NEW E \in Engine, IsFiniteSet(Named(E)),
           \A s \in DOMAIN E.clients : \A k \in DOMAIN E.clients[s] : E.clients[s][k] \in Live(E)
    PROVE  Moved(E, RebuildIndex(E))
  <2> USE <1>RebuildFields
  <2> DEFINE L == Live(E)
             c == Cardinality(L)
             kept == Sublist(E.recs, L)
             R == [k \in DOMAIN kept |-> [kept[k] EXCEPT !.next = NewID(E, kept[k].next)]]
             n == Cardinality(Named(E))
             F == [h \in Hash |-> NewID(E, E.files[h])]
             P == [w \in Word |-> {k \in DOMAIN R : w \in R[k].name}]
             C == [s \in DOMAIN E.clients |-> Renumbered(E, E.clients[s])]
             X == [E EXCEPT !.recs = R, !.files = F, !.post = P, !.entries = n, !.live = n, !.dead = <<>>,
                            !.free = <<>>, !.clients = C, !.layout = E.layout + 1]
  <2>1. E.recs \in Seq(Record) /\ E.files \in [Hash -> Nat] /\ E.clients \in Lists /\ E.layout \in Nat
    BY DEF Engine
  <2>2. Numbers(E)
    BY <1>NumbersAre
  <2>3. /\ c \in Nat /\ \A i \in L : NewID(E, i) \in 1..c /\ Member(L, NewID(E, i)) = i
        /\ \A i : i \notin L => NewID(E, i) = 0
        /\ \A k \in 1..c : Member(L, k) \in L /\ NewID(E, Member(L, k)) = k
        /\ L \in SUBSET DOMAIN E.recs
    BY <2>2 DEF Numbers
  <2>4. \A i : NewID(E, i) \in Nat
    <3> (\A i \in L : NewID(E, i) \in Nat) /\ 0 \in Nat
      BY SMT, <2>3
    <3> QED BY <2>3
  <2> HIDE DEF L
  <2>5. kept \in Seq(Record) /\ Len(kept) = c /\ \A k \in 1..c : kept[k] = E.recs[Member(L, k)]
    BY ZenonT(30), <2>1, <2>3, SublistEmbeds
  <2>6. RebuildIndex(E) = X
    <3> Compacted(E) = [E EXCEPT !.recs = R, !.files = F, !.post = P, !.entries = n, !.live = n, !.dead = <<>>,
                                 !.free = <<>>]
      BY DEF Compacted, L
    <3> RebuildIndex(E) = [Compacted(E) EXCEPT !.clients = [s \in DOMAIN Compacted(E).clients |-> Renumbered(E, Compacted(E).clients[s])],
                                               !.layout = Compacted(E).layout + 1]
      BY DEF RebuildIndex
    <3> HIDE DEF R, F, P, n
    <3> Compacted(E).clients = E.clients /\ Compacted(E).layout = E.layout
      BY SMT DEF Engine
    <3> RebuildIndex(E) = [Compacted(E) EXCEPT !.clients = C, !.layout = E.layout + 1]
      OBVIOUS
    <3> HIDE DEF C
    <3> QED BY SMT DEF Engine
  <2> HIDE DEF kept
  <2>7. DOMAIN kept = 1..c /\ \A k \in 1..c : kept[k] \in Record
    BY SMT, <2>3, <2>5
  <2>8. ASSUME NEW k \in 1..c
        PROVE  /\ R[k] \in Record /\ SameFile(R[k], E.recs[Member(L, k)])
               /\ R[k].next = NewID(E, E.recs[Member(L, k)].next)
    <3>1. R[k] = [kept[k] EXCEPT !.next = NewID(E, kept[k].next)] /\ kept[k] = E.recs[Member(L, k)] /\ kept[k] \in Record
      BY <2>5, <2>7
    <3>2. NewID(E, kept[k].next) \in Nat
      BY <2>4
    <3> R[k] \in Record /\ SameFile(R[k], kept[k]) /\ R[k].next = NewID(E, kept[k].next)
      BY SMTT(20), <3>1, <3>2 DEF Record, SameFile, Same
    <3> QED BY <3>1
  <2>9. DOMAIN R = 1..c
    BY <2>7
  <2>10. R \in Seq(Record)
    <3> R = [k \in 1..c |-> R[k]]
      BY <2>9
    <3> HIDE DEF R
    <3> \A k \in 1..c : R[k] \in Record
      BY <2>8
    <3> QED BY SMT, <2>3
  <2> HIDE DEF R
  <2>11. F \in [Hash -> Nat]
    BY <2>4
  <2>12. P \in [Word -> SUBSET Nat]
    <3> 1..c \subseteq Nat
      BY SMT, <2>3
    <3> QED BY <2>9
  <2>13. n \in Int
    <3> n \in Nat
      BY FS_CardinalityType
    <3> QED BY SMT
  <2>14. C \in Lists
    <3> \A s \in DOMAIN E.clients : E.clients[s] \in Seq(Nat)
      BY <2>1, ListsAre
    <3> \A s \in DOMAIN E.clients : Renumbered(E, E.clients[s]) \in Seq(Nat)
      BY <2>2, <1>RenumberedIs
    <3> C \in [DOMAIN E.clients -> Seq(Nat)] /\ DOMAIN E.clients \in SUBSET Session
      BY <2>1, ListsAre
    <3> QED BY ListsAre
  <2>15. \A s \in DOMAIN E.clients : C[s] = Renumbered(E, E.clients[s])
    OBVIOUS
  <2> /\ \A h \in Hash : F[h] = NewID(E, E.files[h])
      /\ \A w \in Word : P[w] = {k \in 1..c : w \in R[k].name}
      /\ DOMAIN C = DOMAIN E.clients
    BY <2>9
  <2> HIDE DEF F, P, C, n
  <2>16. E.layout + 1 \in Nat /\ <<>> \in Seq(Nat)
    BY SMT, <2>1
  <2>17. X \in Engine
    BY <2>10, <2>11, <2>12, <2>13, <2>14, <2>16 DEF Engine
  <2> /\ X.recs = R /\ X.files = F /\ X.post = P /\ X.entries = n /\ X.live = n /\ X.dead = <<>>
      /\ X.free = <<>> /\ X.count = E.count /\ X.clients = C /\ X.layout = E.layout + 1
    BY SMT DEF Engine
  <2> HIDE DEF X
  <2>18. Moved(E, X)
    <3>1. \A h \in Hash : X.files[h] = NewID(E, E.files[h])
      OBVIOUS
    <3> \A w \in Word : X.post[w] = {k \in 1..c : w \in X.recs[k].name}
      OBVIOUS
    <3> \A s \in DOMAIN E.clients : X.clients[s] = Renumbered(E, E.clients[s])
      BY <2>15
    <3> \A k \in 1..c : LET r == E.recs[Member(L, k)] IN
           /\ SameFile(X.recs[k], r) /\ X.recs[k].next = NewID(E, r.next)
      BY <2>8
    <3> DOMAIN X.recs = 1..c /\ DOMAIN X.clients = DOMAIN E.clients
      BY <2>9
    <3> QED BY <2>17, <3>1 DEF Moved, L, n
  <2> QED BY <2>6, <2>18
\* A chain renumbered is a chain.
<1>MovedChains.
    ASSUME NEW E \in Engine, Chains(E), NEW X, Moved(E, X), Numbers(E)
    PROVE  Chains(X)
  <2> USE <1>MovedChains
  <2> DEFINE L == Live(E)
             n == Cardinality(L)
  <2>1. /\ n \in Nat /\ \A i \in L : NewID(E, i) \in 1..n /\ Member(L, NewID(E, i)) = i
        /\ \A i : i \notin L => NewID(E, i) = 0
        /\ \A k \in 1..n : Member(L, k) \in L
        /\ 0 \notin L
    BY DEF Numbers
  <2>2. /\ DOMAIN X.recs = 1..n /\ X \in Engine
        /\ \A k \in 1..n : SameFile(X.recs[k], E.recs[Member(L, k)])
                           /\ X.recs[k].next = NewID(E, E.recs[Member(L, k)].next)
        /\ \A h \in Hash : X.files[h] = NewID(E, E.files[h])
    BY DEF Moved
  <2>3. ASSUME NEW i \in L
        PROVE  /\ Same(X.recs[NewID(E, i)], E.recs[i])
               /\ X.recs[NewID(E, i)].next = NewID(E, E.recs[i].next)
    BY <2>1, <2>2 DEF SameFile
  <2>4. X.recs \in Seq(Record)
    BY <2>2 DEF Engine
  <2> SUFFICES ASSUME NEW h \in Hash PROVE Chained(X, h, Chain(X, h))
    BY DEF Chains
  <2> DEFINE c == Chain(E, h)
             d == [k \in DOMAIN c |-> NewID(E, c[k])]
  <2>5. Chained(E, h, c)
    BY DEF Chains
  <2> HIDE DEF c
  <2>6. /\ c \in Seq(DOMAIN E.recs)
        /\ E.files[h] = IF c = <<>> THEN 0 ELSE c[1]
        /\ \A k \in DOMAIN c :
             /\ E.recs[c[k]].live /\ E.recs[c[k]].hash = h /\ (E.recs[c[k]].sib <=> k > 1)
             /\ E.recs[c[k]].next = IF k = Len(c) THEN 0 ELSE c[k + 1]
        /\ \A j, k \in DOMAIN c : j # k => E.recs[c[j]].size # E.recs[c[k]].size
        /\ \A i \in DOMAIN E.recs : E.recs[i].live /\ E.recs[i].hash = h => In(c, i)
    BY <2>5 DEF Chained
  <2>7. /\ DOMAIN c = 1..Len(c) /\ Len(c) \in Nat
        /\ \A k \in DOMAIN c : c[k] \in DOMAIN E.recs /\ (k # Len(c) => k + 1 \in DOMAIN c)
    BY SMT, <2>6
  <2>8. \A k \in DOMAIN c : c[k] \in L
    BY <2>6, <2>7 DEF Live
  <2>9. \A k \in DOMAIN c : d[k] = NewID(E, c[k])
    OBVIOUS
  <2>10. d \in Seq(1..n) /\ Len(d) = Len(c) /\ DOMAIN d = DOMAIN c /\ (d = <<>> <=> c = <<>>) /\ (c # <<>> => 1 \in DOMAIN c)
    <3> \A k \in DOMAIN c : NewID(E, c[k]) \in 1..n
      BY <2>1, <2>8
    <3> QED BY SMT, <2>7, <2>6
  <2> HIDE DEF d, L, n
  <2>11. X.files[h] = IF d = <<>> THEN 0 ELSE d[1]
    <3>1. X.files[h] = NewID(E, E.files[h]) /\ NewID(E, 0) = 0
      BY <2>1, <2>2
    <3>2. CASE c = <<>>
      <4> E.files[h] = 0
        BY <2>6, <3>2
      <4> d = <<>>
        BY <2>10, <3>2
      <4> QED BY <3>1
    <3>3. CASE c # <<>>
      BY <2>6, <2>9, <2>10, <3>1, <3>3
    <3> QED BY <3>2, <3>3
  <2>12. ASSUME NEW k \in DOMAIN d
         PROVE  /\ X.recs[d[k]].live /\ X.recs[d[k]].hash = h /\ (X.recs[d[k]].sib <=> k > 1)
                /\ X.recs[d[k]].next = IF k = Len(d) THEN 0 ELSE d[k + 1]
    <3> /\ k \in DOMAIN c /\ c[k] \in L /\ d[k] = NewID(E, c[k])
      BY <2>8, <2>9, <2>10
    <3> Same(X.recs[d[k]], E.recs[c[k]]) /\ X.recs[d[k]].next = NewID(E, E.recs[c[k]].next)
      BY <2>3
    <3> X.recs[d[k]].next = IF k = Len(d) THEN 0 ELSE d[k + 1]
      <4> E.recs[c[k]].next = (IF k = Len(c) THEN 0 ELSE c[k + 1]) /\ NewID(E, 0) = 0
        BY <2>1, <2>6
      <4> CASE k = Len(c)
        BY <2>10
      <4> CASE k # Len(c)
        <5> d[k + 1] = NewID(E, c[k + 1])
          BY <2>7, <2>9
        <5> QED BY <2>10
      <4> QED OBVIOUS
    <3> QED BY <2>6 DEF Same
  <2>13. ASSUME NEW j \in DOMAIN d, NEW k \in DOMAIN d, j # k
         PROVE  X.recs[d[j]].size # X.recs[d[k]].size
    <3>1. X.recs[d[j]].size = E.recs[c[j]].size /\ X.recs[d[k]].size = E.recs[c[k]].size
      BY <2>3, <2>8, <2>9, <2>10 DEF Same
    <3> QED BY ZenonT(30), <2>6, <2>10, <2>13, <3>1
  <2>14. ASSUME NEW i \in DOMAIN X.recs, X.recs[i].live, X.recs[i].hash = h PROVE In(d, i)
    <3> DEFINE j == Member(L, i)
    <3> i \in 1..n /\ j \in L /\ NewID(E, j) = i
      BY <2>1, <2>2 DEF Numbers, L, n
    <3> j \in DOMAIN E.recs /\ E.recs[j].live /\ E.recs[j].hash = h
      BY <2>3, <2>14 DEF Same, Live, L
    <3> PICK k \in DOMAIN c : c[k] = j
      BY <2>6 DEF In
    <3> QED BY <2>9, <2>10 DEF In
  <2>15. Chained(X, h, d)
    <3> d \in Seq(DOMAIN X.recs)
      BY <2>2, <2>10
    <3> QED BY <2>11, <2>12, <2>13, <2>14 DEF Chained
  <2>16. Chain(X, h) = d
    BY <2>4, <2>15, ChainIs
  <2> QED BY <2>15, <2>16
\* An index built afresh has no stale entry.
<1>MovedIndex.
    ASSUME NEW E \in Engine, Index(E), NEW X, Moved(E, X), Numbers(E)
    PROVE  Index(X) /\ Live(X) = DOMAIN X.recs
  <2> USE <1>MovedIndex
  <2> DEFINE L == Live(E)
             n == Cardinality(L)
  <2>1. /\ n \in Nat /\ \A i \in L : NewID(E, i) \in 1..n /\ Member(L, NewID(E, i)) = i
        /\ \A k \in 1..n : Member(L, k) \in L /\ NewID(E, Member(L, k)) = k
        /\ L \subseteq DOMAIN E.recs
    BY DEF Numbers
  <2>2. /\ DOMAIN X.recs = 1..n /\ X \in Engine
        /\ \A k \in 1..n : SameFile(X.recs[k], E.recs[Member(L, k)])
        /\ \A w \in Word : X.post[w] = {k \in 1..n : w \in X.recs[k].name}
        /\ X.entries = Cardinality(Named(E)) /\ X.live = Cardinality(Named(E)) /\ X.free = <<>>
    BY DEF Moved
  <2>3. \A k \in 1..n : X.recs[k].live /\ X.recs[k].name = E.recs[Member(L, k)].name
    BY <2>1, <2>2 DEF SameFile, Same, Live
  <2>4. Live(X) = 1..n
    BY <2>2, <2>3 DEF Live
  <2>5. \A k \in 1..n : X.recs[k].name \subseteq Word
    <3> X.recs \in Seq(Record)
      BY <2>2 DEF Engine
    <3> \A k \in DOMAIN X.recs : X.recs[k] \in Record
      BY SMT
    <3> QED BY <2>2 DEF Record, Name
  <2> HIDE DEF n, L
  <2>6. Entries(X) = Named(X)
    <3> ASSUME NEW x \in Word \X (1..n)
        PROVE  x[2] \in X.post[x[1]] <=> x[1] \in X.recs[x[2]].name
      <4> x[1] \in Word /\ x[2] \in 1..n
        BY SMT
      <4> QED BY <2>2
    <3> QED BY <2>2, <2>4 DEF Entries, Named
  <2>7. IsFiniteSet(Named(E))
    BY NamedEntries
  <2> DEFINE f == [x \in Named(E) |-> <<x[1], NewID(E, x[2])>>]
  <2>8. f \in Bijection(Named(E), Named(X))
    <3> ASSUME NEW x \in Named(E)
        PROVE  /\ x = <<x[1], x[2]>> /\ x[1] \in Word /\ x[2] \in L
               /\ f[x] = <<x[1], NewID(E, x[2])>> /\ f[x] \in Named(X) /\ Member(L, f[x][2]) = x[2] /\ f[x][1] = x[1]
      <4> x \in Word \X L /\ x[1] \in E.recs[x[2]].name
        BY DEF Named, L
      <4> x = <<x[1], x[2]>> /\ x[1] \in Word /\ x[2] \in L
        BY SMT
      <4> f[x] = <<x[1], NewID(E, x[2])>>
        OBVIOUS
      <4> NewID(E, x[2]) \in 1..n /\ Member(L, NewID(E, x[2])) = x[2]
        BY <2>1
      <4> X.recs[NewID(E, x[2])].name = E.recs[x[2]].name
        BY <2>3
      <4> f[x][1] = x[1] /\ f[x][2] = NewID(E, x[2]) /\ f[x] \in Word \X (1..n)
        BY SMT
      <4> f[x] \in Named(X)
        BY <2>4 DEF Named
      <4> QED OBVIOUS
    <3> ASSUME NEW y \in Named(X) PROVE \E x \in Named(E) : f[x] = y
      <4> DEFINE x == <<y[1], Member(L, y[2])>>
      <4> y \in Word \X (1..n) /\ y[1] \in X.recs[y[2]].name
        BY <2>4 DEF Named
      <4> y = <<y[1], y[2]>> /\ y[1] \in Word /\ y[2] \in 1..n
        BY SMT
      <4> Member(L, y[2]) \in L /\ NewID(E, Member(L, y[2])) = y[2] /\ X.recs[y[2]].name = E.recs[Member(L, y[2])].name
        BY <2>1, <2>3
      <4> x \in Word \X L /\ x[1] = y[1] /\ x[2] = Member(L, y[2])
        BY SMT
      <4> x \in Named(E)
        BY DEF Named, L
      <4> f[x] = y
        <5> HIDE DEF x
        <5> f[x] = <<x[1], NewID(E, x[2])>>
          OBVIOUS
        <5> QED OBVIOUS
      <4> QED OBVIOUS
    <3> f \in [Named(E) -> Named(X)]
      OBVIOUS
    <3> \A x, y \in Named(E) : f[x] = f[y] => x = y
      <4> SUFFICES ASSUME NEW x \in Named(E), NEW y \in Named(E), f[x] = f[y] PROVE x = y
        BY SMT
      <4> HIDE DEF f
      <4> /\ Member(L, f[x][2]) = x[2] /\ f[x][1] = x[1] /\ x = <<x[1], x[2]>>
          /\ Member(L, f[y][2]) = y[2] /\ f[y][1] = y[1] /\ y = <<y[1], y[2]>>
        OBVIOUS
      <4> x[1] = y[1] /\ x[2] = y[2]
        OBVIOUS
      <4> QED OBVIOUS
    <3> HIDE DEF f
    <3> DOMAIN f = Named(E)
      OBVIOUS
    <3> QED BY DEF Bijection, Injection, Surjection, IsInjective
  <2>9. IsFiniteSet(Named(X)) /\ Cardinality(Named(X)) = Cardinality(Named(E))
    <3> ExistsBijection(Named(E), Named(X))
      BY <2>8 DEF ExistsBijection
    <3> QED BY <2>7, FS_Bijection
  <2>10. \A i \in Live(X) : \A w \in X.recs[i].name : i \in X.post[w]
    BY <2>2, <2>4, <2>5
  <2>11. \A w \in Word : \A i \in X.post[w] : i \in DOMAIN X.recs /\ ~In(X.free, i)
    <3> \A i : ~In(<<>>, i)
      BY SMT DEF In
    <3> QED BY <2>2
  <2> QED BY <2>2, <2>4, <2>6, <2>9, <2>10, <2>11 DEF Index
<1> SUFFICES ASSUME NEW A, NEW E, Sound(A, E)
             PROVE  Sound(A, RebuildIndex(E)) /\ Cleaning(E, RebuildIndex(E))
  OBVIOUS
<1> DEFINE X == RebuildIndex(E)
           L == Live(E)
           n == Cardinality(L)
<1>1. E \in Engine /\ Slots(E) /\ Chains(E) /\ Index(E) /\ Sourced(A, E) /\ Offered(E)
  BY DEF Sound
<1>2. Numbers(E)
  BY <1>1, <1>NumbersAre
<1>3. E.clients \in Lists /\ E.recs \in Seq(Record)
  BY <1>1 DEF Engine
<1>4. \A s \in DOMAIN E.clients : E.clients[s] \in Seq(Nat)
  BY <1>3, ListsAre
<1>5. ASSUME NEW s \in DOMAIN E.clients, NEW k \in DOMAIN E.clients[s]
      PROVE  E.clients[s][k] \in L
  <2> DEFINE i == E.clients[s][k]
  <2> i \in Nat /\ In(E.clients[s], i)
    BY SMT, <1>4 DEF In
  <2> HIDE DEF i
  <2> i \in DOMAIN E.recs /\ Has(E.recs[i].src, s)
    BY <1>1 DEF Offered
  <2> E.recs[i].src # <<>>
    BY SMT DEF Has
  <2> QED BY <1>1 DEF Sourced, Live, i
<1>6. IsFiniteSet(Named(E))
  BY <1>1, NamedEntries
<1>7. Moved(E, X)
  BY <1>1, <1>5, <1>6, <1>RebuildFields
<1> HIDE DEF X
<1>8. /\ n \in Nat /\ \A i \in L : NewID(E, i) \in 1..n /\ Member(L, NewID(E, i)) = i
      /\ \A k \in 1..n : Member(L, k) \in L /\ NewID(E, Member(L, k)) = k
      /\ L \subseteq DOMAIN E.recs
  BY <1>2 DEF Numbers
<1>9. /\ DOMAIN X.recs = 1..n /\ X \in Engine
      /\ \A k \in 1..n : SameFile(X.recs[k], E.recs[Member(L, k)])
      /\ X.dead = <<>> /\ X.free = <<>> /\ X.count = E.count /\ X.layout = E.layout + 1
      /\ DOMAIN X.clients = DOMAIN E.clients
      /\ \A s \in DOMAIN E.clients : X.clients[s] = Renumbered(E, E.clients[s])
  BY <1>7 DEF Moved
<1>10. Chains(X) /\ Index(X) /\ Live(X) = 1..n
  BY <1>1, <1>2, <1>7, <1>9, <1>MovedChains, <1>MovedIndex
<1>11. Slots(X)
  <2> Distinct(<<>>) /\ \A i : ~In(<<>>, i)
    BY SMT DEF Distinct, In
  <2> \A i \in DOMAIN X.recs : X.recs[i].live
    BY <1>9, <1>10 DEF Live
  <2> Cardinality(1..n) = n
    BY <1>8, Interval
  <2> X.count = Cardinality(Live(X))
    BY <1>1, <1>9, <1>10 DEF Slots
  <2> QED BY <1>9 DEF Slots
<1> HIDE DEF L, n
<1>12. Sourced(A, X)
  <2> SUFFICES ASSUME NEW k \in DOMAIN X.recs
               PROVE  /\ SourceList(A, X.recs[k].src)
                      /\ X.recs[k].src # <<>> => X.recs[k].live /\ ~X.recs[k].sib
    BY DEF Sourced
  <2> Member(L, k) \in DOMAIN E.recs /\ SameFile(X.recs[k], E.recs[Member(L, k)])
    BY <1>8, <1>9
  <2> /\ SourceList(A, E.recs[Member(L, k)].src)
      /\ E.recs[Member(L, k)].src # <<>> => E.recs[Member(L, k)].live /\ ~E.recs[Member(L, k)].sib
    BY <1>1 DEF Sourced
  <2> QED BY DEF SameFile, Same
<1>13. \A k \in DOMAIN X.recs : Member(L, k) \in DOMAIN E.recs /\ X.recs[k].src = E.recs[Member(L, k)].src
  BY <1>8, <1>9 DEF SameFile
<1>14. Offered(X)
  <2> SUFFICES ASSUME NEW s \in DOMAIN E.clients
               PROVE  /\ Distinct(X.clients[s])
                      /\ \A i \in Nat : In(X.clients[s], i) <=> i \in DOMAIN X.recs /\ Has(X.recs[i].src, s)
    BY <1>9 DEF Offered
  <2> DEFINE list == E.clients[s]
             new == Renumbered(E, list)
  <2> /\ Distinct(list)
      /\ \A i \in Nat : In(list, i) <=> i \in DOMAIN E.recs /\ Has(E.recs[i].src, s)
    BY <1>1 DEF Offered
  <2> list \in Seq(Nat) /\ \A k \in DOMAIN list : list[k] \in L
    BY <1>4, <1>5
  <2> HIDE DEF list
  <2> /\ Distinct(new)
      /\ \A j : In(new, j) <=> \E k \in DOMAIN list : NewID(E, list[k]) = j
    BY <1>1, <1>2, <1>RenumberedIs DEF L
  <2> HIDE DEF new
  <2> \A i \in DOMAIN E.recs : i \in Nat
    BY SMT, <1>3
  <2> ASSUME NEW j \in DOMAIN X.recs PROVE In(new, j) <=> Has(X.recs[j].src, s)
    <3> j \in 1..n /\ Member(L, j) \in L /\ NewID(E, Member(L, j)) = j /\ Member(L, j) \in Nat
      BY <1>8, <1>9, <1>13
    <3> Has(X.recs[j].src, s) <=> In(list, Member(L, j))
      BY <1>13
    <3> In(new, j) <=> In(list, Member(L, j))
      <4> ASSUME NEW k \in DOMAIN list, NewID(E, list[k]) = j PROVE list[k] = Member(L, j)
        BY <1>8
      <4> QED BY DEF In
    <3> QED OBVIOUS
  <2> ASSUME NEW j, In(new, j) PROVE j \in DOMAIN X.recs
    BY <1>8, <1>9
  <2> X.clients[s] = new
    BY <1>9 DEF new, list
  <2> QED OBVIOUS
<1>15. Cleaning(E, X)
  BY <1>9, <1>13 DEF Cleaning
<1> QED BY <1>9, <1>10, <1>11, <1>12, <1>14, <1>15 DEF Sound, X

\* CleanupStale keeps the engine sound.
LEMMA CleanedIs ==
    ASSUME NEW A, NEW E, Sound(A, E)
    PROVE  Sound(A, Cleaned(E)) /\ Cleaning(E, Cleaned(E))
<1> DEFINE R == Reaped(E)
           F == Freed(R)
           X == RebuildIndex(F)
<1>1. Sound(A, R) /\ Reaping(E, R)
  BY ReapedIs
<1>2. Cleaned(E) = IF NeedsRebuild(F) THEN X ELSE F
  BY DEF Cleaned, MaintainIndex, Freed
<1> HIDE DEF R
<1>3. Sound(A, F) /\ F.recs = R.recs /\ F.layout = R.layout /\ F.clients = R.clients
  BY <1>1, FreedIs
<1> HIDE DEF F
<1>4. Reaping(E, F)
  BY <1>1, <1>3 DEF Reaping
<1>5. Cleaning(E, F)
  BY <1>4 DEF Reaping, Cleaning
<1>6. Sound(A, X) /\ Cleaning(F, X)
  BY <1>3, RebuildIs
<1> HIDE DEF X
<1>7. Cleaning(E, X)
  <2> /\ F.layout = E.layout /\ F.clients = E.clients /\ DOMAIN F.recs = DOMAIN E.recs
      /\ \A k \in DOMAIN E.recs : F.recs[k].src = E.recs[k].src
    BY <1>4 DEF Reaping
  <2>1. CASE X.layout = F.layout /\ Reaping(F, X)
    <3> Reaping(E, X)
      BY <1>4, <2>1 DEF Reaping
    <3> QED BY <2>1 DEF Reaping, Cleaning
  <2> CASE /\ X.layout = F.layout + 1
           /\ \A k \in DOMAIN X.recs : \E i \in DOMAIN F.recs : X.recs[k].src = F.recs[i].src
    <3> \A k \in DOMAIN X.recs : \E i \in DOMAIN E.recs : X.recs[k].src = E.recs[i].src
      OBVIOUS
    <3> X.layout = E.layout + 1 /\ DOMAIN X.clients = DOMAIN E.clients
      BY <1>6 DEF Cleaning
    <3> QED BY DEF Cleaning
  <2> QED BY <1>6, <2>1 DEF Cleaning
<1> QED BY <1>2, <1>3, <1>5, <1>6, <1>7

----------------------------------------------------------------------------
(* The import *)

\* Another layout changes nothing else.
Layouted(E, n, X) ==
    /\ X.layout = n /\ X.recs = E.recs /\ X.files = E.files /\ X.clients = E.clients

\* The layout is no part of soundness.
LEMMA LayoutIs ==
    ASSUME NEW A, NEW E, Sound(A, E), NEW n \in Nat
    PROVE  Sound(A, [E EXCEPT !.layout = n]) /\ Layouted(E, n, [E EXCEPT !.layout = n])
<1> DEFINE X == [E EXCEPT !.layout = n]
<1> E \in Engine /\ Slots(E) /\ Chains(E) /\ Index(E) /\ Sourced(A, E) /\ Offered(E)
  BY DEF Sound
<1> /\ X \in Engine /\ X.recs = E.recs /\ X.files = E.files /\ X.count = E.count
    /\ X.dead = E.dead /\ X.free = E.free /\ X.post = E.post /\ X.entries = E.entries
    /\ X.live = E.live /\ X.clients = E.clients /\ X.layout = n
  BY DEF Engine
<1> HIDE DEF X
<1>1. Alike(E, X)
  BY DEF Alike, Same
<1>2. Chains(X)
  BY <1>1, AlikeChains
<1>3. Slots(X)
  BY DEF Slots, Live
<1>4. Index(X)
  BY DEF Index, Live, Entries, Named
<1>5. Sourced(A, X) /\ Offered(X)
  BY DEF Sourced, Offered
<1> QED BY <1>2, <1>3, <1>4, <1>5 DEF Sound, Layouted, X

\* The whole stream: the sources are those of before, or fewer.
LEMMA ImportedIs ==
    \A A, E : Sound(A, E) =>
      \A q \in Orders({h \in Hash : E.files[h] # 0}) :
        /\ Sound(A, Imported(E, q)) /\ Imported(E, q).layout = E.layout + 2
        /\ DOMAIN Imported(E, q).clients = DOMAIN E.clients
        /\ \A i \in DOMAIN Imported(E, q).recs : \A t : Has(Imported(E, q).recs[i].src, t) =>
              \E j \in DOMAIN E.recs : Has(E.recs[j].src, t)
\* A session is in a source list once or not at all.
<1>TimesIs.
    ASSUME NEW A, NEW list \in Seq(Source), SourceList(A, list), NEW s
    PROVE  Cardinality({k \in DOMAIN list : list[k].peer = s}) = IF Has(list, s) THEN 1 ELSE 0
  <2> USE <1>TimesIs
  <2> DEFINE K == {k \in DOMAIN list : list[k].peer = s}
  <2> CASE Has(list, s)
    <3> PICK k \in DOMAIN list : list[k].peer = s
      BY DEF Has
    <3> K = {k}
      BY DEF SourceList
    <3> QED BY FS_Singleton
  <2> CASE ~Has(list, s)
    <3> K = {}
      BY DEF Has
    <3> QED BY FS_EmptySet
  <2> QED OBVIOUS
\* One hash of the stream.
<1> DEFINE Importing(A, E, h, X, Y) ==
               /\ Sound(A, Y) /\ Y.layout = X.layout /\ DOMAIN Y.clients = DOMAIN X.clients
               /\ \A g \in Hash : g # h => Y.files[g] = X.files[g]
               /\ \A i \in DOMAIN Y.recs : \A t : Has(Y.recs[i].src, t) =>
                     \/ \E j \in DOMAIN X.recs : Has(X.recs[j].src, t)
                     \/ \E j \in DOMAIN E.recs : Has(E.recs[j].src, t)
\* The sources of the hash, put on the first of its records.
<1> DEFINE Given(E, head, list) ==
               [E EXCEPT !.recs[head].src = @ \o list,
                         !.clients = [s \in DOMAIN @ |->
                            @[s] \o [k \in 1..Cardinality({k \in DOMAIN list : list[k].peer = s}) |-> head]]]
<1> DEFINE Giving(A, E, list, X) ==
               /\ Sound(A, X) /\ X.layout = E.layout /\ DOMAIN X.clients = DOMAIN E.clients
               /\ X.files = E.files /\ DOMAIN X.recs = DOMAIN E.recs
               /\ \A i \in DOMAIN E.recs : \A t : Has(X.recs[i].src, t) => Has(E.recs[i].src, t) \/ Has(list, t)
<1> HIDE DEF Importing, Given, Giving
\* The sources of a hash are appended in one go to a record that had none.
<1>GivenIs.
    ASSUME NEW A, NEW E, Sound(A, E), NEW head \in DOMAIN E.recs, E.recs[head].live, ~E.recs[head].sib,
           E.recs[head].src = <<>>, NEW list \in Seq(Source), SourceList(A, list)
    PROVE  Giving(A, E, list, Given(E, head, list))
  <2> USE <1>GivenIs
  <2> DEFINE rec == [E.recs[head] EXCEPT !.src = list]
             R == [E.recs EXCEPT ![head] = rec]
             one(s) == [k \in 1..Cardinality({k \in DOMAIN list : list[k].peer = s}) |-> head]
             C == [s \in DOMAIN E.clients |-> E.clients[s] \o one(s)]
             X == [E EXCEPT !.recs = R, !.clients = C]
  <2>1. /\ E \in Engine /\ Slots(E) /\ Chains(E) /\ Index(E) /\ Sourced(A, E) /\ Offered(E)
    BY DEF Sound
  <2>2. E.recs \in Seq(Record) /\ E.clients \in Lists
    BY <2>1 DEF Engine
  <2>3. E.recs[head] \in Record /\ head \in Nat
    BY SMT, <2>2
  <2>4. Given(E, head, list) = X
    <3> <<>> \o list = list
      BY SMT
    <3> Given(E, head, list) = [E EXCEPT !.recs[head].src = E.recs[head].src \o list, !.clients = C]
      BY DEF Given
    <3> HIDE DEF C
    <3> Given(E, head, list) = [E EXCEPT !.recs[head].src = list, !.clients = C]
      OBVIOUS
    <3> QED BY SMT, <2>1 DEF Engine
  <2>5. ASSUME NEW s
        PROVE  /\ one(s) \in Seq(Nat) /\ Distinct(one(s))
               /\ \A i : In(one(s), i) <=> i = head /\ Has(list, s)
    <3> DEFINE n == Cardinality({k \in DOMAIN list : list[k].peer = s})
    <3> n = IF Has(list, s) THEN 1 ELSE 0
      BY <1>TimesIs
    <3> HIDE DEF n
    <3> one(s) = [k \in 1..n |-> head]
      BY DEF n
    <3> HIDE DEF one
    <3> CASE Has(list, s)
      <4> one(s) = [k \in 1..1 |-> head]
        OBVIOUS
      <4> one(s) \in Seq(Nat) /\ DOMAIN one(s) = {1} /\ one(s)[1] = head
        BY SMT, <2>3
      <4> QED BY DEF Distinct, In
    <3> CASE ~Has(list, s)
      <4> one(s) = [k \in 1..0 |-> head]
        OBVIOUS
      <4> one(s) \in Seq(Nat) /\ DOMAIN one(s) = {}
        BY SMT
      <4> QED BY DEF Distinct, In
    <3> QED OBVIOUS
  <2> HIDE DEF one
  <2>6. ASSUME NEW s \in DOMAIN E.clients
        PROVE  /\ C[s] \in Seq(Nat) /\ Distinct(C[s])
               /\ \A i : In(C[s], i) <=> In(E.clients[s], i) \/ (i = head /\ Has(list, s))
    <3>1. E.clients[s] \in Seq(Nat)
      BY <2>2, ListsAre
    <3>2. C[s] = E.clients[s] \o one(s)
      OBVIOUS
    <3>3. E.clients[s] \o one(s) \in Seq(Nat) /\ Joins(E.clients[s], one(s), E.clients[s] \o one(s))
      BY <2>5, <3>1, JoinLists
    <3>4. C[s] \in Seq(Nat) /\ Joins(E.clients[s], one(s), C[s])
      BY <3>2, <3>3
    <3>5. Distinct(E.clients[s]) /\ ~In(E.clients[s], head)
      <4> ~Has(<<>>, s)
        BY SMT DEF Has
      <4> QED BY <2>1, <2>3 DEF Offered
    <3> \A i : In(E.clients[s], i) => ~In(one(s), i)
      BY <2>5, <3>5
    <3> Distinct(C[s])
      BY <2>5, <3>4, <3>5 DEF Joins
    <3> \A i : In(C[s], i) <=> In(E.clients[s], i) \/ In(one(s), i)
      BY <3>4 DEF Joins
    <3> QED BY <2>5, <3>4
  <2>7. C \in Lists /\ DOMAIN C = DOMAIN E.clients
    <3> DOMAIN C = DOMAIN E.clients /\ C \in [DOMAIN E.clients -> Seq(Nat)]
      BY <2>6
    <3> DOMAIN E.clients \in SUBSET Session
      BY <2>2, ListsAre
    <3> HIDE DEF C
    <3> QED BY ListsAre
  <2> HIDE DEF C
  <2>8. /\ rec \in Record /\ Same(rec, E.recs[head]) /\ rec.name = E.recs[head].name
        /\ rec.next = E.recs[head].next /\ rec.src = list
    BY SMT, <2>3 DEF Record, Same
  <2> HIDE DEF rec
  <2>9. /\ R \in Seq(Record) /\ DOMAIN R = DOMAIN E.recs /\ R[head] = rec
        /\ \A k \in DOMAIN E.recs : k # head => R[k] = E.recs[k]
    BY SMT, <2>2, <2>8
  <2> HIDE DEF R
  <2>10. Relisted(E, R, C, X)
    BY <2>1, <2>7, <2>9, RelistedIs
  <2> HIDE DEF X
  <2>11. Resourced(E, R)
    <3> \A k \in DOMAIN E.recs : Same(E.recs[k], E.recs[k])
      BY DEF Same
    <3> QED BY <2>8, <2>9 DEF Resourced
  <2>12. Built(X)
    <3> Built(E)
      BY <2>1 DEF Built
    <3> QED BY <2>10, <2>11, RelistedBuilt
  <2>13. /\ X.recs = R /\ X.clients = C /\ X.layout = E.layout /\ X.files = E.files
    BY <2>10 DEF Relisted
  <2>14. Sourced(A, X)
    <3> SUFFICES ASSUME NEW i \in DOMAIN R
                 PROVE  SourceList(A, R[i].src) /\ (R[i].src # <<>> => R[i].live /\ ~R[i].sib)
      BY <2>13 DEF Sourced
    <3> CASE i = head
      BY <2>8, <2>9 DEF Same
    <3> CASE i # head
      BY <2>1, <2>9 DEF Sourced
    <3> QED OBVIOUS
  <2>15. Offered(X)
    <3> SUFFICES ASSUME NEW t \in DOMAIN C
                 PROVE  /\ Distinct(C[t])
                        /\ \A i \in Nat : In(C[t], i) <=> i \in DOMAIN R /\ Has(R[i].src, t)
      BY <2>13 DEF Offered
    <3> t \in DOMAIN E.clients
      BY <2>7
    <3> \A i \in Nat : In(E.clients[t], i) <=> i \in DOMAIN E.recs /\ Has(E.recs[i].src, t)
      BY <2>1 DEF Offered
    <3> ASSUME NEW i \in Nat
        PROVE  In(C[t], i) <=> i \in DOMAIN R /\ Has(R[i].src, t)
      <4> CASE i = head
        <5> ~Has(<<>>, t)
          BY SMT DEF Has
        <5> QED BY <2>6, <2>8, <2>9
      <4> CASE i # head
        BY <2>6, <2>9
      <4> QED OBVIOUS
    <3> QED BY <2>6
  <2>16. \A i \in DOMAIN E.recs : \A t : Has(R[i].src, t) => Has(E.recs[i].src, t) \/ Has(list, t)
    BY <2>8, <2>9
  <2> QED BY <2>4, <2>7, <2>9, <2>12, <2>13, <2>14, <2>15, <2>16 DEF Sound, Built, Giving
\* importHandoff, one hash.
<1>ImportHashIs.
    ASSUME NEW A, NEW E, Sound(A, E), NEW X, Sound(A, X), NEW h \in Hash, E.files[h] # 0, X.files[h] = 0
    PROVE  Importing(A, E, h, X, ImportHash(X, E, h))
  <2> USE <1>ImportHashIs
  <2> DEFINE c == Chain(E, h)
             file(i) == [hash |-> h, size |-> E.recs[i].size, name |-> E.recs[i].name]
             files == [k \in DOMAIN c |-> file(c[k])]
             S == StoreFiles(X, files)
             list == E.recs[c[1]].src
             head == S.files[h]
             Y == Given(S, head, list)
  <2>1. /\ E \in Engine /\ Chains(E) /\ Sourced(A, E) /\ X \in Engine /\ Chains(X) /\ Sourced(A, X)
        /\ E.recs \in Seq(Record)
    BY DEF Sound, Engine
  <2>2. Chained(E, h, c)
    BY <2>1 DEF Chains
  <2>3. ImportHash(X, E, h) = Y
    BY DEF ImportHash, Given
  <2> HIDE DEF c
  <2>4. c \in Seq(DOMAIN E.recs) /\ c # <<>>
    BY <2>2 DEF Chained
  <2>5. /\ DOMAIN c = 1..Len(c) /\ Len(c) \in Nat \ {0} /\ 1 \in DOMAIN c /\ Len(c) \in DOMAIN c
        /\ \A k \in DOMAIN c : c[k] \in DOMAIN E.recs /\ E.recs[c[k]] \in Record
    BY SMT, <2>1, <2>4
  <2>6. \A k \in DOMAIN c : file(c[k]) \in Files /\ file(c[k]).hash = h
    <3> SUFFICES ASSUME NEW k \in DOMAIN c PROVE file(c[k]) \in Files /\ file(c[k]).hash = h
      BY SMT
    <3> E.recs[c[k]].size \in Nat /\ E.recs[c[k]].name \in Name
      BY <2>5 DEF Record
    <3> QED BY SMT DEF Files
  <2> HIDE DEF file
  <2>7. /\ files \in Seq(Files) /\ Len(files) = Len(c) /\ DOMAIN files = DOMAIN c /\ files # <<>>
        /\ \A k \in DOMAIN files : files[k].hash = h
    BY SMT, <2>5, <2>6
  <2> HIDE DEF files
  <2>8. /\ Sound(A, S) /\ Spread(X, {h}, S)
        /\ files # <<>> => S.files[files[Len(files)].hash] \in DOMAIN S.recs
    <3> \A k \in DOMAIN files : files[k].hash \in {h}
      BY <2>7
    <3> QED BY <2>7, StoreFilesIs
  <2>9. head \in DOMAIN S.recs
    <3> files[Len(files)].hash = h
      BY <2>5, <2>7
    <3> QED BY <2>7, <2>8
  <2> HIDE DEF S
  <2>10. S \in Engine /\ Chains(S) /\ S.recs \in Seq(Record) /\ X.recs \in Seq(Record)
    BY <2>1, <2>8 DEF Sound, Engine
  <2>11. head # 0
    BY SMT, <2>9, <2>10
  <2>12. S.recs[head].live /\ S.recs[head].hash = h /\ ~S.recs[head].sib
    <3> IsHead(S, h)
      BY <2>10, HeadIs
    <3> QED BY <2>11 DEF IsHead
  <2>13. S.recs[head].src = <<>>
    <3>1. CASE head \notin DOMAIN X.recs
      BY <2>8, <2>9, <3>1 DEF Spread
    <3>2. CASE head \in DOMAIN X.recs
      <4>1. S.recs[head].src = X.recs[head].src /\ (X.recs[head].live => Same(S.recs[head], X.recs[head]))
        BY <2>8, <3>2 DEF Spread
      <4>2. ~X.recs[head].live
        <5> SUFFICES ASSUME X.recs[head].live PROVE FALSE
          BY SMT
        <5> X.recs[head].hash = h
          BY <2>12, <4>1 DEF Same
        <5> X.files[h] # 0
          <6> IsHead(X, h)
            BY <2>1, HeadIs
          <6> QED BY <3>2 DEF IsHead
        <5> QED OBVIOUS
      <4> QED BY <2>1, <3>2, <4>1, <4>2 DEF Sourced
    <3> QED BY <3>1, <3>2
  <2>14. c[1] \in DOMAIN E.recs /\ list \in Seq(Source) /\ SourceList(A, list)
    BY <2>1, <2>5 DEF Record, Sourced
  <2> HIDE DEF list, head
  <2>15. /\ Sound(A, Y) /\ Y.layout = S.layout
         /\ DOMAIN Y.clients = DOMAIN S.clients /\ Y.files = S.files
         /\ DOMAIN Y.recs = DOMAIN S.recs
         /\ \A i \in DOMAIN S.recs : \A t : Has(Y.recs[i].src, t) => Has(S.recs[i].src, t) \/ Has(list, t)
    <3> Giving(A, S, list, Y)
      BY <2>8, <2>9, <2>12, <2>13, <2>14, <1>GivenIs
    <3> QED BY DEF Giving
  <2> HIDE DEF Y
  <2>16. Y.layout = X.layout /\ DOMAIN Y.clients = DOMAIN X.clients
    BY <2>8, <2>15 DEF Spread
  <2>17. \A g \in Hash : g # h => Y.files[g] = X.files[g]
    BY <2>8, <2>15 DEF Spread
  <2>18. ASSUME NEW i \in DOMAIN Y.recs, NEW t, Has(Y.recs[i].src, t)
         PROVE  \/ \E j \in DOMAIN X.recs : Has(X.recs[j].src, t)
                \/ \E j \in DOMAIN E.recs : Has(E.recs[j].src, t)
    <3>1. CASE Has(list, t)
      BY <2>14, <3>1 DEF list
    <3> CASE Has(S.recs[i].src, t)
      <4>1. i \in DOMAIN X.recs
        <5> SUFFICES ASSUME i \notin DOMAIN X.recs PROVE FALSE
          BY SMT
        <5> S.recs[i].src = <<>>
          BY <2>8, <2>15 DEF Spread
        <5> QED BY SMT DEF Has
      <4> S.recs[i].src = X.recs[i].src
        BY <2>8, <4>1 DEF Spread
      <4> QED BY <4>1
    <3> QED BY <2>15, <2>18, <3>1
  <2>19. Importing(A, E, h, X, Y)
    BY <2>15, <2>16, <2>17, <2>18 DEF Importing
  <2> QED BY <2>3, <2>19
\* The hashes with a file are finitely many.
<1>HashesFinite.
    ASSUME NEW A, NEW E, Sound(A, E)
    PROVE  /\ IsFiniteSet({h \in Hash : E.files[h] # 0})
           /\ Cardinality({h \in Hash : E.files[h] # 0}) \in Nat
  <2> USE <1>HashesFinite
  <2> DEFINE H == {h \in Hash : E.files[h] # 0}
             f == [h \in H |-> E.files[h]]
  <2>1. E \in Engine /\ Chains(E) /\ E.recs \in Seq(Record)
    BY DEF Sound, Engine
  <2>2. \A h \in H : E.files[h] \in DOMAIN E.recs /\ E.recs[E.files[h]].hash = h
    <3> \A h \in Hash : IsHead(E, h)
      BY <2>1, HeadIs
    <3> QED BY DEF IsHead
  <2>3. DOMAIN E.recs = 1..Len(E.recs) /\ Len(E.recs) \in Nat
    BY SMT, <2>1
  <2>4. IsFiniteSet(DOMAIN E.recs)
    BY <2>3, Interval
  <2> HIDE DEF H
  <2>5. f \in Injection(H, DOMAIN E.recs)
    <3> f \in [H -> DOMAIN E.recs]
      BY <2>2
    <3> \A g, h \in H : f[g] = f[h] => g = h
      BY <2>2
    <3> DOMAIN f = H
      OBVIOUS
    <3> HIDE DEF f
    <3> QED BY DEF Injection, IsInjective
  <2>6. IsFiniteSet(H)
    BY <2>4, <2>5, FS_Injection
  <2>7. Cardinality(H) \in Nat
    BY <2>6, FS_CardinalityType
  <2> QED BY <2>6, <2>7 DEF H
<1> SUFFICES ASSUME NEW A, NEW E, Sound(A, E), NEW q \in Orders({h \in Hash : E.files[h] # 0})
             PROVE  /\ Sound(A, Imported(E, q)) /\ Imported(E, q).layout = E.layout + 2
                    /\ DOMAIN Imported(E, q).clients = DOMAIN E.clients
                    /\ \A i \in DOMAIN Imported(E, q).recs : \A t : Has(Imported(E, q).recs[i].src, t) =>
                          \E j \in DOMAIN E.recs : Has(E.recs[j].src, t)
  OBVIOUS
<1> DEFINE H == {h \in Hash : E.files[h] # 0}
           m == Cardinality(H)
           N == E.layout + 2
           E0 == [InstallFiles(E, <<>>) EXCEPT !.layout = N]
           Good(n, X) == /\ Sound(A, X) /\ X.layout = N /\ DOMAIN X.clients = DOMAIN E.clients
                         /\ \A h \in Hash : X.files[h] # 0 => \E k \in 1..n : q[k] = h
                         /\ \A i \in DOMAIN X.recs : \A t : Has(X.recs[i].src, t) =>
                               \E j \in DOMAIN E.recs : Has(E.recs[j].src, t)
           S == [n \in 0..m |-> {X \in Engine : Good(n, X)}]
           step == [n \in 1..m |-> [X \in Engine |-> ImportHash(X, E, q[n])]]
           Rec(g) == g = [n \in 0..m |-> IF n = 0 THEN E0 ELSE ImportHash(g[n - 1], E, q[n])]
           done == CHOOSE g : Rec(g)
<1>1. m \in Nat
  BY <1>HashesFinite
<1>2. q \in [1..m -> H] /\ (\A j, k \in 1..m : q[j] = q[k] => j = k) /\ DOMAIN q = 1..m
  <2> q \in Injection(1..m, H)
    BY DEF Orders
  <2> HIDE DEF H, m
  <2> QED BY DEF Injection, IsInjective
<1>3. Len(q) = m
  <2> HIDE DEF H, m
  <2> QED BY SMT, <1>1, <1>2
<1>4. E.layout \in Nat /\ N \in Nat /\ E.layout + 1 \in Nat /\ E \in Engine /\ DOMAIN E.clients \in SUBSET Session
  <2> E \in Engine /\ E.layout \in Nat /\ E.clients \in Lists
    BY DEF Sound, Engine
  <2> DOMAIN E.clients \in SUBSET Session
    BY ListsAre
  <2> QED BY SMT
<1>5. E0 \in Engine /\ Good(0, E0)
  <2> DEFINE X == InstallFiles(E, <<>>)
             M == Empty(E.layout + 1, DOMAIN E.clients)
  <2>1. X = StoreFiles(M, <<>>)
    BY DEF InstallFiles, Empty
  <2>2. /\ Sound(A, M) /\ M.clients = [s \in DOMAIN E.clients |-> <<>>] /\ M.recs = <<>>
        /\ M.files = [h \in Hash |-> 0]
    BY ZenonT(30), <1>4, EmptySound
  <2> HIDE DEF M
  <2> DEFINE none == <<>>
  <2>3. none \in Seq(Files) /\ \A n \in DOMAIN none : none[n].hash \in {}
    BY SMT
  <2>4. Sound(A, X) /\ Spread(M, {}, X)
    <3> X = StoreFiles(M, none)
      BY <2>1
    <3> HIDE DEF none, X
    <3> QED BY <2>2, <2>3, StoreFilesIs
  <2>5. Sound(A, E0) /\ Layouted(X, N, E0)
    <3> HIDE DEF X
    <3> QED BY <1>4, <2>4, LayoutIs DEF X
  <2> HIDE DEF X, E0
  <2>6. E0.layout = N /\ E0.recs = X.recs /\ E0.files = X.files /\ E0.clients = X.clients
    BY <2>5 DEF Layouted
  <2>7. DOMAIN M.recs = {} /\ \A t : ~Has(<<>>, t)
    BY SMT, <2>2 DEF Has
  <2>8. DOMAIN E0.clients = DOMAIN E.clients
    <3> E0.clients = M.clients
      BY <2>4, <2>6 DEF Spread
    <3> QED BY SMT, <2>2
  <2>9. \A h \in Hash : E0.files[h] = 0
    BY ZenonT(30), <2>2, <2>4, <2>6 DEF Spread
  <2> \A i \in DOMAIN E0.recs : E0.recs[i].src = <<>>
    BY <2>4, <2>6, <2>7 DEF Spread
  <2> Good(0, E0)
    BY <2>5, <2>6, <2>7, <2>8, <2>9
  <2> HIDE DEF Good
  <2> QED BY <2>5 DEF Sound
<1>6. ASSUME NEW n \in 1..m, NEW X \in Engine, Good(n - 1, X)
      PROVE  ImportHash(X, E, q[n]) \in Engine /\ Good(n, ImportHash(X, E, q[n]))
  <2> DEFINE h == q[n]
             Y == ImportHash(X, E, h)
  <2>1. h \in Hash /\ E.files[h] # 0
    BY <1>2
  <2>2. \A k \in 1..(n - 1) : k \in 1..m /\ k # n /\ k \in 1..n
    BY SMT, <1>1
  <2>3. X.files[h] = 0
    BY <1>2, <1>6, <2>1, <2>2
  <2>4. Importing(A, E, h, X, Y)
    BY <1>6, <2>1, <2>3, <1>ImportHashIs
  <2> HIDE DEF Y
  <2>5. Sound(A, Y) /\ Y.layout = N /\ DOMAIN Y.clients = DOMAIN E.clients
    BY <1>6, <2>4 DEF Importing
  <2>6. \A g \in Hash : Y.files[g] # 0 => \E k \in 1..n : q[k] = g
    <3> SUFFICES ASSUME NEW g \in Hash, Y.files[g] # 0 PROVE \E k \in 1..n : q[k] = g
      BY SMT
    <3>1. CASE g = h
      <4> n \in 1..n
        BY SMT, <1>1
      <4> QED BY <3>1
    <3> CASE g # h
      <4> X.files[g] # 0
        BY <2>4 DEF Importing
      <4> QED BY <1>6, <2>2
    <3> QED BY <3>1
  <2> \A i \in DOMAIN Y.recs : \A t : Has(Y.recs[i].src, t) =>
                             \E j \in DOMAIN E.recs : Has(E.recs[j].src, t)
    BY <1>6, <2>4 DEF Importing
  <2> Good(n, Y)
    BY <2>5, <2>6
  <2> HIDE DEF Good
  <2> QED BY <2>5 DEF Sound, Y
<1>7. Imported(E, q) = done[m]
  BY <1>3 DEF Imported
<1> HIDE DEF Good, m, E0
<1>8. E0 \in S[0]
  <2> 0 \in 0..m
    BY SMT, <1>1
  <2> QED BY <1>5
<1>9. Steps(m, S, step)
  <2> SUFFICES ASSUME NEW n \in 1..m, NEW x \in S[n - 1]
               PROVE  step[n][x] \in S[n]
    BY DEF Steps
  <2> n - 1 \in 0..m /\ n \in 0..m
    BY SMT, <1>1
  <2> x \in Engine /\ Good(n - 1, x)
    OBVIOUS
  <2> step[n][x] = ImportHash(x, E, q[n])
    OBVIOUS
  <2> ImportHash(x, E, q[n]) \in Engine /\ Good(n, ImportHash(x, E, q[n]))
    BY <1>6
  <2> QED OBVIOUS
<1>10. PICK g : Runs(m, S, E0, step, g)
  <2> HIDE DEF S, step
  <2> QED BY <1>1, <1>8, <1>9, Recursion
<1>11. Rec(g)
  <2> \A n \in 0..m : (IF n = 0 THEN E0 ELSE step[n][g[n - 1]]) = (IF n = 0 THEN E0 ELSE ImportHash(g[n - 1], E, q[n]))
    <3> SUFFICES ASSUME NEW n \in 0..m, n # 0
                 PROVE  step[n][g[n - 1]] = ImportHash(g[n - 1], E, q[n])
      OBVIOUS
    <3> n \in 1..m /\ n - 1 \in 0..m
      BY SMT, <1>1
    <3> g[n - 1] \in Engine
      BY <1>10 DEF Runs
    <3> QED OBVIOUS
  <2> HIDE DEF step, S
  <2> QED BY <1>10 DEF Runs
<1>12. Rec(done)
  BY <1>11
<1> DEFINE P == {n \in 0..m : done[n] \in S[n]}
<1> HIDE DEF done, S, step
<1>13. 0 \in P
  <2> 0 \in 0..m
    BY SMT, <1>1
  <2> QED BY <1>8, <1>12
<1>14. \A n \in 1..m : n - 1 \in P => n \in P
  <2> SUFFICES ASSUME NEW n \in 1..m, n - 1 \in P PROVE n \in P
    BY SMT
  <2> n \in 0..m /\ n # 0 /\ n - 1 \in 0..m
    BY SMT, <1>1
  <2> done[n] = ImportHash(done[n - 1], E, q[n])
    BY <1>12
  <2> done[n - 1] \in Engine /\ Good(n - 1, done[n - 1])
    BY DEF S
  <2> done[n] \in Engine /\ Good(n, done[n])
    BY <1>6
  <2> QED BY DEF S
<1>15. m \in P
  <2> HIDE DEF P
  <2> m \in 0..m
    BY SMT, <1>1
  <2> QED BY <1>1, <1>13, <1>14, Induct
<1>16. Good(m, done[m])
  <2> m \in 0..m
    BY SMT, <1>1
  <2> QED BY <1>15 DEF S
<1> QED BY <1>7, <1>16 DEF Good

----------------------------------------------------------------------------
(* The steps *)

\* The records of E are in X, with their files.
Carries(E, X) == \A i \in Live(E) : i \in Live(X) /\ File(X.recs[i]) = File(E.recs[i])

\* Other sources leave the files where they are.
LEMMA AlikeCarries ==
    ASSUME NEW E, NEW X, Alike(E, X)
    PROVE  Carries(E, X)
<1> SUFFICES ASSUME NEW i \in Live(E) PROVE i \in Live(X) /\ File(X.recs[i]) = File(E.recs[i])
  BY DEF Carries
<1>1. i \in DOMAIN E.recs /\ E.recs[i].live
  BY DEF Live
<1>2. i \in DOMAIN X.recs /\ Same(X.recs[i], E.recs[i])
  BY <1>1 DEF Alike
<1> QED BY <1>1, <1>2 DEF Same, Live, File

\* So does storing one more.
LEMMA GrownCarries ==
    ASSUME NEW E, NEW f, NEW X, Grown(E, f, X)
    PROVE  Carries(E, X)
<1> SUFFICES ASSUME NEW i \in Live(E) PROVE i \in Live(X) /\ File(X.recs[i]) = File(E.recs[i])
  BY DEF Carries
<1>1. i \in DOMAIN E.recs /\ E.recs[i].live
  BY DEF Live
<1>2. i \in DOMAIN X.recs /\ Same(X.recs[i], E.recs[i])
  BY <1>1 DEF Grown
<1> QED BY <1>1, <1>2 DEF Same, Live, File

\* Records that are all there are there for those still served.
LEMMA CarriesStays ==
    /\ \A E, X : Carries(E, X) => Stays(E, X)
    /\ \A E, X, Y : Carries(E, X) /\ Carries(X, Y) => Carries(E, Y)
  BY DEF Carries, Stays

\* Reaping leaves the record of a file that is still served where it is.
LEMMA ReapingStays ==
    ASSUME NEW E \in Engine, Chains(E), NEW X, Reaping(E, X)
    PROVE  Stays(E, X)
<1> SUFFICES ASSUME NEW i \in Live(E), File(E.recs[i]) \in Served(X)
             PROVE  i \in Live(X) /\ File(X.recs[i]) = File(E.recs[i])
  BY DEF Stays
<1>1. i \in DOMAIN E.recs /\ E.recs[i].live
  BY DEF Live
<1> PICK k \in DOMAIN X.recs : X.recs[k].live /\ File(E.recs[i]) = File(X.recs[k])
  BY DEF Served
<1>2. /\ k \in DOMAIN E.recs /\ E.recs[k].live
      /\ X.recs[k].hash = E.recs[k].hash /\ X.recs[k].size = E.recs[k].size
  BY DEF Reaping
<1>3. E.recs[i].hash = X.recs[k].hash /\ E.recs[i].size = X.recs[k].size
  BY SMT DEF File
<1>4. E.recs[i].hash \in Hash
  <2> E.recs \in Seq(Record)
    BY DEF Engine
  <2> E.recs[i] \in Record
    BY SMT, <1>1
  <2> QED BY DEF Record
<1>5. i = k
  BY <1>1, <1>2, <1>3, <1>4, OneRecord
<1> QED BY <1>5 DEF Live

\* The sessions of a list of addresses are sessions of a longer one.
LEMMA MoreAddresses ==
    ASSUME NEW A, NEW B, DOMAIN A \subseteq DOMAIN B, \A s \in DOMAIN A : B[s] = A[s], NEW E, Sound(A, E)
    PROVE  Sound(B, E)
<1>1. \A i \in DOMAIN E.recs : SourceList(B, E.recs[i].src)
  <2> SUFFICES ASSUME NEW i \in DOMAIN E.recs PROVE SourceList(B, E.recs[i].src)
    OBVIOUS
  <2> SourceList(A, E.recs[i].src)
    BY DEF Sound, Sourced
  <2> QED BY DEF SourceList
<1> QED BY <1>1 DEF Sound, Sourced

\* A source names a session that has logged in.
LEMMA SourceSession ==
    ASSUME NEW A, NEW E, Sound(A, E), NEW i \in DOMAIN E.recs, NEW s, Has(E.recs[i].src, s)
    PROVE  s \in DOMAIN A
<1>1. SourceList(A, E.recs[i].src)
  BY DEF Sound, Sourced
<1> QED BY <1>1 DEF SourceList, Has

\* A session connects, offering nothing.
LEMMA Connects ==
    ASSUME IInv, NEW a \in Addr, Connect(a)
    PROVE  IInv'
<1> DEFINE n == Len(addr) + 1
           C == With(eng.clients, n, <<>>)
<1>1. /\ eng \in Engine /\ addr \in Seq(Addr) /\ Len(addr) < MaxSession /\ Len(addr) \in Nat
      /\ MaxSession \in Nat /\ addr' = Append(addr, a)
  BY SMT, MemoryAssumption DEF IInv, Owned, Sound, Connect
<1>2. /\ addr' \in Seq(Addr) /\ DOMAIN addr = 1..Len(addr) /\ Len(addr') = n /\ DOMAIN addr' = 1..n
      /\ n <= MaxSession /\ n \in 1..n /\ n \notin DOMAIN addr
      /\ n \in Session /\ (\A s \in DOMAIN addr : s \in 1..n /\ s # n /\ addr'[s] = addr[s])
  BY SMT, <1>1 DEF Session
<1>3. eng' = [eng EXCEPT !.clients = C] /\ leaving' = leaving /\ walk' = walk
  BY DEF Connect
<1> HIDE DEF n
<1>4. \A i \in DOMAIN eng.recs : ~Has(eng.recs[i].src, n)
  BY <1>2, SourceSession DEF IInv
<1>5. /\ DOMAIN C = DOMAIN eng.clients \cup {n} /\ C[n] = <<>>
      /\ \A t \in DOMAIN eng.clients : C[t] = eng.clients[t]
  <2> DOMAIN eng.clients \subseteq DOMAIN addr
    BY DEF IInv, Owned
  <2> \A t \in DOMAIN eng.clients : t # n
    BY <1>2
  <2> QED BY DEF With
<1>6. C \in Lists
  <2> eng.clients \in Lists
    BY <1>1 DEF Engine
  <2> DOMAIN eng.clients \subseteq Session /\ \A t \in DOMAIN eng.clients : eng.clients[t] \in Seq(Nat)
    BY ListsAre
  <2> <<>> \in Seq(Nat)
    BY SMT
  <2> DOMAIN C \in SUBSET Session /\ \A t \in DOMAIN C : C[t] \in Seq(Nat)
    BY <1>2, <1>5
  <2> C = [t \in DOMAIN C |-> C[t]]
    BY DEF With
  <2> HIDE DEF C
  <2> C \in [DOMAIN C -> Seq(Nat)]
    OBVIOUS
  <2> QED BY ListsAre
<1> HIDE DEF C
<1>7. Sound(addr, eng') /\ Relisted(eng, eng.recs, C, eng')
  <2> \A t \in DOMAIN C : \/ t \in DOMAIN eng.clients /\ C[t] = eng.clients[t]
                          \/ C[t] = <<>> /\ \A i \in DOMAIN eng.recs : ~Has(eng.recs[i].src, t)
    BY <1>4, <1>5
  <2> QED BY <1>3, <1>6, OtherClients DEF IInv
<1> /\ eng'.recs = eng.recs /\ eng'.clients = C /\ eng'.layout = eng.layout
    /\ eng'.files = eng.files
  BY <1>7 DEF Relisted
<1>8. Sound(addr', eng')
  <2> DOMAIN addr \subseteq DOMAIN addr' /\ \A s \in DOMAIN addr : addr'[s] = addr[s]
    BY <1>2
  <2> QED BY <1>7, MoreAddresses
<1>9. Owned'
  <2> DOMAIN eng'.clients \subseteq DOMAIN addr' /\ DOMAIN leaving' \subseteq DOMAIN addr'
    BY <1>2, <1>3, <1>5 DEF IInv, Owned
  <2> \A s \in DOMAIN leaving : s \notin DOMAIN C
    BY <1>2, <1>5 DEF IInv, Owned
  <2> QED BY <1>2, <1>3, <1>5 DEF IInv, Owned
<1>10. Served(eng') = Served(eng)
  <2> \A i : Sources(eng', i) = Sources(eng, i)
    BY DEF Sources, HeadOf
  <2> \A x : x \in Served(eng') <=> x \in Served(eng)
    BY DEF Served
  <2> QED OBVIOUS
<1>11. Walked'
  BY <1>3, <1>10 DEF IInv, Walked
<1> QED BY <1>8, <1>9, <1>11 DEF IInv

\* A step that leaves the sessions alone, keeps the layout and the records, and
\* gives no session a source it had not, unless it is connected.
LEMMA OwnedStays ==
    ASSUME IInv, addr' = addr, leaving' = leaving, eng'.layout = eng.layout,
           DOMAIN eng'.clients = DOMAIN eng.clients, NEW s, s \in DOMAIN eng.clients,
           \A i \in DOMAIN eng'.recs : \A t : Has(eng'.recs[i].src, t) =>
               t = s \/ (i \in DOMAIN eng.recs /\ Has(eng.recs[i].src, t))
    PROVE  Owned'
  BY DEF IInv, Owned

\* A session offers a file.
LEMMA AddsFile ==
    ASSUME IInv, NEW s \in Session, NEW f \in Offer, AddFile(s, f)
    PROVE  IInv'
<1> DEFINE X == StoreFile(eng, f)
           src == [peer |-> s, addr |-> addr[s], size |-> f.size]
<1> /\ eng \in Engine /\ addr' = addr /\ leaving' = leaving /\ Watch(eng') /\ s \in DOMAIN addr
    /\ Sound(addr, eng) /\ Walked /\ Owned /\ Built(eng) /\ Sourced(addr, eng) /\ Offered(eng)
  BY DEF AddFile, IInv, Sound, Built
<1>1. eng.layout \in Nat /\ eng.layout <= eng.layout
  <2> eng.layout \in Nat
    BY DEF Engine
  <2> QED BY SMT
<1>2. f \in Files /\ f.hash \in Hash /\ f.size \in Nat
  BY MemoryAssumption DEF Files, Name
<1>3. CASE s \notin DOMAIN eng.clients
  <2> eng' = eng
    BY <1>3 DEF AddFile
  <2> Stays(eng, eng')
    BY DEF Stays
  <2> Walked'
    BY <1>1, WatchIs
  <2> QED BY DEF IInv, Owned
<1>4. CASE s \in DOMAIN eng.clients
  <2> DEFINE head == X.files[f.hash]
  <2>1. eng' = PutSource(X, head, src)
    BY <1>4 DEF AddFile
  <2>2. Built(X) /\ Grown(eng, f, X)
    BY <1>2, StoreFileIs
  <2> HIDE DEF X
  <2>3. Sourced(addr, X) /\ Offered(X)
    BY <2>2, GrownSourced
  <2>4. Sound(addr, X) /\ X \in Engine /\ Chains(X)
    BY <2>2, <2>3 DEF Sound, Built
  <2>5. head \in DOMAIN X.recs /\ X.recs[head].live /\ ~X.recs[head].sib
    <3> head \in DOMAIN X.recs /\ X.recs \in Seq(Record)
      BY <2>2, <2>4 DEF Grown, Engine
    <3> head # 0
      BY SMT
    <3> IsHead(X, f.hash)
      BY <1>2, <2>4, HeadIs
    <3> QED BY DEF IsHead
  <2>6. src \in Source /\ src.peer = s /\ src.addr = addr[s]
    <3> addr[s] \in Addr
      BY SMT DEF Owned
    <3> QED BY <1>2 DEF Source
  <2> X.layout = eng.layout /\ X.clients = eng.clients
    BY <2>2 DEF Grown
  <2> HIDE DEF head, src
  <2> Sourcing(addr, X, s, eng')
    BY <1>4, <2>1, <2>4, <2>5, <2>6, PutSourceIs
  <2> /\ Sound(addr, eng') /\ Alike(X, eng') /\ eng'.layout = eng.layout
      /\ DOMAIN eng'.clients = DOMAIN eng.clients /\ DOMAIN eng'.recs = DOMAIN X.recs
    BY DEF Sourcing, Alike
  <2> Stays(eng, eng')
    <3> Carries(eng, X) /\ Carries(X, eng')
      BY <2>2, GrownCarries, AlikeCarries
    <3> QED BY CarriesStays
  <2> Walked'
    BY <1>1, WatchIs
  <2> \A i \in DOMAIN eng'.recs : \A t : Has(eng'.recs[i].src, t) =>
            t = s \/ (i \in DOMAIN eng.recs /\ Has(eng.recs[i].src, t))
    <3> SUFFICES ASSUME NEW i \in DOMAIN eng'.recs, NEW t, Has(eng'.recs[i].src, t), t # s
                 PROVE  i \in DOMAIN eng.recs /\ Has(eng.recs[i].src, t)
      OBVIOUS
    <3> i \in DOMAIN X.recs /\ Has(X.recs[i].src, t)
      BY DEF Sourcing
    <3> X.recs[i].src # <<>>
      <4> DOMAIN <<>> = {}
        BY SMTT(20)
      <4> QED BY DEF Has
    <3> i \in DOMAIN eng.recs
      BY <2>2 DEF Grown
    <3> X.recs[i].src = eng.recs[i].src
      BY <2>2 DEF Grown
    <3> QED OBVIOUS
  <2> Owned'
    BY <1>4, OwnedStays
  <2> QED BY DEF IInv
<1> QED BY <1>3, <1>4

\* A session that leaves reaches the first records of its list, or has the rest
\* before it.
Parts(list, n) ==
    /\ SubSeq(list, n + 1, Len(list)) \in Seq(Nat)
    /\ \A i : In(list, i) => \/ i \in Range(SubSeq(list, 1, n))
                             \/ n # Len(list) /\ In(SubSeq(list, n + 1, Len(list)), i)

\* Disconnect's chunks cover its list.
LEMMA PartsAre ==
    ASSUME NEW list \in Seq(Nat)
    PROVE  Parts(list, Min({Chunk, Len(list)}))
<1> DEFINE n == Min({Chunk, Len(list)})
           first == SubSeq(list, 1, n)
           rest == SubSeq(list, n + 1, Len(list))
<1>1. Chunk \in Nat /\ Len(list) \in Nat
  BY SMT, MemoryAssumption
<1>2. n \in {Chunk, Len(list)} /\ \A x \in {Chunk, Len(list)} : n <= x
  <2> {Chunk, Len(list)} \subseteq Nat /\ {Chunk, Len(list)} # {}
    BY SMT, <1>1
  <2> QED BY MinIs
<1> HIDE DEF n
<1>3. n \in 0..Len(list)
  BY SMT, <1>1, <1>2
<1>4. /\ DOMAIN list = 1..Len(list)
      /\ DOMAIN first = 1..n /\ (\A k \in 1..n : first[k] = list[k])
      /\ DOMAIN rest = 1..(Len(list) - n)
      /\ (\A k \in 1..(Len(list) - n) : rest[k] = list[n + k])
      /\ rest \in Seq(Nat)
  BY SMT, <1>1, <1>3
<1> HIDE DEF first, rest
<1>5. ASSUME NEW i, In(list, i)
      PROVE  i \in Range(first) \/ (n # Len(list) /\ In(rest, i))
  <2> PICK k \in 1..Len(list) : list[k] = i
    BY <1>4, <1>5 DEF In
  <2> CASE k \in 1..n
    BY <1>4 DEF Range
  <2> CASE k \notin 1..n
    <3> /\ k - n \in 1..(Len(list) - n) /\ n + (k - n) = k /\ n # Len(list)
      BY SMT, <1>3
    <3> QED BY <1>4 DEF In
  <2> QED OBVIOUS
<1> QED BY <1>4, <1>5 DEF Parts, n, first, rest

\* A session disconnects: it is gone, and its sources with it or in its list.
LEMMA Disconnects ==
    ASSUME IInv, NEW s \in Session, Disconnect(s)
    PROVE  IInv'
<1> DEFINE list == eng.clients[s]
           C == [t \in DOMAIN eng.clients \ {s} |-> eng.clients[t]]
           G == [eng EXCEPT !.clients = C]
           n == Min({Chunk, Len(list)})
           first == SubSeq(list, 1, n)
           rest == SubSeq(list, n + 1, Len(list))
           left == [list |-> rest, layout |-> eng.layout]
<1>1. /\ s \in DOMAIN eng.clients /\ eng' = RemoveSourcesOf(G, Range(first), s)
      /\ leaving' = IF n = Len(list) THEN leaving ELSE With(leaving, s, left)
      /\ Watch(eng') /\ addr' = addr
  BY DEF Disconnect
<1> /\ eng \in Engine /\ Sound(addr, eng) /\ Walked /\ Owned /\ Offered(eng)
  BY DEF IInv, Sound
<1>2. eng.layout \in Nat /\ eng.layout <= eng.layout /\ eng.clients \in Lists
  <2> eng.layout \in Nat /\ eng.clients \in Lists
    BY DEF Engine
  <2> QED BY SMT
<1>3. /\ DOMAIN eng.clients \subseteq Session /\ \A t \in DOMAIN eng.clients : eng.clients[t] \in Seq(Nat)
  BY <1>2, ListsAre
<1>4. Parts(list, n)
  BY <1>1, <1>3, PartsAre
<1>5. C \in Lists /\ DOMAIN C = DOMAIN eng.clients \ {s} /\ \A t \in DOMAIN C : C[t] = eng.clients[t]
  <2> C \in [DOMAIN eng.clients \ {s} -> Seq(Nat)]
    BY <1>3
  <2> DOMAIN eng.clients \ {s} \in SUBSET Session
    BY <1>3
  <2> QED BY ListsAre
<1> HIDE DEF C
<1>6. Sound(addr, G) /\ Relisted(eng, eng.recs, C, G)
  BY <1>5, OtherClients
<1>7. G.recs = eng.recs /\ G.files = eng.files /\ G.clients = C /\ G.layout = eng.layout
  BY <1>6 DEF Relisted
<1>8. s \notin DOMAIN G.clients
  BY <1>5, <1>7
<1> HIDE DEF G
<1>9. Removing(addr, G, Range(first), s, eng')
  BY <1>1, <1>6, <1>8, RemoveSourcesIs
<1> /\ Sound(addr', eng') /\ Alike(G, eng') /\ eng'.layout = eng.layout /\ eng'.clients = C
    /\ DOMAIN eng'.recs = DOMAIN eng.recs
  BY <1>1, <1>7, <1>9 DEF Removing, Alike
<1>10. Walked'
  <2> Carries(eng, G)
    BY <1>7 DEF Carries, Live
  <2> Stays(eng, eng')
    BY AlikeCarries, CarriesStays
  <2> QED BY <1>1, <1>2, WatchIs
<1>11. s \in DOMAIN addr /\ s \notin DOMAIN leaving
  BY <1>1 DEF Owned
<1>12. rest \in Seq(Nat) /\ left \in [list : Seq(Nat), layout : Nat] /\ left.layout = eng.layout /\ left.list = rest
  <2> rest \in Seq(Nat)
    BY <1>4 DEF Parts
  <2> HIDE DEF rest
  <2> QED BY <1>2
<1> HIDE DEF left
<1> /\ DOMAIN leaving' \subseteq DOMAIN leaving \cup {s}
    /\ \A t \in DOMAIN leaving : t \in DOMAIN leaving' /\ t # s /\ leaving'[t] = leaving[t]
    /\ s \in DOMAIN leaving' => leaving'[s] = left
    /\ n # Len(list) => s \in DOMAIN leaving'
  <2> CASE n = Len(list)
    BY <1>1, <1>11
  <2> CASE n # Len(list)
    <3> leaving' = With(leaving, s, left)
      BY <1>1
    <3> DOMAIN leaving' = DOMAIN leaving \cup {s} /\ leaving'[s] = left
        /\ \A t \in DOMAIN leaving : t # s => leaving'[t] = leaving[t]
      BY DEF With
    <3> QED BY <1>11
  <2> QED OBVIOUS
<1>13. ASSUME NEW i \in DOMAIN eng'.recs, NEW t \in Session, Has(eng'.recs[i].src, t)
       PROVE  \/ t \in DOMAIN eng'.clients
              \/ t \in DOMAIN leaving' /\ (leaving'[t].layout # eng'.layout \/ In(leaving'[t].list, i))
  <2> i \in DOMAIN eng.recs /\ Has(eng.recs[i].src, t) /\ ~(i \in Range(first) /\ t = s)
    BY <1>7, <1>9, <1>13 DEF Removing
  <2> CASE t = s
    <3> i \in Nat
      <4> eng.recs \in Seq(Record)
        BY DEF Engine
      <4> QED BY SMT
    <3> In(list, i)
      BY <1>1 DEF Offered
    <3> n # Len(list) /\ In(rest, i)
      BY <1>4 DEF Parts
    <3> HIDE DEF n, rest, list
    <3> QED BY <1>12
  <2> CASE t # s
    <3> t \in DOMAIN eng.clients => t \in DOMAIN eng'.clients
      BY <1>5
    <3> QED BY DEF Owned
  <2> QED OBVIOUS
<1>14. /\ addr' \in Seq(Addr) /\ Len(addr') <= MaxSession
       /\ DOMAIN eng'.clients \subseteq DOMAIN addr' /\ DOMAIN leaving' \subseteq DOMAIN addr'
  BY <1>1, <1>5, <1>11 DEF Owned
<1>15. \A t \in DOMAIN leaving' :
         /\ t \notin DOMAIN eng'.clients
         /\ leaving'[t] \in [list : Seq(Nat), layout : Nat] /\ leaving'[t].layout <= eng'.layout
  <2> SUFFICES ASSUME NEW t \in DOMAIN leaving'
               PROVE  /\ t \notin DOMAIN eng'.clients
                      /\ leaving'[t] \in [list : Seq(Nat), layout : Nat] /\ leaving'[t].layout <= eng'.layout
    OBVIOUS
  <2> HIDE DEF n, rest, list
  <2> CASE t = s
    BY <1>2, <1>5, <1>12
  <2> CASE t # s
    <3> t \in DOMAIN leaving /\ leaving'[t] = leaving[t]
      OBVIOUS
    <3> t \notin DOMAIN eng'.clients
      BY <1>5 DEF Owned
    <3> QED BY DEF Owned
  <2> QED OBVIOUS
<1> HIDE DEF n, rest, list
<1>16. Owned'
  BY <1>13, <1>14, <1>15 DEF Owned
<1> QED BY <1>10, <1>16 DEF IInv

\* The next chunk of a departing session's list, or everything after a renumbering.
LEMMA DisconnectsNext ==
    ASSUME IInv, NEW s \in Session, DisconnectNext(s)
    PROVE  IInv'
<1> DEFINE list == leaving[s].list
           stale == leaving[s].layout # eng.layout
           n == Min({Chunk, Len(list)})
           first == SubSeq(list, 1, n)
           rest == SubSeq(list, n + 1, Len(list))
           I == IF stale THEN DOMAIN eng.recs ELSE Range(first)
           without == [t \in DOMAIN leaving \ {s} |-> leaving[t]]
<1> /\ s \in DOMAIN leaving /\ eng' = RemoveSourcesOf(eng, I, s)
    /\ leaving' = IF stale \/ n = Len(list) THEN without
                  ELSE [leaving EXCEPT ![s].list = rest]
    /\ Watch(eng') /\ addr' = addr
  BY DEF DisconnectNext, RemoveAllSourcesOf
<1> /\ eng \in Engine /\ Sound(addr, eng) /\ Walked /\ Owned
  BY DEF IInv, Sound
<1>1. eng.layout \in Nat /\ eng.layout <= eng.layout
  <2> eng.layout \in Nat
    BY DEF Engine
  <2> QED BY SMT
<1> /\ s \notin DOMAIN eng.clients /\ leaving[s] \in [list : Seq(Nat), layout : Nat]
    /\ leaving[s].layout <= eng.layout
  BY DEF Owned
<1>2. Parts(list, n) /\ list \in Seq(Nat)
  <2> list \in Seq(Nat)
    OBVIOUS
  <2> QED BY PartsAre
<1> HIDE DEF I
<1>3. Removing(addr, eng, I, s, eng')
  BY RemoveSourcesIs
<1> /\ Sound(addr', eng') /\ Alike(eng, eng') /\ eng'.layout = eng.layout
    /\ eng'.clients = eng.clients /\ DOMAIN eng'.recs = DOMAIN eng.recs
  BY <1>3 DEF Removing, Alike
<1>4. Walked'
  <2> Stays(eng, eng')
    BY AlikeCarries, CarriesStays
  <2> QED BY <1>1, WatchIs
<1>5. rest \in Seq(Nat)
  BY <1>2 DEF Parts
<1> /\ DOMAIN leaving' \subseteq DOMAIN leaving
    /\ \A t \in DOMAIN leaving : t # s => t \in DOMAIN leaving' /\ leaving'[t] = leaving[t]
    /\ s \in DOMAIN leaving' => /\ leaving'[s] \in [list : Seq(Nat), layout : Nat]
                                /\ leaving'[s].list = rest /\ leaving'[s].layout = leaving[s].layout
    /\ ~stale /\ n # Len(list) => s \in DOMAIN leaving'
  <2> HIDE DEF n, rest, list, stale
  <2> CASE stale \/ n = Len(list)
    <3> leaving' = without
      OBVIOUS
    <3> QED OBVIOUS
  <2> CASE ~(stale \/ n = Len(list))
    <3> leaving' = [leaving EXCEPT ![s].list = rest]
      OBVIOUS
    <3> DOMAIN leaving' = DOMAIN leaving /\ \A t \in DOMAIN leaving : t # s => leaving'[t] = leaving[t]
      OBVIOUS
    <3> leaving'[s] = [leaving[s] EXCEPT !.list = rest]
      OBVIOUS
    <3> /\ leaving'[s] \in [list : Seq(Nat), layout : Nat]
        /\ leaving'[s].list = rest /\ leaving'[s].layout = leaving[s].layout
      BY SMT, <1>5
    <3> QED OBVIOUS
  <2> QED OBVIOUS
<1>6. ASSUME NEW i \in DOMAIN eng'.recs, NEW t \in Session, Has(eng'.recs[i].src, t)
      PROVE  \/ t \in DOMAIN eng'.clients
             \/ t \in DOMAIN leaving' /\ (leaving'[t].layout # eng'.layout \/ In(leaving'[t].list, i))
  <2> i \in DOMAIN eng.recs /\ Has(eng.recs[i].src, t) /\ ~(i \in I /\ t = s)
    BY <1>3, <1>6 DEF Removing
  <2> CASE t = s
    <3> i \notin I
      OBVIOUS
    <3> ~stale /\ i \notin Range(first)
      BY DEF I
    <3> In(list, i)
      BY DEF Owned
    <3> n # Len(list) /\ In(rest, i)
      BY <1>2 DEF Parts
    <3> HIDE DEF n, rest, list, stale
    <3> QED OBVIOUS
  <2> CASE t # s
    BY DEF Owned
  <2> QED OBVIOUS
<1>7. /\ addr' \in Seq(Addr) /\ Len(addr') <= MaxSession
      /\ DOMAIN eng'.clients \subseteq DOMAIN addr' /\ DOMAIN leaving' \subseteq DOMAIN addr'
  BY DEF Owned
<1>8. \A t \in DOMAIN leaving' :
        /\ t \notin DOMAIN eng'.clients
        /\ leaving'[t] \in [list : Seq(Nat), layout : Nat] /\ leaving'[t].layout <= eng'.layout
  <2> SUFFICES ASSUME NEW t \in DOMAIN leaving'
               PROVE  /\ t \notin DOMAIN eng'.clients
                      /\ leaving'[t] \in [list : Seq(Nat), layout : Nat] /\ leaving'[t].layout <= eng'.layout
    OBVIOUS
  <2> HIDE DEF n, rest, list
  <2> CASE t = s
    OBVIOUS
  <2> CASE t # s
    BY DEF Owned
  <2> QED OBVIOUS
<1> HIDE DEF n, rest, list, stale
<1>9. Owned'
  BY <1>6, <1>7, <1>8 DEF Owned
<1> QED BY <1>4, <1>9 DEF IInv

\* A cleanup reaps, and may renumber.
LEMMA Cleans ==
    ASSUME IInv, CleanupStale
    PROVE  IInv'
<1> /\ eng \in Engine /\ Chains(eng) /\ Sound(addr, eng) /\ Walked /\ Owned
    /\ eng' = Cleaned(eng) /\ Watch(eng') /\ addr' = addr /\ leaving' = leaving
  BY DEF IInv, Sound, CleanupStale
<1> Sound(addr', eng') /\ Cleaning(eng, eng')
  BY CleanedIs
<1> DOMAIN eng'.clients = DOMAIN eng.clients
  BY DEF Cleaning
<1> eng.layout \in Nat /\ eng.recs \in Seq(Record)
  BY DEF Engine
<1> CASE eng'.layout = eng.layout /\ Reaping(eng, eng')
  <2> Stays(eng, eng')
    BY ReapingStays
  <2> eng.layout <= eng.layout
    BY SMT
  <2> Walked'
    BY WatchIs
  <2> DOMAIN eng'.recs = DOMAIN eng.recs /\ \A i \in DOMAIN eng.recs : eng'.recs[i].src = eng.recs[i].src
    BY DEF Reaping
  <2> Owned'
    BY DEF Owned
  <2> QED BY DEF IInv
<1> CASE /\ eng'.layout = eng.layout + 1
         /\ \A k \in DOMAIN eng'.recs : \E i \in DOMAIN eng.recs : eng'.recs[k].src = eng.recs[i].src
  <2> /\ eng'.layout \in Nat /\ eng.layout <= eng'.layout /\ eng'.layout # eng.layout
    BY SMT
  <2> Walked'
    BY WatchIs
  <2> \A t \in DOMAIN leaving : leaving[t].layout <= eng'.layout /\ leaving[t].layout # eng'.layout
    <3> SUFFICES ASSUME NEW t \in DOMAIN leaving
                 PROVE  leaving[t].layout <= eng'.layout /\ leaving[t].layout # eng'.layout
      OBVIOUS
    <3> leaving[t] \in [list : Seq(Nat), layout : Nat] /\ leaving[t].layout <= eng.layout
      BY DEF Owned
    <3> leaving[t].layout \in Nat
      OBVIOUS
    <3> QED BY SMT
  <2> ASSUME NEW i \in DOMAIN eng'.recs, NEW t \in Session, Has(eng'.recs[i].src, t)
      PROVE  t \in DOMAIN eng'.clients \/ t \in DOMAIN leaving'
    <3> PICK j \in DOMAIN eng.recs : eng'.recs[i].src = eng.recs[j].src
      OBVIOUS
    <3> QED BY DEF Owned
  <2> Owned'
    BY DEF Owned
  <2> QED BY DEF IInv
<1> QED BY DEF Cleaning

\* A handover through a file that is read back.
LEMMA Restores ==
    ASSUME IInv, RestoreHandoff
    PROVE  IInv'
<1> /\ eng \in Engine /\ Sound(addr, eng) /\ Walked /\ Owned
    /\ walk' = walk /\ addr' = addr /\ leaving' = leaving /\ leaving = <<>>
  BY DEF IInv, Sound, RestoreHandoff
<1>1. PICK q \in Orders({h \in Hash : eng.files[h] # 0}) : eng' = Imported(eng, q)
  BY DEF RestoreHandoff
<1> /\ Sound(addr, eng') /\ eng'.layout = eng.layout + 2
    /\ DOMAIN eng'.clients = DOMAIN eng.clients
    /\ \A i \in DOMAIN eng'.recs : \A t : Has(eng'.recs[i].src, t) =>
          \E j \in DOMAIN eng.recs : Has(eng.recs[j].src, t)
  BY <1>1, ImportedIs
<1>2. DOMAIN leaving = {}
  BY SMT
<1>3. eng.layout \in Nat
  BY DEF Engine
<1>4. Owned'
  BY <1>2 DEF Owned
<1>5. walk.on => walk.layout <= eng'.layout /\ walk.layout # eng'.layout
  <2> walk.layout \in Nat /\ (walk.on => walk.layout <= eng.layout)
    BY DEF Walked
  <2> QED BY SMT, <1>3
<1>6. Walked'
  BY <1>5 DEF Walked
<1> QED BY <1>4, <1>6 DEF IInv

\* An engine that has loaded a snapshot.
LEMMA Starts ==
    ASSUME Init
    PROVE  IInv
<1> PICK F \in SUBSET Offer : IsFiniteSet(F)
                          /\ \E q \in Orders(F) : eng = [InstallFiles(NewEngine, q) EXCEPT !.layout = 0]
  BY DEF Init
<1>1. PICK q \in Orders(F) : eng = [InstallFiles(NewEngine, q) EXCEPT !.layout = 0]
  OBVIOUS
<1>2. q \in Seq(Files)
  <2> F \subseteq Files
    BY MemoryAssumption DEF Files, Name
  <2> Cardinality(F) \in Nat
    BY FS_CardinalityType
  <2> q \in [1..Cardinality(F) -> F]
    BY <1>1 DEF Orders, Injection
  <2> q \in [1..Cardinality(F) -> Files]
    OBVIOUS
  <2> QED BY SMT
<1> DEFINE X == InstallFiles(NewEngine, q)
           L == 1
           D == {}
<1>3. NewEngine.layout + 1 = L /\ L \in Nat /\ 0 \in Nat /\ DOMAIN NewEngine.clients = D /\ D \in SUBSET Session
  BY SMT DEF NewEngine
<1> /\ Sound(addr, X) /\ X.clients = [s \in D |-> <<>>]
    /\ \A i \in DOMAIN X.recs : X.recs[i].src = <<>>
  <2> DEFINE N == NewEngine
  <2> N.layout + 1 = L /\ L \in Nat /\ DOMAIN N.clients = D /\ D \in SUBSET Session
    BY <1>3
  <2> HIDE DEF L, D, N
  <2> Installed(addr, L, D, InstallFiles(N, q))
    BY <1>2, InstallFilesIs
  <2> QED BY DEF N, Installed
<1> HIDE DEF X
<1>4. Sound(addr, eng) /\ Layouted(X, 0, eng)
  BY <1>1, <1>3, LayoutIs DEF X
<1>5. eng.layout = 0 /\ eng.recs = X.recs /\ DOMAIN eng.clients = {}
  BY <1>4 DEF Layouted
<1>6. addr = <<>> /\ leaving = <<>> /\ walk = NoWalk
  BY DEF Init
<1>7. DOMAIN leaving = {} /\ addr \in Seq(Addr) /\ Len(addr) <= MaxSession /\ DOMAIN <<>> = {}
  BY SMT, <1>6, MemoryAssumption
<1>8. \A i \in DOMAIN eng.recs : \A s : ~Has(eng.recs[i].src, s)
  BY <1>5, <1>7 DEF Has
<1>9. Owned
  BY <1>5, <1>7, <1>8 DEF Owned
<1>10. Walked
  BY <1>6, NoWalkIs DEF Walked
<1> QED BY <1>4, <1>9, <1>10 DEF IInv

\* Every step keeps the invariant.
LEMMA StepKeeps ==
    ASSUME IInv, [Next]_vars
    PROVE  IInv'
<1>1. CASE Next
  <2> CASE \E a \in Addr : Connect(a)
    BY Connects
  <2> CASE \E s \in Session, f \in Offer : AddFile(s, f)
    BY AddsFile
  <2> CASE \E s \in Session : Disconnect(s)
    BY Disconnects
  <2> CASE \E s \in Session : DisconnectNext(s)
    BY DisconnectsNext
  <2> CASE CleanupStale
    BY Cleans
  <2> CASE RestoreHandoff
    BY Restores
  <2> ASSUME eng' = eng, addr' = addr, leaving' = leaving, Walked'
      PROVE  IInv'
    BY DEF IInv, Owned
  <2> CASE WalkStart
    BY WalkStarts DEF WalkStart
  <2> CASE BrowseFiles
    BY Browses DEF BrowseFiles
  <2> QED BY <1>1 DEF Next
<1>2. CASE UNCHANGED vars
  BY <1>2 DEF vars, IInv, Owned, Walked
<1> QED BY <1>1, <1>2

\* IInv is an invariant.
LEMMA Invariant == Spec => []IInv
<1>1. Init => IInv
  BY Starts
<1>2. IInv /\ [Next]_vars => IInv'
  BY StepKeeps
<1> QED BY <1>1, <1>2, PTL DEF Spec

----------------------------------------------------------------------------
(* The theorems *)

\* The records, the dead and the free slots and the hash chains fit together, after
\* any number of offers, take-overs, departures, cleanups, renumberings and
\* handovers, whatever the files, the sessions and the chunk size: a slot is live,
\* dead or free, once; storeFileLocked, removeRecLocked and rebuildIndexLocked
\* leave the chain of every hash complete, without repetition and headed by the
\* record the sources are on.
THEOREM RecordsExactCorrect == Spec => []RecordsExact
<1>1. IInv => RecordsExact
  BY RecordsFollow
<1> QED BY <1>1, Invariant, PTL

\* The offered list of a connected session names the records whose source lists it
\* is in, each once: putSourceLocked and forgetOfferLocked keep the two sides
\* together, and rebuildIndexLocked renumbers both.
THEOREM OfferedExactCorrect == Spec => []OfferedExact
<1>1. IInv => OfferedExact
  BY OfferedFollows
<1> QED BY <1>1, Invariant, PTL

\* No source outlives its session: what Disconnect has not reached yet is in the
\* list it carries from one lock to the next, or the layout has moved on and it
\* will visit every record.
THEOREM SourcesExactCorrect == Spec => []SourcesExact
<1>1. IInv => SourcesExact
  BY SourcesFollow
<1> QED BY <1>1, Invariant, PTL

\* The word index is a superset of what any word can match, no free slot is in it,
\* and the two counters maintainIndexLocked decides a rebuild by are exact.
THEOREM NamesCoverCorrect == Spec => []NamesCover
<1>1. IInv => NamesCover
  BY NamesFollow
<1> QED BY <1>1, Invariant, PTL

\* A catalogue walk by BrowseFiles that ran to its end reported every file that was
\* served throughout it exactly once, for every page size.
THEOREM WalkExactCorrect == Spec => []WalkExact
<1>1. IInv => WalkExact
  BY DEF IInv, Walked, WalkExact
<1> QED BY <1>1, Invariant, PTL

=============================================================================
