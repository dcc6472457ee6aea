--------------------------- MODULE AccountsProofs ---------------------------
(***************************************************************************)
(* The account's access end is the ledger's, for any number of goroutines, *)
(* payments and faults.  The argument: whoever writes the account row      *)
(* holds the lock and writes what it read under it (Locks, Snaps), and a   *)
(* payment that is being credited or revoked is so by one goroutine, which *)
(* has not changed the access end yet (Credits, Refunds).                  *)
(* While nothing fails, every mark is honoured in the end, because the     *)
(* goroutine that takes it is the one that honours it (Owed), and the      *)
(* account's state is settled in the end, because an active account with   *)
(* an open step has run out or has a goroutine that will settle it         *)
(* (Pledged); which goroutines do follows from the loops they are in       *)
(* (Loops).                                                                *)
(***************************************************************************)
EXTENDS Accounts, TLAPS

\* What the argument needs of the types: nothing of frames, orders and bounds.
Types ==
  /\ now \in Nat \ {0} /\ acct \in Account
  /\ pc \in [Worker -> Label] /\ snap \in [Worker -> Account]
  /\ cur \in [Worker -> 0..Payments] /\ lock \subseteq Worker
  /\ DOMAIN pay = Payment
  /\ \A p \in Payment : DOMAIN pay[p] = {"status", "ext", "at", "credited", "revoked"}
  /\ \A p \in Payment : pay[p].credited \in Nat /\ pay[p].revoked \in BOOLEAN
  /\ granted \subseteq Payment /\ returned \subseteq Payment

\* Labels inside the lock, and those at which the row as read is still to be
\* written.
Inside == {"extend", "close", "closing", "reduce", "write", "toggle", "adjust"}
Writes == {"extend", "reduce", "toggle", "adjust"}
Crediting == {"grant", "extend"}
Revoking == {"revoke", "reduce"}
\* Labels reached only once a payment has been credited.
Granting == {"close", "closing", "confirm", "confirming"}
\* The labels nothing is known at.
Free == Label \ (Inside \union Crediting \union Revoking \union Granting)

Locks ==
  /\ \A w \in Worker : pc[w] \in Inside => w \in lock
  /\ \A v, w \in lock : v = w

Snaps ==
  \A w \in Worker :
    /\ pc[w] \in Writes => snap[w] = acct
    /\ pc[w] = "write" => snap[w].until = acct.until /\ acct.state # "disabled"

Credits ==
  /\ \A p \in granted : pay[p].credited > 0
  /\ \A w \in Worker : pc[w] \in Crediting =>
       cur[w] \in Payment /\ pay[cur[w]].credited > 0 /\ cur[w] \notin granted
  /\ \A v, w \in Worker : pc[v] \in Crediting /\ pc[w] \in Crediting /\ cur[v] = cur[w] => v = w

Refunds ==
  /\ \A p \in returned : pay[p].revoked
  /\ \A w \in Worker : pc[w] \in Revoking =>
       cur[w] \in Payment /\ pay[cur[w]].revoked /\ cur[w] \notin returned
  /\ \A v, w \in Worker : pc[v] \in Revoking /\ pc[w] \in Revoking /\ cur[v] = cur[w] => v = w

Paid ==
  /\ \A w \in Worker : pc[w] \in Granting => granted # {}
  /\ step = "done" => granted # {}
  /\ acct.until = NoExpiry => granted = {} \/ \E p \in granted : Days[p] = 0

Inv == Types /\ Locks /\ Snaps /\ Credits /\ Refunds /\ Paid

-----------------------------------------------------------------------------
\* The marks of the payments are left alone.
MarksKept ==
  /\ DOMAIN pay' = Payment
  /\ \A p \in Payment : DOMAIN pay'[p] = {"status", "ext", "at", "credited", "revoked"}
  /\ \A p \in Payment : pay'[p].credited = pay[p].credited /\ pay'[p].revoked = pay[p].revoked

\* UpdatePayment writes the status and the order's ID, never a mark.
LEMMA UpdateKeepsMarks ==
  ASSUME Types, NEW p, NEW row, UpdatePayment(p, row)
  PROVE  MarksKept
  BY Zenon DEF Types, UpdatePayment, MarksKept

\* Rows that are not written keep their marks.
LEMMA SameKeepsMarks ==
  ASSUME Types, pay' = pay
  PROVE  MarksKept
  BY Zenon DEF Types, MarksKept

\* Checkout stores a row nobody has credited.
LEMMA CheckoutKeepsMarks ==
  ASSUME Types, NEW p \in Payment, NEW w \in Worker, Checkout(w, p)
  PROVE  MarksKept
  BY Zenon DEF Types, Checkout, NoRow, MarksKept

\* A step that takes goroutine w to a label nothing is known at.
Going(w) ==
  /\ \E l \in Free : pc' = [pc EXCEPT ![w] = l]
  /\ lock' \in {lock, lock \ {w}}
  /\ snap' = snap \/ \E s \in Account : snap' = [snap EXCEPT ![w] = s]
  /\ cur' \in {cur, [cur EXCEPT ![w] = 0]}
  /\ MarksKept
  /\ step' = "done" => step = "done" \/ pc[w] \in Granting
  /\ UNCHANGED <<now, acct, granted, returned>>

\* Such a step keeps the invariant: w holds nothing and owes nothing after it.
LEMMA GoingKeepsInv ==
  ASSUME Inv, NEW w \in Worker, Going(w)
  PROVE  Inv'
<1>1. PICK l \in Free : pc' = [pc EXCEPT ![w] = l]
  BY Zenon DEF Going
<1>2. /\ l \in Label /\ l \notin Inside /\ l \notin Writes /\ l # "write" /\ l \notin Crediting
      /\ l \notin Revoking /\ l \notin Granting
  BY Zenon DEF Free, Inside, Writes
<1>3. /\ \A v \in Worker : v # w => pc'[v] = pc[v] /\ snap'[v] = snap[v] /\ cur'[v] = cur[v]
      /\ pc'[w] = l
      /\ pc' \in [Worker -> Label] /\ snap' \in [Worker -> Account] /\ cur' \in [Worker -> 0..Payments]
  <2>1. pc' \in [Worker -> Label] /\ pc'[w] = l /\ \A v \in Worker : v # w => pc'[v] = pc[v]
    BY Zenon, <1>1, <1>2 DEF Inv, Types
  <2>2. snap' \in [Worker -> Account] /\ \A v \in Worker : v # w => snap'[v] = snap[v]
    <3>1. CASE snap' = snap
      BY Zenon, <3>1 DEF Inv, Types
    <3>2. ASSUME NEW s \in Account, snap' = [snap EXCEPT ![w] = s]
          PROVE  snap' \in [Worker -> Account] /\ \A v \in Worker : v # w => snap'[v] = snap[v]
      BY Zenon, <3>2 DEF Inv, Types
    <3>3. QED
      BY Zenon, <3>1, <3>2 DEF Going
  <2>3. cur' \in [Worker -> 0..Payments] /\ \A v \in Worker : v # w => cur'[v] = cur[v]
    BY AccountsAssumption DEF Inv, Types, Going
  <2>4. QED
    BY Zenon, <2>1, <2>2, <2>3
<1>4. Types'
  BY Zenon, <1>3 DEF Inv, Types, Going, MarksKept
<1>5. Locks'
  BY Zenon, <1>2, <1>3 DEF Inv, Types, Locks, Going
<1>6. Snaps'
  BY <1>2, <1>3 DEF Inv, Snaps, Going
<1>7. Credits'
  BY <1>2, <1>3 DEF Inv, Types, Credits, Going, MarksKept
<1>8. Refunds'
  BY <1>2, <1>3 DEF Inv, Types, Refunds, Going, MarksKept
<1>9. Paid'
  BY Zenon, <1>2, <1>3 DEF Inv, Paid, Going
<1>10. QED
  BY Zenon, <1>4, <1>5, <1>6, <1>7, <1>8, <1>9 DEF Inv

-----------------------------------------------------------------------------
\* Where control goes when a function of the payment step returns.

\* The labels outside crediting, revoking and the lock.
LEMMA FreeLabels ==
  {"idle", "order", "record", "reconcile", "store", "undo", "unmark", "reset", "evaluate",
   "reopen", "list", "settle", "skip", "skipping"} \subseteq Free
  BY DEF Free, Label, Inside, Crediting, Revoking, Granting

\* reconcile returns to its loop, or the loop is over.
LEMMA ReconciledGoes ==
  ASSUME NEW w, Reconciled(w)
  PROVE  \E l \in Free : pc' = [pc EXCEPT ![w] = l]
<1>1. \E l \in {"idle", "settle", "reconcile"} : pc' = [pc EXCEPT ![w] = l]
  BY Zenon DEF Reconciled, Leave, Goto
<1>2. QED
  BY Zenon, <1>1, FreeLabels

\* Evaluate returns to its handler or to the reconcile that revoked.
LEMMA ReturnGoes ==
  ASSUME NEW w, Return(w)
  PROVE  \E l \in Free : pc' = [pc EXCEPT ![w] = l]
<1>1. CASE stack[w] = <<>>
  BY Zenon, <1>1, FreeLabels DEF Return, Goto
<1>2. CASE stack[w] # <<>>
  BY Zenon, <1>2, ReconciledGoes DEF Return
<1>3. QED
  BY Zenon, <1>1, <1>2

\* Only Evaluate's own loop learns of the grant.
LEMMA CreditedGoes ==
  ASSUME NEW w, Credited(w)
  PROVE  \E l \in Free \union {"confirm"} : pc' = [pc EXCEPT ![w] = l]
<1>1. CASE Frame(w).kind = "check"
  BY Zenon, <1>1 DEF Credited, Goto
<1>2. CASE Frame(w).kind = "page"
  BY Zenon, <1>2, FreeLabels DEF Credited, Goto
<1>3. CASE Frame(w).kind \notin {"check", "page"}
  BY Zenon, <1>3, ReconciledGoes DEF Credited
<1>4. QED
  BY Zenon, <1>1, <1>2, <1>3

-----------------------------------------------------------------------------
\* The handlers of the payment step leave account, lock and marks alone, up to
\* the one that credits.
LEMMA HandlerGoes ==
  ASSUME Inv, NEW w \in Worker, Handler(w), ~MarkCredited(w), ~ListEnds(w)
  PROVE  Going(w)
<1> USE FreeLabels
<1>t. Types
  BY Zenon DEF Inv
<1>1. ASSUME NEW kind, NEW todo, Enter(w, kind, todo) PROVE Going(w)
  BY Zenon, <1>t, <1>1, SameKeepsMarks DEF Enter, Goto, Going, rows, history
<1>2. CASE Poll(w)
  BY Zenon, <1>1, <1>2 DEF Poll
<1>3. CASE Refresh(w)
  BY Zenon, <1>1, <1>3 DEF Refresh
<1>4. CASE Authorize(w)
  <2>1. acct \in Account
    BY Zenon, <1>t DEF Types
  <2>2. QED
    BY Zenon, <1>t, <1>4, <2>1, SameKeepsMarks DEF Authorize, Read, Goto, Going, rows, history
<1>5. ASSUME NEW p \in Payment, Checkout(w, p) PROVE Going(w)
  <2>1. MarksKept
    BY Zenon, <1>t, <1>5, CheckoutKeepsMarks
  <2>2. QED
    BY Zenon, <1>5, <2>1 DEF Checkout, Goto, Going, history
<1>6. ASSUME NEW p \in Payment, Reconcile(w, p) PROVE Going(w)
  BY Zenon, <1>1, <1>6 DEF Reconcile
<1>7. CASE PlaceOrder(w)
  BY Zenon, <1>t, <1>7, SameKeepsMarks DEF PlaceOrder, Goto, Going, rows, history
<1>8. CASE OrderFails(w)
  BY Zenon, <1>t, <1>8, SameKeepsMarks DEF OrderFails, Goto, Going, rows, history
<1>9. CASE Record(w)
  <2>1. MarksKept
    BY Zenon, <1>t, <1>9, UpdateKeepsMarks DEF Record
  <2>2. QED
    BY Zenon, <1>9, <2>1 DEF Record, Goto, Going, history
<1>10. CASE Abandon(w)
  <2>1. MarksKept
    BY Zenon, <1>t, <1>10, UpdateKeepsMarks DEF Abandon
  <2>2. \E l \in Free : pc' = [pc EXCEPT ![w] = l]
    BY Zenon, <1>10, ReconciledGoes DEF Abandon
  <2>3. QED
    BY Zenon, <1>10, <2>1, <2>2 DEF Abandon, Going, history
<1>11. CASE Skip(w)
  <2>1. \E l \in Free : pc' = [pc EXCEPT ![w] = l]
    BY Zenon, <1>11, ReconciledGoes DEF Skip
  <2>2. QED
    BY Zenon, <1>t, <1>11, <2>1, SameKeepsMarks DEF Skip, Going, rows, history
<1>12. CASE Fetch(w)
  <2>1. \E l \in Free : pc' = [pc EXCEPT ![w] = l]
    <3>1. CASE Reconciled(w)
      BY Zenon, <3>1, ReconciledGoes
    <3>2. CASE ~Reconciled(w)
      BY Zenon, <1>12, <3>2 DEF Fetch, Goto
    <3>3. QED
      BY Zenon, <3>1, <3>2
  <2>2. QED
    BY Zenon, <1>t, <1>12, <2>1, SameKeepsMarks DEF Fetch, Going, rows, history
<1>13. CASE StoreStatus(w)
  <2>1. MarksKept
    BY Zenon, <1>t, <1>13, UpdateKeepsMarks DEF StoreStatus
  <2>2. QED
    BY Zenon, <1>13, <2>1 DEF StoreStatus, Goto, Going, history
<1>14. QED
  BY Zenon, <1>2, <1>3, <1>4, <1>5, <1>6, <1>7, <1>8, <1>9, <1>10, <1>11, <1>12, <1>13 DEF Handler

\* So do these calls of the account service.
Passive(w) ==
  \/ Refetch(w) \/ StoreUndone(w) \/ ResetRevoked(w) \/ Evaluate(w) \/ Reopen(w) \/ CheckStep(w)
  \/ SkipStep(w) \/ SkipRead(w) \/ SkipWrite(w) \/ ConfirmWrite(w) \/ Fail(w)

\* They, and a failing call, which gives the lock up, keep account and marks.
LEMMA PassiveGoes ==
  ASSUME Inv, NEW w \in Worker, Passive(w)
  PROVE  Going(w)
<1> USE FreeLabels
<1>t. Types /\ Nobody \in Account /\ acct \in Account
  BY Zenon DEF Inv, Types, Nobody, Account
<1>1. CASE Refetch(w)
  <2>1. \E l \in Free : pc' = [pc EXCEPT ![w] = l]
    <3>1. CASE Reconciled(w)
      BY Zenon, <3>1, ReconciledGoes
    <3>2. CASE ~Reconciled(w)
      BY Zenon, <1>1, <3>2 DEF Refetch, Goto
    <3>3. QED
      BY Zenon, <3>1, <3>2
  <2>2. QED
    BY Zenon, <1>t, <1>1, <2>1, SameKeepsMarks DEF Refetch, Going, rows, history
<1>2. CASE StoreUndone(w)
  <2>1. MarksKept
    BY Zenon, <1>t, <1>2, UpdateKeepsMarks DEF StoreUndone
  <2>2. QED
    BY Zenon, <1>2, <2>1 DEF StoreUndone, Goto, Going, history
<1>3. CASE ResetRevoked(w)
  BY Zenon, <1>t, <1>3, SameKeepsMarks DEF ResetRevoked, Goto, Going, history
<1>4. CASE Evaluate(w)
  <2>1. \E l \in Free : pc' = [pc EXCEPT ![w] = l]
    <3>1. CASE Return(w)
      BY Zenon, <3>1, ReturnGoes
    <3>2. CASE ~Return(w)
      BY Zenon, <1>4, <3>2 DEF Evaluate, Goto
    <3>3. QED
      BY Zenon, <3>1, <3>2
  <2>2. QED
    BY Zenon, <1>t, <1>4, <2>1, SameKeepsMarks DEF Evaluate, Forget, Going, rows, history
<1>5. CASE Reopen(w)
  BY Zenon, <1>t, <1>5, SameKeepsMarks DEF Reopen, Goto, Going, history
<1>6. CASE CheckStep(w)
  BY Zenon, <1>t, <1>6, SameKeepsMarks DEF CheckStep, Goto, Going, rows, history
<1>7. CASE SkipStep(w)
  BY Zenon, <1>t, <1>7, SameKeepsMarks DEF SkipStep, Read, Goto, Going, rows, history
<1>8. CASE SkipRead(w)
  BY Zenon, <1>t, <1>8, SameKeepsMarks DEF SkipRead, Goto, Going, rows, history
<1>9. CASE SkipWrite(w)
  BY Zenon, <1>t, <1>9, SameKeepsMarks DEF SkipWrite, Goto, Going, history
<1>10. CASE ConfirmWrite(w)
  BY Zenon, <1>t, <1>10, SameKeepsMarks DEF ConfirmWrite, At, Goto, Going, Granting, history
<1>11. CASE Fail(w)
  <2>1. \E l \in Free : pc' = [pc EXCEPT ![w] = l]
    <3>1. CASE Reconciled(w)
      BY Zenon, <3>1, ReconciledGoes
    <3>2. CASE Return(w)
      BY Zenon, <3>2, ReturnGoes
    <3>3. CASE ~Reconciled(w) /\ ~Return(w)
      BY Zenon, <1>11, <3>3 DEF Fail, Goto
    <3>4. QED
      BY Zenon, <3>1, <3>2, <3>3
  <2>2. QED
    BY Zenon, <1>t, <1>11, <2>1, SameKeepsMarks DEF Fail, Unlock, Forget, Going, rows, history
<1>12. QED
  BY Zenon, <1>1, <1>2, <1>3, <1>4, <1>5, <1>6, <1>7, <1>8, <1>9, <1>10, <1>11 DEF Passive

\* A step that changes nothing of what the invariant is about but the time.
LEMMA StandingKeepsInv ==
  ASSUME Inv, UNCHANGED <<acct, step, lock, pc, snap, cur, pay, granted, returned>>,
         now' \in {now, now + 1}
  PROVE  Inv'
<1>1. Types'
  BY DEF Inv, Types
<1>2. Locks' /\ Snaps' /\ Credits' /\ Refunds' /\ Paid'
  BY Zenon DEF Inv, Locks, Snaps, Credits, Refunds, Paid
<1>3. QED
  BY Zenon, <1>1, <1>2 DEF Inv

\* ListEnds goes on with another list or leaves its loop.
LEMMA ListEndsKeepsInv ==
  ASSUME Inv, NEW w \in Worker, ListEnds(w)
  PROVE  Inv'
<1>1. CASE pc' = pc
  BY Zenon, <1>1, StandingKeepsInv DEF ListEnds, rows, history
<1>2. CASE Leave(w)
  <2>1. \E l \in Free : pc' = [pc EXCEPT ![w] = l]
    BY Zenon, <1>2, FreeLabels DEF Leave, Goto
  <2>2. Going(w)
    BY Zenon, <2>1, SameKeepsMarks DEF ListEnds, Going, Inv, rows, history
  <2>3. QED
    BY Zenon, <2>2, GoingKeepsInv
<1>3. QED
  BY Zenon, <1>1, <1>2 DEF ListEnds

-----------------------------------------------------------------------------
\* Crediting a payment, and taking it back.

\* MarkPaymentCredited compares: nobody else is crediting the payment, and its
\* days were not added before.
LEMMA MarkCreditedKeepsInv ==
  ASSUME Inv, NEW w \in Worker, MarkCredited(w)
  PROVE  Inv'
<1>t. Types /\ now \in Nat \ {0}
  BY Zenon DEF Inv, Types
<1>1. PICK p \in Payment :
        IF pay[p].credited = 0
        THEN /\ pay' = [pay EXCEPT ![p].credited = now]
             /\ cur' = [cur EXCEPT ![w] = p]
             /\ Goto(w, "grant")
        ELSE Reconciled(w) /\ UNCHANGED <<pay, cur>>
  BY Zenon DEF MarkCredited
<1>2. UNCHANGED <<now, acct, step, lock, snap, granted, returned>>
  BY Zenon DEF MarkCredited, history
<1>3. CASE pay[p].credited # 0
  <2>1. Going(w)
    BY Zenon, <1>t, <1>1, <1>2, <1>3, ReconciledGoes, SameKeepsMarks DEF Going
  <2>2. QED
    BY Zenon, <2>1, GoingKeepsInv
<1>4. CASE pay[p].credited = 0
  <2>1. /\ pay' = [pay EXCEPT ![p].credited = now] /\ cur' = [cur EXCEPT ![w] = p]
        /\ pc' = [pc EXCEPT ![w] = "grant"]
    BY Zenon, <1>1, <1>4 DEF Goto
  <2>2. /\ DOMAIN pay' = Payment /\ pay'[p].credited = now
        /\ \A q \in Payment : DOMAIN pay'[q] = {"status", "ext", "at", "credited", "revoked"}
        /\ \A q \in Payment : q # p => pay'[q] = pay[q]
        /\ \A q \in Payment : pay'[q].revoked = pay[q].revoked
    BY Zenon, <1>t, <2>1 DEF Types
  <2>3. /\ pc' \in [Worker -> Label] /\ pc'[w] = "grant"
        /\ \A v \in Worker : v # w => pc'[v] = pc[v]
    BY Zenon, <1>t, <2>1 DEF Types, Label
  <2>4. /\ cur' \in [Worker -> 0..Payments] /\ cur'[w] = p
        /\ \A v \in Worker : v # w => cur'[v] = cur[v]
    BY <1>t, <2>1, AccountsAssumption DEF Types, Payment
  <2>5. Types'
    BY Zenon, <1>t, <1>2, <2>2, <2>3, <2>4 DEF Types
  <2>6. Locks'
    BY Zenon, <1>2, <2>3 DEF Inv, Locks, Inside
  <2>7. Snaps'
    BY Zenon, <1>2, <2>3 DEF Inv, Snaps, Writes
  <2>8. Credits'
    <3>1. p \notin granted /\ \A v \in Worker : pc[v] \in Crediting => cur[v] # p
      BY <1>t, <1>4 DEF Inv, Credits, Types
    <3>2. \A q \in granted : pay'[q].credited > 0
      BY <1>t, <1>2, <2>2 DEF Inv, Credits, Types
    <3>3. ASSUME NEW v \in Worker, pc'[v] \in Crediting
          PROVE  cur'[v] \in Payment /\ pay'[cur'[v]].credited > 0 /\ cur'[v] \notin granted
      <4>1. CASE v = w
        BY <1>t, <2>2, <2>4, <3>1, <4>1
      <4>2. CASE v # w
        BY <2>2, <2>3, <2>4, <3>1, <3>3, <4>2 DEF Inv, Credits
      <4>3. QED
        BY Zenon, <4>1, <4>2
    <3>4. ASSUME NEW u \in Worker, NEW v \in Worker, pc'[u] \in Crediting, pc'[v] \in Crediting,
                 cur'[u] = cur'[v]
          PROVE  u = v
      BY Zenon, <2>3, <2>4, <3>1, <3>4 DEF Inv, Credits
    <3>5. QED
      BY Zenon, <1>2, <3>2, <3>3, <3>4 DEF Credits
  <2>9. Refunds'
    BY <1>t, <1>2, <2>2, <2>3, <2>4 DEF Inv, Refunds, Revoking, Types
  <2>10. Paid'
    BY Zenon, <1>2, <2>3 DEF Inv, Paid, Granting
  <2>11. QED
    BY Zenon, <2>5, <2>6, <2>7, <2>8, <2>9, <2>10 DEF Inv
<1>5. QED
  BY Zenon, <1>3, <1>4

\* MarkPaymentRevoked compares likewise.
LEMMA MarkRevokedKeepsInv ==
  ASSUME Inv, NEW w \in Worker, MarkRevoked(w)
  PROVE  Inv'
<1>t. Types
  BY Zenon DEF Inv
<1>1. PICK p \in Payment :
        IF pay[p].credited > 0 /\ ~pay[p].revoked
        THEN /\ pay' = [pay EXCEPT ![p].revoked = TRUE]
             /\ cur' = [cur EXCEPT ![w] = p]
             /\ Goto(w, "revoke")
        ELSE Reconciled(w) /\ UNCHANGED <<pay, cur>>
  BY Zenon DEF MarkRevoked
<1>2. UNCHANGED <<now, acct, step, lock, snap, granted, returned>>
  BY Zenon DEF MarkRevoked, history
<1>3. CASE ~(pay[p].credited > 0 /\ ~pay[p].revoked)
  <2>1. Going(w)
    BY Zenon, <1>t, <1>1, <1>2, <1>3, ReconciledGoes, SameKeepsMarks DEF Going
  <2>2. QED
    BY Zenon, <2>1, GoingKeepsInv
<1>4. CASE pay[p].credited > 0 /\ ~pay[p].revoked
  <2>1. /\ pay' = [pay EXCEPT ![p].revoked = TRUE] /\ cur' = [cur EXCEPT ![w] = p]
        /\ pc' = [pc EXCEPT ![w] = "revoke"]
    BY Zenon, <1>1, <1>4 DEF Goto
  <2>2. /\ DOMAIN pay' = Payment /\ pay'[p].revoked = TRUE
        /\ \A q \in Payment : DOMAIN pay'[q] = {"status", "ext", "at", "credited", "revoked"}
        /\ \A q \in Payment : q # p => pay'[q] = pay[q]
        /\ \A q \in Payment : pay'[q].credited = pay[q].credited
    BY Zenon, <1>t, <2>1 DEF Types
  <2>3. /\ pc' \in [Worker -> Label] /\ pc'[w] = "revoke"
        /\ \A v \in Worker : v # w => pc'[v] = pc[v]
    BY Zenon, <1>t, <2>1 DEF Types, Label
  <2>4. /\ cur' \in [Worker -> 0..Payments] /\ cur'[w] = p
        /\ \A v \in Worker : v # w => cur'[v] = cur[v]
    BY <1>t, <2>1, AccountsAssumption DEF Types, Payment
  <2>5. Types'
    BY Zenon, <1>t, <1>2, <2>2, <2>3, <2>4 DEF Types
  <2>6. Locks'
    BY Zenon, <1>2, <2>3 DEF Inv, Locks, Inside
  <2>7. Snaps'
    BY Zenon, <1>2, <2>3 DEF Inv, Snaps, Writes
  <2>8. Refunds'
    <3>1. p \notin returned /\ \A v \in Worker : pc[v] \in Revoking => cur[v] # p
      BY Zenon, <1>t, <1>4 DEF Inv, Refunds, Types
    <3>2. \A q \in returned : pay'[q].revoked
      BY Zenon, <1>t, <1>2, <2>2 DEF Inv, Refunds, Types
    <3>3. ASSUME NEW v \in Worker, pc'[v] \in Revoking
          PROVE  cur'[v] \in Payment /\ pay'[cur'[v]].revoked /\ cur'[v] \notin returned
      <4>1. CASE v = w
        BY Zenon, <1>t, <2>2, <2>4, <3>1, <4>1
      <4>2. CASE v # w
        BY <2>2, <2>3, <2>4, <3>1, <3>3, <4>2 DEF Inv, Refunds
      <4>3. QED
        BY Zenon, <4>1, <4>2
    <3>4. ASSUME NEW u \in Worker, NEW v \in Worker, pc'[u] \in Revoking, pc'[v] \in Revoking,
                 cur'[u] = cur'[v]
          PROVE  u = v
      BY Zenon, <2>3, <2>4, <3>1, <3>4 DEF Inv, Refunds
    <3>5. QED
      BY Zenon, <1>2, <3>2, <3>3, <3>4 DEF Refunds
  <2>9. Credits'
    BY <1>t, <1>2, <2>2, <2>3, <2>4 DEF Inv, Credits, Crediting, Types
  <2>10. Paid'
    BY Zenon, <1>2, <2>3 DEF Inv, Paid, Granting
  <2>11. QED
    BY Zenon, <2>5, <2>6, <2>7, <2>8, <2>9, <2>10 DEF Inv
<1>5. QED
  BY Zenon, <1>3, <1>4

-----------------------------------------------------------------------------
\* Taking the lock and reading the account.

Locking(w, l, s) ==
  /\ lock = {} /\ lock' = {w}
  /\ pc' = [pc EXCEPT ![w] = l] /\ snap' = [snap EXCEPT ![w] = s]
  /\ s.until = acct.until
  /\ IF l = "write" THEN acct.state # "disabled" ELSE s = acct
  /\ l = "extend" => pc[w] = "grant"
  /\ l = "reduce" => pc[w] = "revoke"
  /\ UNCHANGED <<now, acct, step, pay, cur, granted, returned>>

\* What is read under the lock is what the row holds.
LEMMA LockingKeepsInv ==
  ASSUME Inv, NEW w \in Worker, NEW l \in Writes \union {"write"}, NEW s \in Account,
         Locking(w, l, s)
  PROVE  Inv'
<1>t. Types
  BY Zenon DEF Inv
<1>1. /\ pc' = [pc EXCEPT ![w] = l] /\ snap' = [snap EXCEPT ![w] = s]
      /\ s.until = acct.until
      /\ IF l = "write" THEN acct.state # "disabled" ELSE s = acct
      /\ l = "extend" => pc[w] = "grant"
      /\ l = "reduce" => pc[w] = "revoke"
  BY Zenon DEF Locking
<1>2. /\ l \in Label /\ l \in Inside /\ l \notin Granting
      /\ l \in Crediting => pc[w] \in Crediting
      /\ l \in Revoking => pc[w] \in Revoking
      /\ l \in Writes => l # "write"
  BY Zenon, <1>1 DEF Label, Inside, Writes, Crediting, Revoking, Granting
<1>3. /\ pc' \in [Worker -> Label] /\ pc'[w] = l /\ \A v \in Worker : v # w => pc'[v] = pc[v]
      /\ snap' \in [Worker -> Account] /\ snap'[w] = s
      /\ \A v \in Worker : v # w => snap'[v] = snap[v]
  BY Zenon, <1>t, <1>1, <1>2 DEF Types
<1>4. Types'
  BY Zenon, <1>t, <1>3 DEF Types, Locking
<1>5. Locks'
  BY Zenon, <1>2, <1>3 DEF Inv, Locks, Locking
<1>6. Snaps'
  BY SMTT(30), <1>1, <1>2, <1>3 DEF Inv, Snaps, Locking
<1>7. Credits' /\ Refunds'
  BY <1>2, <1>3 DEF Inv, Credits, Refunds, Locking
<1>8. Paid'
  BY Zenon, <1>2, <1>3 DEF Inv, Paid, Locking
<1>9. QED
  BY Zenon, <1>4, <1>5, <1>6, <1>7, <1>8 DEF Inv

\* Evaluate reads the row back under the lock and may keep it to store a state.
LEMMA SettleKeepsInv ==
  ASSUME Inv, NEW w \in Worker, Settle(w)
  PROVE  Inv'
<1>t. Types
  BY Zenon DEF Inv
<1>1. CASE acct.state \in {"disabled", Settled}
  <2>1. \E l \in Free : pc' = [pc EXCEPT ![w] = l]
    BY Zenon, <1>1, ReturnGoes DEF Settle
  <2>2. Going(w)
    BY Zenon, <1>t, <1>1, <2>1, SameKeepsMarks DEF Settle, Going, rows, history
  <2>3. QED
    BY Zenon, <2>2, GoingKeepsInv
<1>2. CASE acct.state \notin {"disabled", Settled}
  <2>1. [acct EXCEPT !.state = Settled] \in Account /\ [acct EXCEPT !.state = Settled].until = acct.until
    BY Zenon, <1>t DEF Types, Account, Settled
  <2> DEFINE s == [acct EXCEPT !.state = Settled]
  <2>2. Locking(w, "write", s)
    BY Zenon, <1>2, <2>1 DEF Settle, Lock, Goto, Locking, rows, history
  <2>3. s \in Account
    BY Zenon, <2>1
  <2>4. QED
    BY Zenon, <2>2, <2>3, LockingKeepsInv
<1>3. QED
  BY Zenon, <1>1, <1>2

\* The others that take the lock keep it until they have written.
LEMMA AcquireKeepsInv ==
  ASSUME Inv, NEW w \in Worker,
         GrantAccess(w) \/ RevokeAccess(w) \/ Operate(w, "toggle") \/ Operate(w, "adjust")
  PROVE  Inv'
<1>t. acct \in Account
  BY Zenon DEF Inv, Types
<1>1. CASE GrantAccess(w)
  <2>1. Locking(w, "extend", acct)
    BY Zenon, <1>1 DEF GrantAccess, Lock, Read, At, Goto, Locking, rows, history
  <2>2. QED
    BY Zenon, <1>t, <2>1, LockingKeepsInv DEF Writes
<1>2. CASE RevokeAccess(w)
  <2>1. Locking(w, "reduce", acct)
    BY Zenon, <1>2 DEF RevokeAccess, Lock, Read, At, Goto, Locking, rows, history
  <2>2. QED
    BY Zenon, <1>t, <2>1, LockingKeepsInv DEF Writes
<1>3. CASE Operate(w, "toggle")
  <2>1. Locking(w, "toggle", acct)
    BY Zenon, <1>3 DEF Operate, Lock, Read, At, Goto, Locking, rows, history
  <2>2. QED
    BY Zenon, <1>t, <2>1, LockingKeepsInv DEF Writes
<1>4. CASE Operate(w, "adjust")
  <2>1. Locking(w, "adjust", acct)
    BY Zenon, <1>4 DEF Operate, Lock, Read, At, Goto, Locking, rows, history
  <2>2. QED
    BY Zenon, <1>t, <2>1, LockingKeepsInv DEF Writes
<1>5. QED
  BY Zenon, <1>1, <1>2, <1>3, <1>4


-----------------------------------------------------------------------------
\* Writing the account and giving the lock up.

Writing(w) ==
  /\ pc[w] \in Inside
  /\ \E l \in Free : pc' = [pc EXCEPT ![w] = l]
  /\ lock' = lock \ {w}
  /\ \E s \in Account : snap' = [snap EXCEPT ![w] = s]
  /\ cur' \in {cur, [cur EXCEPT ![w] = 0]}
  /\ acct' \in Account /\ (acct'.until = NoExpiry => acct.until = NoExpiry)
  /\ \/ returned' = returned
     \/ pc[w] = "reduce" /\ returned' = returned \union {cur[w]}
  /\ UNCHANGED <<now, step, pay, granted>>

\* The one goroutine in the lock may change the row: no other has read it.
LEMMA WritingKeepsInv ==
  ASSUME Inv, NEW w \in Worker, Writing(w)
  PROVE  Inv'
<1>t. Types
  BY Zenon DEF Inv
<1>1. PICK l \in Free : pc' = [pc EXCEPT ![w] = l]
  BY Zenon DEF Writing
<1>2. PICK s \in Account : snap' = [snap EXCEPT ![w] = s]
  BY ZenonT(60) DEF Writing
<1>3. /\ l \in Label /\ l \notin Inside /\ l \notin Writes /\ l # "write" /\ l \notin Crediting
      /\ l \notin Revoking /\ l \notin Granting
  BY Zenon DEF Free, Inside, Writes
<1>4. /\ pc' \in [Worker -> Label] /\ pc'[w] = l /\ \A v \in Worker : v # w => pc'[v] = pc[v]
      /\ snap' \in [Worker -> Account]
  BY Zenon, <1>t, <1>1, <1>2, <1>3 DEF Types
<1>5. cur' \in [Worker -> 0..Payments] /\ \A v \in Worker : v # w => cur'[v] = cur[v]
  BY SMTT(30), <1>t, AccountsAssumption DEF Types, Writing
<1>6. \A v \in Worker : pc'[v] \notin Inside
  BY <1>3, <1>4 DEF Inv, Locks, Writing
<1>7. /\ returned' \subseteq Payment /\ \A p \in returned' : pay[p].revoked
      /\ \A v \in Worker : v # w /\ pc[v] \in Revoking => cur[v] \notin returned'
  <2>1. CASE returned' = returned
    BY Zenon, <1>t, <2>1 DEF Inv, Refunds, Types
  <2>2. CASE pc[w] = "reduce" /\ returned' = returned \union {cur[w]}
    BY Zenon, <1>t, <2>2 DEF Inv, Refunds, Types, Revoking
  <2>3. QED
    BY Zenon, <2>1, <2>2 DEF Writing
<1>8. Types'
  BY Zenon, <1>t, <1>4, <1>5, <1>7 DEF Types, Writing
<1>9. Locks'
  BY Zenon, <1>6 DEF Inv, Locks, Writing
<1>10. Snaps'
  BY Zenon, <1>6 DEF Snaps, Inside, Writes
<1>11. Credits'
  BY SMTT(30), <1>3, <1>4, <1>5 DEF Inv, Credits, Writing
<1>12. Refunds'
  BY SMTT(30), <1>3, <1>4, <1>5, <1>7 DEF Inv, Refunds, Writing
<1>13. Paid'
  BY Zenon, <1>3, <1>4 DEF Inv, Paid, Writing
<1>14. QED
  BY Zenon, <1>8, <1>9, <1>10, <1>11, <1>12, <1>13 DEF Inv

\* The ends the account service computes.
LEMMA Ends ==
  ASSUME Types, NEW end \in Int \union {NoExpiry}, NEW days \in Nat
  PROVE  /\ Ledger!Extended(end, days) \in Int \union {NoExpiry}
         /\ Ledger!Extended(end, days) = NoExpiry => days = 0
         /\ Ledger!Reduced(end, days) \in Int
         /\ \A d \in Int : end # NoExpiry => Ledger!Adjusted(end, d) \in Int
         /\ NoExpiry \notin Int
<1>1. now \in Int /\ NoExpiry \notin Int
  BY AccountsAssumption DEF Types
<1>2. Ledger!Extended(end, days) \in Int \union {NoExpiry}
      /\ (Ledger!Extended(end, days) = NoExpiry => days = 0)
  <2>1. CASE days = 0
    BY Zenon, <2>1 DEF Ledger!Extended
  <2>2. CASE days # 0
    <3>1. (IF end = NoExpiry \/ end <= now THEN now ELSE end) \in Int
      BY Zenon, <1>1
    <3>2. Ledger!Extended(end, days) \in Int
      BY <2>2, <3>1 DEF Ledger!Extended
    <3>3. QED
      BY Zenon, <1>1, <3>2
  <2>3. QED
    BY Zenon, <2>1, <2>2
<1>3. Ledger!Reduced(end, days) \in Int
  BY <1>1 DEF Ledger!Reduced
<1>4. ASSUME NEW d \in Int, end # NoExpiry
      PROVE  Ledger!Adjusted(end, d) \in Int
  BY <1>1, <1>4 DEF Ledger!Adjusted
<1>5. QED
  BY Zenon, <1>1, <1>2, <1>3, <1>4

\* A row with another access end is a row.
LEMMA WithEnd ==
  ASSUME NEW a \in Account, NEW end \in Int \union {NoExpiry}
  PROVE  /\ [a EXCEPT !.until = end] \in Account /\ [a EXCEPT !.until = end].until = end
         /\ [a EXCEPT !.until = end].state = a.state
  BY Zenon DEF Account

\* Reduce takes the payment's days back from the end in the row.
LEMMA ReduceWrites ==
  ASSUME Inv, NEW w \in Worker, Reduce(w)
  PROVE  Writing(w) /\ Ledger!TakeBack(cur[w]) /\ cur[w] \in Payment /\ acct'.state = acct.state
<1>t. Types
  BY Zenon DEF Inv
<1>1. pc[w] = "reduce"
  BY Zenon DEF Reduce, At
<1>2. /\ snap[w] = acct /\ cur[w] \in Payment /\ cur[w] \notin returned
      /\ acct \in Account /\ acct.until \in Int \union {NoExpiry} /\ Days[cur[w]] \in Nat
  BY Zenon, <1>t, <1>1, AccountsAssumption DEF Inv, Snaps, Writes, Refunds, Revoking, Types, Account
<1> DEFINE end == Ledger!Reduced(acct.until, Days[cur[w]])
<1>3. end \in Int /\ NoExpiry \notin Int
  BY Zenon, <1>t, <1>2, Ends
<1>4. acct' = [acct EXCEPT !.until = end]
  BY Zenon, <1>2 DEF Reduce
<1>5. acct' \in Account /\ acct'.until = end /\ acct'.state = acct.state
  <2> HIDE DEF end
  <2>1. QED
    BY <1>2, <1>3, <1>4, WithEnd
<1>6. /\ returned' = returned \union {cur[w]} /\ lock' = lock \ {w}
      /\ snap' = [snap EXCEPT ![w] = acct'] /\ cur' = [cur EXCEPT ![w] = 0]
      /\ UNCHANGED <<now, step, pay, granted>>
  BY Zenon DEF Reduce, Unlock
<1>7. \E l \in Free : pc' = [pc EXCEPT ![w] = l]
  BY Zenon, FreeLabels DEF Reduce, Goto
<1>8. Writing(w)
  <2> HIDE DEF end
  <2>1. QED
    BY Zenon, <1>1, <1>3, <1>5, <1>6, <1>7 DEF Writing, Inside
<1>9. Ledger!TakeBack(cur[w])
  BY Zenon, <1>2, <1>5, <1>6 DEF Ledger!TakeBack
<1>10. QED
  BY Zenon, <1>2, <1>5, <1>8, <1>9

\* WriteState changes the state of an account that is not disabled.
LEMMA WriteStateWrites ==
  ASSUME Inv, NEW w \in Worker, WriteState(w)
  PROVE  Writing(w) /\ acct'.until = acct.until /\ acct.state # "disabled"
<1>t. Types /\ Nobody \in Account
  BY Zenon DEF Inv, Nobody, Account
<1>1. pc[w] = "write" /\ acct' = snap[w]
  BY Zenon DEF WriteState, At
<1>2. acct' \in Account /\ acct'.until = acct.until /\ acct.state # "disabled"
  BY Zenon, <1>t, <1>1 DEF Inv, Snaps, Types
<1>3. \E l \in Free : pc' = [pc EXCEPT ![w] = l]
  BY Zenon, ReturnGoes DEF WriteState
<1>4. Writing(w)
  BY Zenon, <1>t, <1>1, <1>2, <1>3 DEF WriteState, Unlock, Forget, Writing, Inside, history
<1>5. QED
  BY Zenon, <1>2, <1>4

\* SetDisabled changes the state and not the access end.
LEMMA ToggleWrites ==
  ASSUME Inv, NEW w \in Worker, Toggle(w)
  PROVE  Writing(w) /\ acct'.until = acct.until
<1>t. Types /\ Nobody \in Account
  BY Zenon DEF Inv, Nobody, Account
<1>1. pc[w] = "toggle" /\ snap[w] = acct /\ acct \in Account
  BY Zenon, <1>t DEF Toggle, At, Inv, Snaps, Writes, Types
<1>2. PICK to \in {"pending", "disabled"} : acct' = [acct EXCEPT !.state = to]
  BY Zenon, <1>1 DEF Toggle
<1>3. acct' \in Account /\ acct'.until = acct.until
  BY Zenon, <1>1, <1>2 DEF Account
<1>4. \E l \in Free : pc' = [pc EXCEPT ![w] = l]
  BY Zenon, FreeLabels DEF Toggle, Goto
<1>5. \E s \in Account : snap' = [snap EXCEPT ![w] = s]
  BY Zenon, <1>t, <1>3 DEF Toggle, Forget
<1>6. Writing(w)
  BY Zenon, <1>1, <1>3, <1>4, <1>5 DEF Toggle, Unlock, Writing, Inside, history
<1>7. QED
  BY Zenon, <1>3, <1>6

\* AdjustAccess moves the end in the row, or does nothing to one without expiry.
LEMMA AdjustWrites ==
  ASSUME Inv, NEW w \in Worker, AdjustAccess(w)
  PROVE  /\ Writing(w) /\ acct'.state = acct.state
         /\ acct' = acct \/ \E d \in OperatorDays : Ledger!Adjust(d)
<1>t. Types /\ Nobody \in Account
  BY Zenon DEF Inv, Nobody, Account
<1>1. /\ pc[w] = "adjust" /\ snap[w] = acct /\ acct \in Account
      /\ acct.until \in Int \union {NoExpiry}
  BY Zenon, <1>t DEF AdjustAccess, At, Inv, Snaps, Writes, Types, Account
<1>2. \E l \in Free : pc' = [pc EXCEPT ![w] = l]
  BY Zenon, FreeLabels DEF AdjustAccess, Goto
<1>3. lock' = lock \ {w} /\ UNCHANGED <<now, step, pay, cur, granted, returned>>
  BY Zenon DEF AdjustAccess, Unlock, history
<1>4. CASE acct.until = NoExpiry
  <2>1. acct' = acct /\ snap' = [snap EXCEPT ![w] = Nobody]
    BY Zenon, <1>1, <1>4 DEF AdjustAccess, Forget
  <2>2. QED
    BY Zenon, <1>t, <1>1, <1>2, <1>3, <2>1 DEF Writing, Inside
<1>5. CASE acct.until # NoExpiry
  <2>1. PICK d \in OperatorDays : acct' = [acct EXCEPT !.until = Ledger!Adjusted(acct.until, d)]
    BY Zenon, <1>1, <1>5 DEF AdjustAccess
  <2> DEFINE end == Ledger!Adjusted(acct.until, d)
  <2>2. end \in Int /\ NoExpiry \notin Int
    <3>1. d \in Int /\ 0 \in Nat
      BY Zenon, AccountsAssumption
    <3>2. QED
      BY Zenon, <1>t, <1>1, <1>5, <3>1, Ends
  <2>3. acct' \in Account /\ acct'.until = end /\ acct'.state = acct.state
    <3>1. acct' = [acct EXCEPT !.until = end]
      BY Zenon, <2>1
    <3> HIDE DEF end
    <3>2. QED
      BY Zenon, <1>1, <2>2, <3>1, WithEnd
  <2>4. snap' = [snap EXCEPT ![w] = acct']
    BY Zenon, <1>1, <1>5 DEF AdjustAccess
  <2>5. Writing(w)
    <3> HIDE DEF end
    <3>1. QED
      BY Zenon, <1>1, <1>2, <1>3, <2>2, <2>3, <2>4 DEF Writing, Inside
  <2>6. Ledger!Adjust(d)
    BY Zenon, <1>3, <1>5, <2>3 DEF Ledger!Adjust
  <2>7. QED
    BY Zenon, <2>3, <2>5, <2>6
<1>6. QED
  BY Zenon, <1>4, <1>5

-----------------------------------------------------------------------------
\* Extend adds the payment's days to the end in the row, and keeps the lock.
LEMMA ExtendGrants ==
  ASSUME Inv, NEW w \in Worker, Extend(w)
  PROVE  /\ Ledger!Grant(cur[w]) /\ cur[w] \in Payment
         /\ acct' \in Account /\ acct'.state = acct.state
         /\ acct'.until = NoExpiry => Days[cur[w]] = 0
<1>t. Types
  BY Zenon DEF Inv
<1>1. pc[w] = "extend"
  BY Zenon DEF Extend, At
<1>2. /\ snap[w] = acct /\ cur[w] \in Payment /\ cur[w] \notin granted
      /\ acct \in Account /\ acct.until \in Int \union {NoExpiry} /\ Days[cur[w]] \in Nat
  BY Zenon, <1>t, <1>1, AccountsAssumption DEF Inv, Snaps, Writes, Credits, Crediting, Types, Account
<1> DEFINE end == Ledger!Extended(acct.until, Days[cur[w]])
<1>3. end \in Int \union {NoExpiry} /\ (end = NoExpiry => Days[cur[w]] = 0)
  BY Zenon, <1>t, <1>2, Ends
<1>4. acct' = [acct EXCEPT !.until = end]
  BY Zenon, <1>2 DEF Extend
<1>5. acct' \in Account /\ acct'.until = end /\ acct'.state = acct.state
  <2> HIDE DEF end
  <2>1. QED
    BY Zenon, <1>2, <1>3, <1>4, WithEnd
<1>6. Ledger!Grant(cur[w])
  BY Zenon, <1>2, <1>5 DEF Ledger!Grant, Extend
<1>7. QED
  BY Zenon, <1>2, <1>3, <1>5, <1>6

\* The payment now counts as granted, and its goroutine no longer credits it.
LEMMA ExtendKeepsInv ==
  ASSUME Inv, NEW w \in Worker, Extend(w)
  PROVE  Inv'
<1>t. Types /\ Nobody \in Account
  BY Zenon DEF Inv, Nobody, Account
<1>1. /\ pc[w] = "extend" /\ pc' = [pc EXCEPT ![w] = "close"] /\ granted' = granted \union {cur[w]}
      /\ snap' = [snap EXCEPT ![w] = Nobody] /\ cur' = [cur EXCEPT ![w] = 0]
      /\ UNCHANGED <<now, step, pay, lock, returned>>
  BY Zenon DEF Extend, At, Forget, Goto
<1>2. /\ pc' \in [Worker -> Label] /\ pc'[w] = "close" /\ \A v \in Worker : v # w => pc'[v] = pc[v]
      /\ snap' \in [Worker -> Account]
  BY Zenon, <1>t, <1>1 DEF Types, Label
<1>3. cur' \in [Worker -> 0..Payments] /\ \A v \in Worker : v # w => cur'[v] = cur[v]
  BY <1>t, <1>1, AccountsAssumption DEF Types
<1>4. /\ cur[w] \in Payment /\ pay[cur[w]].credited > 0
      /\ \A v \in Worker : v # w /\ pc[v] \in Crediting => cur[v] # cur[w]
  BY Zenon, <1>1 DEF Inv, Credits, Crediting
<1>5. w \in lock /\ \A v \in Worker : v # w => pc[v] \notin Inside
  BY Zenon, <1>1 DEF Inv, Locks, Inside
<1>6. Types'
  BY Zenon, <1>t, <1>1, <1>2, <1>3, <1>4, ExtendGrants DEF Types
<1>7. Locks'
  BY Zenon, <1>1, <1>2, <1>5 DEF Inv, Locks
<1>8. Snaps'
  BY Zenon, <1>2, <1>5 DEF Snaps, Inside, Writes
<1>9. Credits'
  <2>1. "close" \notin Crediting
    BY Zenon DEF Crediting
  <2>2. QED
    BY Zenon, <1>1, <1>2, <1>3, <1>4, <2>1 DEF Inv, Credits
<1>10. Refunds'
  <2>1. "close" \notin Revoking
    BY Zenon DEF Revoking
  <2>2. QED
    BY <1>1, <1>2, <1>3, <2>1 DEF Inv, Refunds
<1>11. Paid'
  BY Zenon, <1>1, <1>4, ExtendGrants DEF Paid
<1>12. QED
  BY Zenon, <1>6, <1>7, <1>8, <1>9, <1>10, <1>11 DEF Inv

-----------------------------------------------------------------------------
\* Closing the step, under the lock and outside it.

Closing(w) ==
  /\ pc[w] \in Granting
  /\ \/ \E l \in {"confirm", "confirming"} : pc' = [pc EXCEPT ![w] = l]
     \/ pc[w] = "close" /\ pc' = [pc EXCEPT ![w] = "closing"] /\ lock' = lock
  /\ lock' \in {lock, lock \ {w}}
  /\ UNCHANGED <<now, acct, pay, snap, cur, granted, returned>>

\* The step is closed only after the grant.
LEMMA ClosingKeepsInv ==
  ASSUME Inv, NEW w \in Worker, Closing(w)
  PROVE  Inv'
<1>t. Types
  BY Zenon DEF Inv
<1>1. PICK l \in {"closing", "confirm", "confirming"} :
         /\ pc' = [pc EXCEPT ![w] = l]
         /\ l = "closing" => pc[w] = "close" /\ lock' = lock
  BY Zenon DEF Closing
<1>2. /\ l \in Label /\ l \notin Writes /\ l # "write" /\ l \notin Crediting /\ l \notin Revoking
      /\ l \in Inside => pc[w] \in Inside /\ lock' = lock
  BY Zenon, <1>1 DEF Label, Inside, Writes, Crediting, Revoking
<1>3. pc' \in [Worker -> Label] /\ pc'[w] = l /\ \A v \in Worker : v # w => pc'[v] = pc[v]
  BY Zenon, <1>t, <1>1, <1>2 DEF Types
<1>4. Types'
  BY Zenon, <1>t, <1>3 DEF Types, Closing
<1>5. Locks'
  BY Zenon, <1>2, <1>3 DEF Inv, Locks, Closing
<1>6. Snaps' /\ Credits' /\ Refunds'
  BY Zenon, <1>2, <1>3 DEF Inv, Snaps, Credits, Refunds, Closing
<1>7. Paid'
  BY Zenon, <1>3 DEF Inv, Paid, Closing
<1>8. QED
  BY Zenon, <1>4, <1>5, <1>6, <1>7 DEF Inv

\* closeStep, under the lock in GrantAccess and outside it in Evaluate.
LEMMA CloseKeepsInv ==
  ASSUME Inv, NEW w \in Worker, CloseRead(w) \/ CloseWrite(w) \/ ConfirmRead(w)
  PROVE  Inv'
<1>t. Types
  BY Zenon DEF Inv
<1>1. /\ pc[w] \in Granting /\ lock' \in {lock, lock \ {w}}
      /\ UNCHANGED <<now, acct, pay, snap, cur, granted, returned>>
  BY Zenon DEF CloseRead, CloseWrite, ConfirmRead, At, Unlock, Granting, rows, history
<1>2. CASE Closing(w)
  BY Zenon, <1>2, ClosingKeepsInv
<1>3. CASE \E l \in Free : pc' = [pc EXCEPT ![w] = l]
  <2>1. Going(w)
    BY Zenon, <1>t, <1>1, <1>3, SameKeepsMarks DEF Going
  <2>2. QED
    BY Zenon, <2>1, GoingKeepsInv
<1>4. CASE Credited(w)
  BY Zenon, <1>1, <1>2, <1>3, <1>4, CreditedGoes DEF Closing
<1>5. CASE ~Credited(w)
  <2>1. CASE CloseRead(w)
    BY Zenon, <1>1, <1>2, <1>5, <2>1 DEF CloseRead, At, Goto, Closing
  <2>2. CASE CloseWrite(w)
    BY Zenon, <1>5, <2>2 DEF CloseWrite
  <2>3. CASE ConfirmRead(w)
    BY Zenon, <1>1, <1>2, <1>3, <2>3, FreeLabels DEF ConfirmRead, Goto, Closing
  <2>4. QED
    BY Zenon, <2>1, <2>2, <2>3
<1>6. QED
  BY Zenon, <1>4, <1>5

-----------------------------------------------------------------------------
\* The invariant, and what a step may do to the account.

\* A registered account nobody has paid for satisfies the invariant.
LEMMA InitInv == Init => Inv
<1> SUFFICES ASSUME Init PROVE Inv
  OBVIOUS
<1>1. Types
  <2>1. Nobody \in Account /\ "idle" \in Label
    BY Zenon DEF Nobody, Account, Label
  <2>2. /\ now \in Nat \ {0} /\ acct \in Account /\ pc \in [Worker -> Label]
        /\ snap \in [Worker -> Account] /\ cur \in [Worker -> 0..Payments] /\ lock \subseteq Worker
        /\ granted \subseteq Payment /\ returned \subseteq Payment
    BY <2>1, AccountsAssumption DEF Init
  <2>3. /\ DOMAIN NoRow = {"status", "ext", "at", "credited", "revoked"}
        /\ NoRow.credited \in Nat /\ NoRow.revoked \in BOOLEAN
    BY Zenon DEF NoRow
  <2>4. DOMAIN pay = Payment /\ \A p \in Payment : pay[p] = NoRow
    BY Zenon DEF Init
  <2>5. QED
    BY Zenon, <2>2, <2>3, <2>4 DEF Types
<1>2. \A w \in Worker : pc[w] = "idle"
  BY Zenon DEF Init
<1>3. Locks /\ Snaps /\ Credits /\ Refunds /\ Paid
  BY Zenon, <1>2 DEF Init, Locks, Snaps, Credits, Refunds, Paid, Inside, Writes, Crediting, Revoking, Granting
<1>4. QED
  BY Zenon, <1>1, <1>3 DEF Inv

\* A restart forgets every goroutine and keeps the rows.
LEMMA RestartKeepsInv ==
  ASSUME Inv, Restart
  PROVE  Inv'
<1>1. /\ pc' = [w \in Worker |-> "idle"] /\ snap' = [w \in Worker |-> Nobody]
      /\ cur' = [w \in Worker |-> 0] /\ lock' = {}
      /\ UNCHANGED <<now, acct, step, pay, granted, returned>>
  BY Zenon DEF Restart, rows, history
<1>2. Types'
  BY <1>1, AccountsAssumption DEF Inv, Types, Nobody, Account, Label
<1>3. \A w \in Worker : pc'[w] = "idle"
  BY Zenon, <1>1
<1>4. Locks' /\ Snaps' /\ Credits' /\ Refunds' /\ Paid'
  BY Zenon, <1>1, <1>3 DEF Inv, Locks, Snaps, Credits, Refunds, Paid, Inside, Writes, Crediting, Revoking, Granting
<1>5. QED
  BY Zenon, <1>2, <1>4 DEF Inv

LedgerStep == [Ledger!Next]_<<now, acct.until, granted, returned>>
Disabling == acct.state = "disabled" /\ acct'.state # "disabled" => \E w \in Worker : Toggle(w)

\* A step that leaves the account alone is a stutter of the ledger.
LEMMA AccountAlone ==
  ASSUME UNCHANGED <<now, acct, granted, returned>>
  PROVE  LedgerStep /\ Disabling
  BY Zenon DEF LedgerStep, Disabling

\* A grant or a return that leaves the account's state alone is a step of the ledger.
LEMMA LedgerMoves ==
  ASSUME NEW p \in Payment, Ledger!Grant(p) \/ Ledger!TakeBack(p), acct'.state = acct.state
  PROVE  LedgerStep /\ Disabling
<1>1. Ledger!Next
  BY ZenonT(60) DEF Ledger!Next
<1>2. LedgerStep
  BY ZenonT(60), <1>1 DEF LedgerStep
<1>3. Disabling
  BY ZenonT(60) DEF Disabling
<1>4. QED
  BY Zenon, <1>2, <1>3

\* One step per call a goroutine makes.
LEMMA WorkerStep ==
  ASSUME Inv, NEW w \in Worker, Handler(w) \/ Host(w) \/ Operator(w) \/ Fail(w)
  PROVE  Inv' /\ LedgerStep /\ Disabling
<1>1. CASE Going(w)
  <2>1. UNCHANGED <<now, acct, granted, returned>>
    BY Zenon, <1>1 DEF Going
  <2>2. QED
    BY Zenon, <1>1, <2>1, GoingKeepsInv, AccountAlone
<1>2. CASE Handler(w)
  <2>1. CASE MarkCredited(w)
    <3>1. UNCHANGED <<now, acct, granted, returned>>
      BY Zenon, <2>1 DEF MarkCredited, history
    <3>2. QED
      BY Zenon, <2>1, <3>1, MarkCreditedKeepsInv, AccountAlone
  <2>2. CASE ListEnds(w)
    <3>1. UNCHANGED <<now, acct, granted, returned>>
      BY Zenon, <2>2 DEF ListEnds, rows, history
    <3>2. QED
      BY Zenon, <2>2, <3>1, ListEndsKeepsInv, AccountAlone
  <2>3. QED
    BY Zenon, <1>1, <1>2, <2>1, <2>2, HandlerGoes
<1>3. CASE Passive(w)
  BY Zenon, <1>1, <1>3, PassiveGoes
<1>4. CASE MarkRevoked(w)
  <2>1. UNCHANGED <<now, acct, granted, returned>>
    BY Zenon, <1>4 DEF MarkRevoked, history
  <2>2. QED
    BY Zenon, <1>4, <2>1, MarkRevokedKeepsInv, AccountAlone
<1>5. CASE GrantAccess(w) \/ RevokeAccess(w) \/ Operate(w, "toggle") \/ Operate(w, "adjust")
  <2>1. UNCHANGED <<now, acct, granted, returned>>
    BY Zenon, <1>5 DEF GrantAccess, RevokeAccess, Operate, rows, history
  <2>2. QED
    BY Zenon, <1>5, <2>1, AcquireKeepsInv, AccountAlone
<1>6. CASE Settle(w)
  <2>1. UNCHANGED <<now, acct, granted, returned>>
    BY Zenon, <1>6 DEF Settle, rows, history
  <2>2. QED
    BY Zenon, <1>6, <2>1, SettleKeepsInv, AccountAlone
<1>7. CASE CloseRead(w) \/ CloseWrite(w) \/ ConfirmRead(w)
  <2>1. UNCHANGED <<now, acct, granted, returned>>
    BY Zenon, <1>7 DEF CloseRead, CloseWrite, ConfirmRead, rows, history
  <2>2. QED
    BY Zenon, <1>7, <2>1, CloseKeepsInv, AccountAlone
<1>8. CASE Extend(w)
  <2>1. LedgerStep /\ Disabling
    <3>1. /\ Ledger!Grant(cur[w]) /\ cur[w] \in Payment
          /\ acct'.state = acct.state
      BY ZenonT(60), <1>8, ExtendGrants
    <3>2. QED
      BY ZenonT(60), <3>1, LedgerMoves
  <2>2. QED
    BY Zenon, <1>8, <2>1, ExtendKeepsInv
<1>9. CASE Reduce(w)
  <2>1. LedgerStep /\ Disabling
    <3>1. /\ Ledger!TakeBack(cur[w]) /\ cur[w] \in Payment
          /\ acct'.state = acct.state
      BY ZenonT(60), <1>9, ReduceWrites
    <3>2. QED
      BY ZenonT(60), <3>1, LedgerMoves
  <2>2. QED
    BY Zenon, <1>9, <2>1, ReduceWrites, WritingKeepsInv
<1>10. CASE WriteState(w)
  <2>1. UNCHANGED <<now, granted, returned>>
    BY Zenon, <1>10 DEF WriteState, history
  <2>2. LedgerStep /\ Disabling
    <3>1. acct'.until = acct.until /\ acct.state # "disabled"
      BY Zenon, <1>10, WriteStateWrites
    <3>2. QED
      BY Zenon, <2>1, <3>1 DEF LedgerStep, Disabling
  <2>3. QED
    BY Zenon, <1>10, <2>2, WriteStateWrites, WritingKeepsInv
<1>11. CASE Toggle(w)
  <2>1. UNCHANGED <<now, granted, returned>>
    BY Zenon, <1>11 DEF Toggle, history
  <2>2. LedgerStep /\ Disabling
    <3>1. acct'.until = acct.until
      BY Zenon, <1>11, ToggleWrites
    <3>2. QED
      BY Zenon, <1>11, <2>1, <3>1 DEF LedgerStep, Disabling
  <2>3. QED
    BY Zenon, <1>11, <2>2, ToggleWrites, WritingKeepsInv
<1>12. CASE AdjustAccess(w)
  <2>1. UNCHANGED <<now, granted, returned>>
    BY Zenon, <1>12 DEF AdjustAccess, history
  <2>2. LedgerStep /\ Disabling
    BY Zenon, <1>12, <2>1, AdjustWrites DEF LedgerStep, Disabling, Ledger!Next
  <2>3. QED
    BY Zenon, <1>12, <2>2, AdjustWrites, WritingKeepsInv
<1>13. QED
  BY Zenon, <1>2, <1>3, <1>4, <1>5, <1>6, <1>7, <1>8, <1>9, <1>10, <1>11, <1>12
     DEF Host, Operator, Passive

\* One step of the system.
LEMMA Step ==
  ASSUME Inv, [Next]_vars
  PROVE  Inv' /\ LedgerStep /\ Disabling
<1>1. ASSUME NEW w \in Worker, Handler(w) \/ Host(w) \/ Operator(w) \/ Fail(w)
      PROVE  Inv' /\ LedgerStep /\ Disabling
  BY Zenon, <1>1, WorkerStep
<1>2. ASSUME NEW p \in Payment, Pays(p) \/ Undoes(p)
      PROVE  Inv' /\ LedgerStep /\ Disabling
  <2>1. UNCHANGED <<now, acct, step, lock, pc, snap, cur, pay, granted, returned>>
    BY Zenon, <1>2 DEF Pays, Undoes, rows, thread, history
  <2>2. QED
    BY Zenon, <2>1, StandingKeepsInv, AccountAlone
<1>3. CASE Tick
  <2>1. UNCHANGED <<acct, step, lock, pc, snap, cur, pay, granted, returned>> /\ now' = now + 1
    BY Zenon, <1>3 DEF Tick, rows, thread, history
  <2>2. LedgerStep /\ Disabling
    BY Zenon, <2>1 DEF LedgerStep, Disabling, Ledger!Next, Ledger!Tick
  <2>3. QED
    BY Zenon, <2>1, <2>2, StandingKeepsInv
<1>4. CASE Restart
  <2>1. UNCHANGED <<now, acct, granted, returned>>
    BY Zenon, <1>4 DEF Restart, rows, history
  <2>2. QED
    BY Zenon, <1>4, <2>1, RestartKeepsInv, AccountAlone
<1>5. CASE UNCHANGED vars
  <2>1. UNCHANGED <<now, acct, step, lock, pc, snap, cur, pay, granted, returned>>
    BY Zenon, <1>5 DEF vars, rows, thread, history
  <2>2. QED
    BY Zenon, <2>1, StandingKeepsInv, AccountAlone
<1>6. QED
  BY Zenon, <1>1, <1>2, <1>3, <1>4, <1>5 DEF Next

-----------------------------------------------------------------------------
\* The inductive invariant.
LEMMA Invariant == Spec => []Inv
<1>1. Inv /\ [Next]_vars => Inv'
  BY Zenon, Step
<1>2. QED
  BY InitInv, <1>1, PTL DEF Spec

\* However webhooks, return pages, status checks, the poller, operators, failing
\* calls and restarts meet, the access end of the account row is the ledger's: each
\* purchase extends it at most once (GrantAccess), is taken back at most once
\* (RevokeAccess), and no change overwrites another.
THEOREM LedgerImplemented == Spec => ImplementsLedger
<1>1. Init => Ledger!Init
  BY DEF Init, Nobody, Ledger!Init
<1>2. Inv /\ [Next]_vars => [Ledger!Next]_<<now, acct.until, granted, returned>>
  BY Zenon, Step DEF LedgerStep
<1>3. QED
  BY Invariant, <1>1, <1>2, PTL DEF Spec, ImplementsLedger, Ledger!Spec

\* A grant, a revocation or an evaluation that began before an operator disabled
\* the account does not enable it again (GrantAccess, RevokeAccess, Evaluate and
\* SetDisabled write the row they read under one lock).
THEOREM DisabledStays == Spec => DisabledKept
<1>1. Inv /\ [Next]_vars => [acct.state = "disabled" /\ acct'.state # "disabled" =>
                               \E w \in Worker : Toggle(w)]_vars
  BY Zenon, Step DEF Disabling
<1>2. QED
  BY Invariant, <1>1, PTL DEF Spec, DisabledKept

\* The payment step is done only for an account somebody paid for, and access has
\* no end only if such a plan was bought, wherever GrantAccess is cut short.
THEOREM OnlyPaidCorrect == Spec => []OnlyPaidPasses
<1>1. Inv => OnlyPaidPasses
  BY Zenon DEF Inv, Paid, OnlyPaidPasses
<1>2. QED
  BY Invariant, <1>1, PTL

-----------------------------------------------------------------------------
\* What a mark owes.

\* The payment's days were added, or a goroutine is about to add them; taken back,
\* or a goroutine is about to take them.
Adds(p) == p \in granted \/ \E w \in Worker : pc[w] \in Crediting /\ cur[w] = p
Takes(p) == p \in returned \/ \E w \in Worker : pc[w] \in Revoking /\ cur[w] = p

\* Until something fails, a mark is honoured or about to be.
Owed ==
  /\ faults \in Nat
  /\ faults = 0 => \A p \in Payment : /\ pay[p].credited > 0 => Adds(p)
                                      /\ pay[p].revoked => Takes(p)

\* A failure, after which nothing is owed.
LEMMA FaultOwed ==
  ASSUME Owed, Fault
  PROVE  Owed'
<1>1. faults' \in Nat /\ faults' # 0
  BY DEF Owed, Fault
<1>2. QED
  BY Zenon, <1>1 DEF Owed

\* A step that takes no mark and leaves every goroutine that owes something at it.
LEMMA AsideOwed ==
  ASSUME Owed, MarksKept, UNCHANGED <<granted, returned, faults>>,
         \A v \in Worker : pc[v] \in Crediting => pc'[v] \in Crediting /\ cur'[v] = cur[v],
         \A v \in Worker : pc[v] \in Revoking => pc'[v] \in Revoking /\ cur'[v] = cur[v]
  PROVE  Owed'
<1>1. ASSUME NEW p \in Payment, Adds(p) PROVE Adds(p)'
  BY Zenon, <1>1 DEF Adds
<1>2. ASSUME NEW p \in Payment, Takes(p) PROVE Takes(p)'
  BY Zenon, <1>2 DEF Takes
<1>3. QED
  BY Zenon, <1>1, <1>2 DEF Owed, MarksKept

\* A step of a goroutine that owes nothing.
LEMMA ElsewhereOwed ==
  ASSUME Types, Owed, MarksKept, NEW w \in Worker, NEW l, pc' = [pc EXCEPT ![w] = l],
         cur' \in {cur, [cur EXCEPT ![w] = 0]},
         pc[w] \notin Crediting, pc[w] \notin Revoking, UNCHANGED <<granted, returned, faults>>
  PROVE  Owed'
<1>1. \A v \in Worker : v # w => pc'[v] = pc[v] /\ cur'[v] = cur[v]
  BY Zenon DEF Types
<1>2. QED
  BY Zenon, <1>1, AsideOwed

\* The same for a step that goes to a label nothing is known at.
LEMMA GoingOwed ==
  ASSUME Inv, Owed, NEW w \in Worker, Going(w), faults' = faults,
         pc[w] \notin Crediting, pc[w] \notin Revoking
  PROVE  Owed'
<1>1. PICK l \in Free : pc' = [pc EXCEPT ![w] = l]
  BY Zenon DEF Going
<1>2. QED
  BY Zenon, <1>1, ElsewhereOwed DEF Going, Inv

\* The mark is taken by the goroutine that goes on to honour it.
LEMMA MarkingOwed ==
  ASSUME Inv, Owed, NEW w \in Worker, MarkCredited(w) \/ MarkRevoked(w)
  PROVE  Owed'
<1>t. Types
  BY Zenon DEF Inv
<1>1. /\ pc[w] \in {"reconcile", "unmark"} /\ pc[w] \notin Crediting /\ pc[w] \notin Revoking
      /\ UNCHANGED <<granted, returned, faults>>
  BY Zenon DEF MarkCredited, MarkRevoked, Reconciling, At, Crediting, Revoking, bounds, history
<1>2. CASE Reconciled(w) /\ UNCHANGED <<pay, cur>>
  BY Zenon, <1>t, <1>1, <1>2, ReconciledGoes, SameKeepsMarks, ElsewhereOwed
<1>3. ASSUME NEW p \in Payment, pay' = [pay EXCEPT ![p].credited = now],
             cur' = [cur EXCEPT ![w] = p], pc' = [pc EXCEPT ![w] = "grant"]
      PROVE  Owed'
  <2>1. /\ \A v \in Worker : v # w => pc'[v] = pc[v] /\ cur'[v] = cur[v]
        /\ pc'[w] = "grant" /\ cur'[w] = p
        /\ \A q \in Payment : q # p => pay'[q] = pay[q]
        /\ \A q \in Payment : pay'[q].revoked = pay[q].revoked
    BY Zenon, <1>t, <1>3 DEF Types
  <2>2. ASSUME NEW q \in Payment, Adds(q) PROVE Adds(q)'
    BY Zenon, <1>1, <2>1, <2>2 DEF Adds
  <2>3. ASSUME NEW q \in Payment, Takes(q) PROVE Takes(q)'
    BY Zenon, <1>1, <2>1, <2>3 DEF Takes
  <2>4. Adds(p)'
    BY Zenon, <2>1 DEF Adds, Crediting
  <2>5. QED
    BY Zenon, <1>1, <2>1, <2>2, <2>3, <2>4 DEF Owed
<1>4. ASSUME NEW p \in Payment, pay' = [pay EXCEPT ![p].revoked = TRUE],
             cur' = [cur EXCEPT ![w] = p], pc' = [pc EXCEPT ![w] = "revoke"]
      PROVE  Owed'
  <2>1. /\ \A v \in Worker : v # w => pc'[v] = pc[v] /\ cur'[v] = cur[v]
        /\ pc'[w] = "revoke" /\ cur'[w] = p
        /\ \A q \in Payment : q # p => pay'[q] = pay[q]
        /\ \A q \in Payment : pay'[q].credited = pay[q].credited
    BY Zenon, <1>t, <1>4 DEF Types
  <2>2. ASSUME NEW q \in Payment, Adds(q) PROVE Adds(q)'
    BY Zenon, <1>1, <2>1, <2>2 DEF Adds
  <2>3. ASSUME NEW q \in Payment, Takes(q) PROVE Takes(q)'
    BY Zenon, <1>1, <2>1, <2>3 DEF Takes
  <2>4. Takes(p)'
    BY Zenon, <2>1 DEF Takes, Revoking
  <2>5. QED
    BY Zenon, <1>1, <2>1, <2>2, <2>3, <2>4 DEF Owed
<1>5. CASE MarkCredited(w)
  BY Zenon, <1>2, <1>3, <1>5 DEF MarkCredited, Goto
<1>6. CASE MarkRevoked(w)
  BY Zenon, <1>2, <1>4, <1>6 DEF MarkRevoked, Goto
<1>7. QED
  BY Zenon, <1>5, <1>6

\* Extend and Reduce honour it.
LEMMA HonouringOwed ==
  ASSUME Inv, Owed, NEW w \in Worker, Extend(w) \/ Reduce(w)
  PROVE  Owed'
<1>t. Types
  BY Zenon DEF Inv
<1>1. CASE Extend(w)
  <2>1. /\ pc[w] = "extend" /\ pc' = [pc EXCEPT ![w] = "close"] /\ granted' = granted \union {cur[w]}
        /\ cur' = [cur EXCEPT ![w] = 0] /\ UNCHANGED <<pay, returned, faults>>
    BY Zenon, <1>1 DEF Extend, At, Goto, bounds
  <2>2. \A v \in Worker : v # w => pc'[v] = pc[v] /\ cur'[v] = cur[v]
    BY Zenon, <1>t, <2>1 DEF Types
  <2>3. pc[w] \notin Revoking
    BY Zenon, <2>1 DEF Revoking
  <2>4. ASSUME NEW q \in Payment, Adds(q) PROVE Adds(q)'
    BY Zenon, <2>1, <2>2, <2>3, <2>4 DEF Adds
  <2>5. ASSUME NEW q \in Payment, Takes(q) PROVE Takes(q)'
    BY Zenon, <2>1, <2>2, <2>3, <2>5 DEF Takes
  <2>6. QED
    BY Zenon, <2>1, <2>4, <2>5 DEF Owed
<1>2. CASE Reduce(w)
  <2>1. /\ pc[w] = "reduce" /\ returned' = returned \union {cur[w]}
        /\ cur' = [cur EXCEPT ![w] = 0] /\ UNCHANGED <<pay, granted, faults>>
    BY Zenon, <1>2 DEF Reduce, At, bounds
  <2>2. \A v \in Worker : v # w => pc'[v] = pc[v] /\ cur'[v] = cur[v]
    BY Zenon, <1>t, <1>2, <2>1 DEF Types, Reduce, Goto
  <2>3. pc[w] \notin Crediting
    BY Zenon, <2>1 DEF Crediting
  <2>4. ASSUME NEW q \in Payment, Adds(q) PROVE Adds(q)'
    BY Zenon, <2>1, <2>2, <2>3, <2>4 DEF Adds
  <2>5. ASSUME NEW q \in Payment, Takes(q) PROVE Takes(q)'
    BY Zenon, <2>1, <2>2, <2>3, <2>5 DEF Takes
  <2>6. QED
    BY Zenon, <2>1, <2>4, <2>5 DEF Owed
<1>3. QED
  BY Zenon, <1>1, <1>2

\* Nothing is marked at the start.
LEMMA InitOwed ==
  ASSUME Init
  PROVE  Owed
<1>1. faults \in Nat
  BY DEF Init
<1>2. \A p \in Payment : pay[p].credited = 0 /\ pay[p].revoked = FALSE
  BY Zenon DEF Init, NoRow
<1>3. ~(0 > 0)
  OBVIOUS
<1>4. QED
  BY Zenon, <1>1, <1>2, <1>3 DEF Owed

\* One step of the system keeps what is owed.
LEMMA OwedStep ==
  ASSUME Inv, Owed, [Next]_vars
  PROVE  Owed'
<1>t. Types
  BY Zenon DEF Inv
<1>1. ASSUME NEW w \in Worker, Handler(w), ~MarkCredited(w), ~ListEnds(w), ~OrderFails(w) PROVE Owed'
  <2>1. Going(w)
    BY Zenon, <1>1, HandlerGoes
  <2>2. faults' = faults /\ pc[w] \in {"idle", "order", "record", "reconcile", "store"}
    BY Zenon, <1>1 DEF Handler, Poll, Refresh, Enter, Start, Authorize, Checkout, Reconcile, PlaceOrder,
       Record, Abandon, Skip, Fetch, StoreStatus, Reconciling, At, bounds
  <2>3. QED
    BY Zenon, <2>1, <2>2, GoingOwed DEF Crediting, Revoking
<1>2. ASSUME NEW w \in Worker, ListEnds(w) PROVE Owed'
  <2>1. /\ pc' = pc \/ \E l : pc' = [pc EXCEPT ![w] = l]
        /\ pc[w] = "reconcile" /\ UNCHANGED <<cur, pay, granted, returned, faults>>
    BY Zenon, <1>2 DEF ListEnds, Leave, Goto, At, rows, bounds, history
  <2>2. MarksKept /\ pc[w] \notin Crediting /\ pc[w] \notin Revoking
    BY Zenon, <1>t, <2>1, SameKeepsMarks DEF Crediting, Revoking
  <2>3. QED
    BY Zenon, <1>t, <2>1, <2>2, AsideOwed, ElsewhereOwed
<1>3. ASSUME NEW w \in Worker, Passive(w), ~Fail(w) PROVE Owed'
  <2>1. Going(w)
    BY Zenon, <1>3, PassiveGoes
  <2>2. /\ faults' = faults
        /\ pc[w] \in {"idle", "reconcile", "undo", "reset", "evaluate", "reopen", "list", "confirming", "skip", "skipping"}
    BY Zenon, <1>3 DEF Passive, Refetch, StoreUndone, ResetRevoked, Evaluate, Reopen, CheckStep,
       SkipStep, SkipRead, SkipWrite, ConfirmWrite, Start, Reconciling, At, bounds
  <2>3. QED
    BY Zenon, <2>1, <2>2, GoingOwed DEF Crediting, Revoking
<1>4. ASSUME NEW w \in Worker, GrantAccess(w) \/ RevokeAccess(w) PROVE Owed'
  <2>1. /\ \/ pc[w] = "grant" /\ pc' = [pc EXCEPT ![w] = "extend"]
           \/ pc[w] = "revoke" /\ pc' = [pc EXCEPT ![w] = "reduce"]
        /\ UNCHANGED <<cur, pay, granted, returned, faults>>
    BY Zenon, <1>4 DEF GrantAccess, RevokeAccess, At, Goto, rows, bounds, history
  <2>2. MarksKept
    BY Zenon, <1>t, <2>1, SameKeepsMarks
  <2>3. /\ \A v \in Worker : pc[v] \in Crediting => pc'[v] \in Crediting
        /\ \A v \in Worker : pc[v] \in Revoking => pc'[v] \in Revoking
    BY Zenon, <1>t, <2>1 DEF Types, Crediting, Revoking
  <2>4. QED
    BY Zenon, <2>1, <2>2, <2>3, AsideOwed
<1>5. ASSUME NEW w \in Worker,
             \/ Operate(w, "toggle") \/ Operate(w, "adjust") \/ Toggle(w) \/ AdjustAccess(w)
             \/ Settle(w) \/ WriteState(w) \/ CloseRead(w) \/ CloseWrite(w) \/ ConfirmRead(w)
      PROVE  Owed'
  <2>1. /\ UNCHANGED <<cur, pay, granted, returned, faults>>
        /\ pc[w] \in {"idle", "toggle", "adjust", "settle", "write", "close", "closing", "confirm"}
    BY Zenon, <1>5 DEF Operate, Start, Toggle, AdjustAccess, Settle, WriteState, CloseRead, CloseWrite,
       ConfirmRead, At, rows, bounds, history
  <2>2. \E l : pc' = [pc EXCEPT ![w] = l]
    BY Zenon, <1>5, ReturnGoes, CreditedGoes DEF Operate, Toggle, AdjustAccess, Settle, WriteState,
       CloseRead, CloseWrite, ConfirmRead, Goto
  <2>3. MarksKept /\ pc[w] \notin Crediting /\ pc[w] \notin Revoking
    BY Zenon, <1>t, <2>1, SameKeepsMarks DEF Crediting, Revoking
  <2>4. QED
    BY Zenon, <1>t, <2>1, <2>2, <2>3, ElsewhereOwed
<1>6. ASSUME UNCHANGED <<pc, cur, pay, granted, returned, faults>> PROVE Owed'
  BY Zenon, <1>t, <1>6, SameKeepsMarks, AsideOwed
<1>7. CASE UNCHANGED vars \/ Tick \/ \E p \in Payment : Pays(p) \/ Undoes(p)
  BY Zenon, <1>6, <1>7 DEF Tick, Pays, Undoes, vars, rows, thread, bounds, history
<1>8. ASSUME Restart \/ \E w \in Worker : Fail(w) \/ OrderFails(w) PROVE Owed'
  BY Zenon, <1>8, FaultOwed DEF Restart, Fail, OrderFails
<1>9. QED
  BY Zenon, <1>1, <1>2, <1>3, <1>4, <1>5, <1>7, <1>8, MarkingOwed, HonouringOwed
     DEF Next, Handler, Host, Operator, Passive

\* Unless a call fails or the process restarts, a payment is never left half way:
\* once the requests are over, exactly the payments marked credited have had their
\* days added and exactly those marked revoked have had them taken back
\* (MarkPaymentCredited and GrantAccess, MarkPaymentRevoked and RevokeAccess).
THEOREM MarksCorrect == Spec => []MarksHonoured
<1>1. Init => Owed
  BY Zenon, InitOwed
<1>2. Inv /\ Owed /\ [Next]_vars => Owed'
  BY Zenon, OwedStep
<1>3. Inv /\ Owed => MarksHonoured
  <2> SUFFICES ASSUME Inv, Owed, faults = 0, \A w \in Worker : pc[w] = "idle"
               PROVE  /\ granted = {p \in Payment : pay[p].credited > 0}
                      /\ returned = {p \in Payment : pay[p].revoked}
    BY Zenon DEF MarksHonoured, At
  <2>1. granted \subseteq Payment /\ returned \subseteq Payment
    BY Zenon DEF Inv, Types
  <2>2. \A w \in Worker : pc[w] \notin Crediting /\ pc[w] \notin Revoking
    BY Zenon DEF Crediting, Revoking
  <2>3. QED
    BY Zenon, <2>1, <2>2 DEF Inv, Credits, Refunds, Owed, Adds, Takes
<1>4. QED
  BY Invariant, <1>1, <1>2, <1>3, PTL DEF Spec

-----------------------------------------------------------------------------
\* The loops a goroutine is in.

\* Frames of loops: an inner one is always Evaluate's, run by the RevokeAccess of
\* the loop outside it.
Nest(s) ==
  /\ \E S : s \in Seq(S)
  /\ \A i \in 1..Len(s) : DOMAIN s[i] = {"kind", "todo"}
  /\ \A i \in 1..(Len(s) - 1) : s[i].kind = "check"

\* The innermost loop is Evaluate's.
Checking(s) == s # <<>> /\ Head(s).kind = "check"

\* Pop.
LEMMA NestTail ==
  ASSUME NEW s, Nest(s), s # <<>>
  PROVE  Nest(Tail(s)) /\ (Head(s).kind # "check" => Tail(s) = <<>>)
<1>1. PICK S : s \in Seq(S)
  BY Zenon DEF Nest
<1>2. /\ Len(s) \in Nat \ {0} /\ Head(s) = s[1] /\ Tail(s) \in Seq(S) /\ Len(Tail(s)) = Len(s) - 1
      /\ \A i \in 1..(Len(s) - 1) : Tail(s)[i] = s[i + 1]
  BY <1>1
<1>3. \A i \in 1..Len(Tail(s)) : DOMAIN Tail(s)[i] = {"kind", "todo"}
  BY <1>2 DEF Nest
<1>4. \A i \in 1..(Len(Tail(s)) - 1) : Tail(s)[i].kind = "check"
  BY <1>2 DEF Nest
<1>5. Head(s).kind # "check" => Len(s) = 1
  BY <1>2 DEF Nest
<1>6. Len(s) = 1 => Tail(s) = <<>>
  <2> DEFINE r == Tail(s)
  <2>1. r \in Seq(S) /\ (Len(s) = 1 => Len(r) = 0)
    BY <1>2
  <2> HIDE DEF r
  <2>2. Len(r) = 0 => r = <<>>
    BY <2>1
  <2>3. QED
    BY Zenon, <2>1, <2>2 DEF r
<1>7. QED
  BY Zenon, <1>2, <1>3, <1>4, <1>5, <1>6 DEF Nest

\* A new frame, alone or inside the others.
LEMMA NestPush ==
  ASSUME NEW s, Nest(s), NEW k, NEW todo, k = "check" \/ s = <<>>
  PROVE  LET t == <<[kind |-> k, todo |-> todo]>> \o s
         IN  Nest(t) /\ t # <<>> /\ Head(t).kind = k
<1> DEFINE f == [kind |-> k, todo |-> todo]
           t == <<f>> \o s
<1>1. PICK S : s \in Seq(S)
  BY Zenon DEF Nest
<1>2. f.kind = k /\ DOMAIN f = {"kind", "todo"}
  BY Zenon
<1> HIDE DEF f
<1>3. t \in Seq(S \union {f}) /\ Len(t) = Len(s) + 1 /\ Len(s) \in Nat /\ t[1] = f
  BY <1>1
<1>4. \A i \in 1..Len(s) : t[i + 1] = s[i]
  BY <1>1
<1>5. t # <<>> /\ Head(t) = f
  BY <1>3
<1> HIDE DEF t
<1>6. ASSUME NEW i \in 1..Len(t), i # 1 PROVE i - 1 \in 1..Len(s) /\ t[i] = s[i - 1]
  BY <1>3, <1>4, <1>6
<1>7. \A i \in 1..Len(t) : DOMAIN t[i] = {"kind", "todo"}
  BY <1>2, <1>3, <1>6 DEF Nest
<1>8. \A i \in 1..(Len(t) - 1) : t[i].kind = "check"
  <2> SUFFICES ASSUME NEW i \in 1..(Len(t) - 1) PROVE t[i].kind = "check"
    OBVIOUS
  <2>1. s # <<>>
    BY <1>3
  <2>2. CASE i = 1
    BY Zenon, <1>2, <1>3, <2>1, <2>2
  <2>3. CASE i # 1
    <3>1. i \in 1..Len(t) /\ i - 1 \in 1..(Len(s) - 1)
      BY <1>3, <2>3
    <3>2. QED
      BY Zenon, <1>6, <2>3, <3>1 DEF Nest
  <2>4. QED
    BY Zenon, <2>2, <2>3
<1>9. Nest(t)
  BY Zenon, <1>3, <1>7, <1>8 DEF Nest
<1>10. QED
  BY Zenon, <1>2, <1>5, <1>9 DEF t, f

\* The list of the innermost frame changes.
LEMMA NestUpdate ==
  ASSUME NEW s, Nest(s), s # <<>>, NEW todo
  PROVE  LET t == [s EXCEPT ![1] = [s[1] EXCEPT !.todo = todo]]
         IN  Nest(t) /\ t # <<>> /\ Head(t).kind = Head(s).kind
<1> DEFINE f == [s[1] EXCEPT !.todo = todo]
           t == [s EXCEPT ![1] = f]
<1>1. PICK S : s \in Seq(S)
  BY Zenon DEF Nest
<1>2. Len(s) \in Nat \ {0} /\ 1 \in 1..Len(s) /\ Head(s) = s[1]
  BY <1>1
<1>3. f.kind = s[1].kind /\ DOMAIN f = {"kind", "todo"}
  BY Zenon, <1>2 DEF Nest
<1> HIDE DEF f
<1>4. /\ t \in Seq(S \union {f}) /\ Len(t) = Len(s) /\ t[1] = f
      /\ \A i \in 1..Len(s) : i # 1 => t[i] = s[i]
  BY <1>1, <1>2
<1>5. t # <<>> /\ Head(t) = f
  BY <1>2, <1>4
<1> HIDE DEF t
<1>6. \A i \in 1..(Len(s) - 1) : i \in 1..Len(s)
  BY <1>2
<1>7. Nest(t)
  BY Zenon, <1>3, <1>4, <1>6 DEF Nest
<1>8. QED
  BY Zenon, <1>2, <1>3, <1>5, <1>7 DEF t, f

\* What the next call of a goroutine says of its loops.
Outer == {"idle", "toggle", "adjust", "skip", "skipping"}
InLoop == {"order", "record", "reconcile", "store", "grant", "extend", "close", "closing", "undo",
           "unmark", "revoke", "reduce", "reset"}
Fit(l, s) ==
  /\ Nest(s)
  /\ l \in Outer => s = <<>>
  /\ l \in InLoop => s # <<>>
  /\ l \in {"order", "record"} => ~Checking(s)
Loops == DOMAIN stack = Worker /\ \A w \in Worker : Fit(pc[w], stack[w])

\* Only goroutine w moves, and fits again.
Alone(w) ==
  /\ DOMAIN stack' = Worker
  /\ \A v \in Worker : v # w => pc'[v] = pc[v] /\ stack'[v] = stack[v]
Moves(w) == Alone(w) /\ Fit(pc'[w], stack'[w])
\* Evaluate's loop goes on, or Evaluate does.
Keeps(w) == Checking(stack[w]) => pc'[w] = "settle" \/ Checking(stack'[w])

\* No loop at all.
LEMMA NestEmpty == Nest(<<>>) /\ ~Checking(<<>>)
<1>1. <<>> \in Seq({}) /\ Len(<<>>) = 0
  OBVIOUS
<1>2. \A i \in 1..0 : FALSE
  OBVIOUS
<1>3. \A i \in 1..(0 - 1) : FALSE
  OBVIOUS
<1>4. QED
  BY Zenon, <1>1, <1>2, <1>3 DEF Nest, Checking

\* A goroutine that goes to another label in the loop it is in.
LEMMA GotoMoves ==
  ASSUME Types, Loops, NEW w \in Worker, NEW l, Goto(w, l), stack' = stack, Fit(l, stack[w])
  PROVE  Moves(w) /\ Keeps(w) /\ pc'[w] = l
  BY Zenon DEF Types, Loops, Goto, Moves, Alone, Keeps

\* Drop and its like.
LEMMA UpdateMoves ==
  ASSUME Types, Loops, NEW w \in Worker, NEW todo, NEW l, Goto(w, l), l \in InLoop, stack[w] # <<>>,
         l \in {"order", "record"} => ~Checking(stack[w]),
         stack' = [stack EXCEPT ![w] = [stack[w] EXCEPT ![1] = [stack[w][1] EXCEPT !.todo = todo]]]
  PROVE  Moves(w) /\ Keeps(w) /\ pc'[w] = l
<1> DEFINE t == [stack[w] EXCEPT ![1] = [stack[w][1] EXCEPT !.todo = todo]]
<1>1. Nest(t) /\ t # <<>> /\ Head(t).kind = Head(stack[w]).kind
  BY Zenon, NestUpdate DEF Loops, Fit
<1>2. stack' = [stack EXCEPT ![w] = t]
  BY Zenon
<1> HIDE DEF t
<1>3. Alone(w) /\ pc'[w] = l /\ stack'[w] = t
  BY Zenon, <1>2 DEF Types, Loops, Alone, Goto
<1>4. l \notin Outer
  BY Zenon DEF InLoop, Outer
<1>5. Checking(t) <=> Checking(stack[w])
  BY Zenon, <1>1 DEF Checking
<1>6. QED
  BY Zenon, <1>1, <1>3, <1>4, <1>5 DEF Moves, Fit, Keeps

\* Pop, with control going where the innermost loop was called from.
LEMMA PopMoves ==
  ASSUME Types, Loops, NEW w \in Worker, NEW l, stack[w] # <<>>, Pop(w), Goto(w, l),
         \/ Head(stack[w]).kind = "check" /\ l \in {"settle", "confirm"}
         \/ Head(stack[w]).kind # "check" /\ l = "idle"
  PROVE  Moves(w) /\ pc'[w] = l
<1>1. Nest(Tail(stack[w])) /\ (Head(stack[w]).kind # "check" => Tail(stack[w]) = <<>>)
  BY Zenon, NestTail DEF Loops, Fit
<1>2. Alone(w) /\ pc'[w] = l /\ stack'[w] = Tail(stack[w])
  BY Zenon DEF Types, Loops, Alone, Goto, Pop
<1>3. /\ l \in {"settle", "confirm"} => l \notin Outer
      /\ l \in {"settle", "confirm", "idle"} => l \notin InLoop /\ l \notin {"order", "record"}
  BY Zenon DEF InLoop, Outer
<1>4. QED
  BY Zenon, <1>1, <1>2, <1>3 DEF Moves, Fit

\* reconcile returns.
LEMMA ReconciledMoves ==
  ASSUME Types, Loops, NEW w \in Worker, stack[w] # <<>>, Reconciled(w)
  PROVE  Moves(w) /\ Keeps(w) /\ pc'[w] \in {"idle", "settle", "reconcile"}
<1>1. CASE Leave(w)
  <2>1. CASE Head(stack[w]).kind = "check"
    <3>1. Pop(w) /\ Goto(w, "settle")
      BY Zenon, <1>1, <2>1 DEF Leave, Frame
    <3>2. QED
      BY Zenon, <2>1, <3>1, PopMoves DEF Keeps
  <2>2. CASE Head(stack[w]).kind # "check"
    <3>1. Pop(w) /\ Goto(w, "idle")
      BY Zenon, <1>1, <2>2 DEF Leave, Frame
    <3>2. QED
      BY Zenon, <2>2, <3>1, PopMoves DEF Keeps, Checking
  <2>3. QED
    BY Zenon, <2>1, <2>2
<1>2. CASE Drop(w) /\ Goto(w, "reconcile")
  <2> DEFINE todo == Tail(stack[w][1].todo)
  <2>1. stack' = [stack EXCEPT ![w] = [stack[w] EXCEPT ![1] = [stack[w][1] EXCEPT !.todo = todo]]]
    BY Zenon, <1>2 DEF Drop
  <2> HIDE DEF todo
  <2>2. "reconcile" \in InLoop /\ "reconcile" \notin {"order", "record"}
    BY Zenon DEF InLoop
  <2>3. QED
    BY Zenon, <1>2, <2>1, <2>2, UpdateMoves
<1>3. QED
  BY Zenon, <1>1, <1>2 DEF Reconciled

\* Evaluate returns.
LEMMA ReturnMoves ==
  ASSUME Types, Loops, NEW w \in Worker, Return(w)
  PROVE  Moves(w) /\ Keeps(w) /\ pc'[w] \in {"idle", "settle", "reconcile"}
<1>1. CASE stack[w] = <<>>
  <2>1. Fit("idle", stack[w])
    BY Zenon, <1>1, NestEmpty DEF Fit, InLoop
  <2>2. Goto(w, "idle") /\ stack' = stack
    BY Zenon, <1>1 DEF Return
  <2>3. QED
    BY Zenon, <2>1, <2>2, GotoMoves
<1>2. CASE stack[w] # <<>>
  BY Zenon, <1>2, ReconciledMoves DEF Return
<1>3. QED
  BY Zenon, <1>1, <1>2

\* One loop.
LEMMA NestOne ==
  ASSUME NEW k, NEW todo
  PROVE  LET t == <<[kind |-> k, todo |-> todo]>>
         IN  Nest(t) /\ t # <<>> /\ Head(t).kind = k
<1> DEFINE f == [kind |-> k, todo |-> todo]
<1>1. <<f>> \o <<>> = <<f>>
  BY SMT
<1>2. QED
  BY Zenon, <1>1, NestEmpty, NestPush

-----------------------------------------------------------------------------
\* Who settles the state.

\* A goroutine that will write the state it finds once it has closed the step, or
\* checked it: it grants, is in Evaluate's loop, or has Evaluate still to run on
\* an account it did not read as disabled.
Settling == {"reopen", "list", "confirm", "confirming", "settle", "close", "closing"}
Due(l, state, s) ==
  \/ l \in Settling
  \/ l = "evaluate" /\ state # "disabled"
  \/ l = "write" /\ state # "active"
  \/ Checking(s)
Owes(w) == Due(pc[w], snap[w].state, stack[w])

\* The account is active, or a goroutine is about to store that it is.
Active == acct.state = "active" \/ \E w \in Worker : pc[w] = "write" /\ snap[w].state = "active"

\* An active account whose step is open has run out, or will be settled.
Pledge ==
  ~unsettled /\ Active => Closed(step) \/ Expired(acct) \/ \E w \in Worker : Owes(w)

\* The goroutine that moves leaves account and step alone.
Aside(w) ==
  /\ UNCHANGED <<now, acct, step, unsettled>>
  /\ \A v \in Worker : v # w => snap'[v] = snap[v]

\* A step after which the goroutine that made it settles the state, or the step
\* is closed.
LEMMA OwingPledge ==
  ASSUME NEW w \in Worker, Due(pc'[w], snap'[w].state, stack'[w]) \/ Closed(step')
  PROVE  Pledge'
  BY Zenon DEF Pledge, Owes

\* A step of a goroutine that settles nothing, but for the loops it is in.
LEMMA AsidePledge ==
  ASSUME Pledge, NEW w \in Worker, Aside(w), Alone(w), Keeps(w),
         pc[w] \notin Settling, pc[w] # "write", pc'[w] # "write",
         pc[w] = "evaluate" => snap[w].state = "disabled"
  PROVE  Pledge'
<1>1. Active' => Active
  BY Zenon DEF Active, Aside, Alone
<1>2. ASSUME NEW v \in Worker, Owes(v), v # w PROVE Owes(v)'
  BY Zenon, <1>2 DEF Owes, Aside, Alone
<1>3. ASSUME Owes(w) PROVE Owes(w)'
  BY Zenon, <1>3 DEF Owes, Due, Keeps, Settling
<1>4. Expired(acct)' <=> Expired(acct)
  BY Zenon DEF Aside, Expired
<1>5. QED
  BY Zenon, <1>1, <1>2, <1>3, <1>4 DEF Pledge, Aside

\* The payment step's calls inside a loop.
LEMMA LoopPledge ==
  ASSUME Types, Loops, Pledge, NEW w \in Worker,
         \/ Abandon(w) \/ Skip(w) \/ Fetch(w) \/ MarkCredited(w) \/ Refetch(w) \/ MarkRevoked(w)
         \/ GrantAccess(w) \/ RevokeAccess(w) \/ StoreUndone(w)
  PROVE  Moves(w) /\ Pledge'
<1>1. /\ Aside(w)
      /\ pc[w] \in {"reconcile", "unmark", "undo", "grant", "revoke"}
  BY Zenon DEF Types, Abandon, Skip, Fetch, MarkCredited, Refetch, MarkRevoked, GrantAccess, RevokeAccess,
     StoreUndone, Reconciling, At, Read, Aside, rows, history
<1>2. /\ stack[w] # <<>> /\ pc[w] \notin Settling /\ pc[w] # "write" /\ pc[w] # "evaluate"
  BY Zenon, <1>1 DEF Loops, Fit, InLoop, Settling
<1>3. \/ Reconciled(w)
      \/ \E l \in {"store", "grant", "undo", "revoke", "extend", "reduce", "unmark"} :
            Goto(w, l) /\ stack' = stack
  BY Zenon DEF Abandon, Skip, Fetch, MarkCredited, Refetch, MarkRevoked, GrantAccess, RevokeAccess, StoreUndone
<1>4. CASE Reconciled(w)
  BY Zenon, <1>1, <1>2, <1>4, ReconciledMoves, AsidePledge DEF Moves
<1>5. ASSUME NEW l \in {"store", "grant", "undo", "revoke", "extend", "reduce", "unmark"},
             Goto(w, l), stack' = stack
      PROVE  Moves(w) /\ Pledge'
  <2>1. Fit(l, stack[w]) /\ l # "write"
    BY Zenon, <1>2 DEF Loops, Fit, Outer, InLoop
  <2>2. Moves(w) /\ Keeps(w) /\ pc'[w] # "write"
    BY Zenon, <1>5, <2>1, GotoMoves
  <2>3. QED
    BY Zenon, <1>1, <1>2, <2>2, AsidePledge DEF Moves
<1>6. QED
  BY Zenon, <1>3, <1>4, <1>5

\* Those that change the listed rows, or end a loop.
LEMMA ListPledge ==
  ASSUME Types, Loops, Pledge, NEW w \in Worker,
         PlaceOrder(w) \/ StoreStatus(w) \/ Record(w) \/ ListEnds(w)
  PROVE  Moves(w) /\ Pledge'
<1>1. /\ Aside(w)
      /\ pc[w] \in {"order", "store", "record", "reconcile"}
  BY Zenon DEF PlaceOrder, StoreStatus, Record, ListEnds, At, Aside, rows, history
<1>2. /\ stack[w] # <<>> /\ pc[w] \notin Settling /\ pc[w] # "write" /\ pc[w] # "evaluate"
  BY Zenon, <1>1 DEF Loops, Fit, InLoop, Settling
<1>3. ASSUME Moves(w), Keeps(w), pc'[w] # "write" PROVE Pledge'
  BY Zenon, <1>1, <1>2, <1>3, AsidePledge DEF Moves
<1>4. ASSUME PlaceOrder(w) PROVE Moves(w) /\ Pledge'
  <2>1. PICK todo : stack' = [stack EXCEPT ![w] = [stack[w] EXCEPT ![1] = [stack[w][1] EXCEPT !.todo = todo]]]
    BY Zenon, <1>4 DEF PlaceOrder
  <2>2. Goto(w, "record") /\ "record" \in InLoop /\ ~Checking(stack[w])
    BY Zenon, <1>4 DEF PlaceOrder, At, InLoop, Loops, Fit
  <2>3. QED
    <3>1. Moves(w) /\ Keeps(w) /\ pc'[w] = "record"
      BY Zenon, <1>2, <2>1, <2>2, UpdateMoves
    <3>2. QED
      BY Zenon, <1>3, <3>1
<1>5. ASSUME StoreStatus(w) PROVE Moves(w) /\ Pledge'
  <2>1. PICK todo : stack' = [stack EXCEPT ![w] = [stack[w] EXCEPT ![1] = [stack[w][1] EXCEPT !.todo = todo]]]
    BY Zenon, <1>5 DEF StoreStatus
  <2>2. Goto(w, "reconcile") /\ "reconcile" \in InLoop /\ "reconcile" \notin {"order", "record"}
    BY Zenon, <1>5 DEF StoreStatus, InLoop
  <2>3. QED
    <3>1. Moves(w) /\ Keeps(w) /\ pc'[w] = "reconcile"
      BY Zenon, <1>2, <2>1, <2>2, UpdateMoves
    <3>2. QED
      BY Zenon, <1>3, <3>1
<1>6. ASSUME Record(w) PROVE Moves(w) /\ Pledge'
  <2>1. Pop(w) /\ Goto(w, "idle") /\ ~Checking(stack[w]) /\ Head(stack[w]).kind # "check"
    BY Zenon, <1>2, <1>6 DEF Record, At, Loops, Fit, Checking
  <2>2. QED
    <3>1. Moves(w) /\ pc'[w] = "idle"
      BY Zenon, <1>2, <2>1, PopMoves
    <3>2. QED
      BY Zenon, <1>3, <2>1, <3>1 DEF Keeps
<1>7. ASSUME ListEnds(w), Leave(w) PROVE Moves(w) /\ Pledge'
  <2>1. CASE Head(stack[w]).kind = "check"
    <3>1. Pop(w) /\ Goto(w, "settle")
      BY Zenon, <1>7, <2>1 DEF Leave, Frame
    <3>2. QED
      <4>1. Moves(w) /\ pc'[w] = "settle"
        BY Zenon, <1>2, <2>1, <3>1, PopMoves
      <4>2. QED
        BY Zenon, <1>3, <4>1 DEF Keeps
  <2>2. CASE Head(stack[w]).kind # "check"
    <3>1. Pop(w) /\ Goto(w, "idle") /\ ~Checking(stack[w])
      BY Zenon, <1>7, <2>2 DEF Leave, Frame, Checking
    <3>2. QED
      <4>1. Moves(w) /\ pc'[w] = "idle"
        BY Zenon, <1>2, <2>2, <3>1, PopMoves
      <4>2. QED
        BY Zenon, <1>3, <3>1, <4>1 DEF Keeps
  <2>3. QED
    BY Zenon, <2>1, <2>2
<1>8. ASSUME ListEnds(w), ~Leave(w) PROVE Moves(w) /\ Pledge'
  <2>1. PICK todo : stack' = [stack EXCEPT ![w] = <<[kind |-> "open", todo |-> todo]>>]
    BY Zenon, <1>8 DEF ListEnds
  <2>2. pc' = pc /\ pc[w] = "reconcile" /\ ~Checking(stack[w])
    BY Zenon, <1>8 DEF ListEnds, At, Frame, Checking
  <2> DEFINE t == <<[kind |-> "open", todo |-> todo]>>
  <2>3. Nest(t) /\ t # <<>>
    BY Zenon, NestOne
  <2>4. stack' = [stack EXCEPT ![w] = t]
    BY Zenon, <2>1
  <2> HIDE DEF t
  <2>5. Alone(w) /\ stack'[w] = t
    BY Zenon, <2>2, <2>4 DEF Loops, Alone
  <2>6. Fit("reconcile", t)
    BY Zenon, <2>3 DEF Fit, Outer
  <2>7. QED
    BY Zenon, <1>3, <2>2, <2>5, <2>6 DEF Moves, Keeps
<1>9. QED
  BY Zenon, <1>4, <1>5, <1>6, <1>7, <1>8

\* Requests begin, and the operator's first calls are made, in no loop.
LEMMA BeginPledge ==
  ASSUME Types, Loops, Pledge, NEW w \in Worker,
         \/ Poll(w) \/ Refresh(w) \/ (\E p \in Payment : Checkout(w, p) \/ Reconcile(w, p))
         \/ Authorize(w) \/ Operate(w, "toggle") \/ Operate(w, "adjust") \/ SkipStep(w) \/ SkipRead(w)
  PROVE  Moves(w) /\ Pledge'
<1>1. Aside(w) /\ pc[w] \in {"idle", "skip"}
  BY Zenon DEF Types, Poll, Refresh, Checkout, Reconcile, Enter, Start, Authorize, Operate, SkipStep, SkipRead,
     At, Read, Aside, rows, history
<1>2. /\ stack[w] = <<>> /\ pc[w] \notin Settling /\ pc[w] # "write" /\ pc[w] # "evaluate"
  BY Zenon, <1>1 DEF Loops, Fit, Outer, Settling
<1>3. ASSUME Moves(w), pc'[w] # "write" PROVE Pledge'
  BY Zenon, <1>1, <1>2, <1>3, NestEmpty, AsidePledge DEF Moves, Keeps
<1>4. ASSUME NEW kind, NEW todo, kind # "check", NEW l \in {"reconcile", "order"}, Goto(w, l),
             stack' = [stack EXCEPT ![w] = <<[kind |-> kind, todo |-> todo]>>]
      PROVE  Moves(w) /\ Pledge'
  <2> DEFINE t == <<[kind |-> kind, todo |-> todo]>>
  <2>1. Nest(t) /\ t # <<>> /\ Head(t).kind = kind
    BY Zenon, NestOne
  <2>2. stack' = [stack EXCEPT ![w] = t]
    BY Zenon, <1>4
  <2> HIDE DEF t
  <2>3. Alone(w) /\ stack'[w] = t /\ pc'[w] = l
    BY Zenon, <1>4, <2>2 DEF Types, Loops, Alone, Goto
  <2>4. Fit(l, t) /\ l # "write"
    BY Zenon, <1>4, <2>1 DEF Fit, Outer, Checking
  <2>5. QED
    BY Zenon, <1>3, <2>3, <2>4 DEF Moves
<1>5. CASE Poll(w)
  <2>1. PICK todo : stack' = [stack EXCEPT ![w] = <<[kind |-> "refunds", todo |-> todo]>>] /\ Goto(w, "reconcile")
    BY Zenon, <1>5 DEF Poll, Enter
  <2>2. QED
    BY Zenon, <1>4, <2>1
<1>6. CASE Refresh(w)
  <2>1. PICK todo : stack' = [stack EXCEPT ![w] = <<[kind |-> "page", todo |-> todo]>>] /\ Goto(w, "reconcile")
    BY Zenon, <1>6 DEF Refresh, Enter
  <2>2. QED
    BY Zenon, <1>4, <2>1
<1>7. ASSUME NEW p \in Payment, Reconcile(w, p) PROVE Moves(w) /\ Pledge'
  <2>1. PICK todo : stack' = [stack EXCEPT ![w] = <<[kind |-> "hook", todo |-> todo]>>] /\ Goto(w, "reconcile")
    BY Zenon, <1>7 DEF Reconcile, Enter
  <2>2. QED
    BY Zenon, <1>4, <2>1
<1>8. ASSUME NEW p \in Payment, Checkout(w, p) PROVE Moves(w) /\ Pledge'
  <2>1. PICK todo : stack' = [stack EXCEPT ![w] = <<[kind |-> "checkout", todo |-> todo]>>] /\ Goto(w, "order")
    BY Zenon, <1>8 DEF Checkout
  <2>2. QED
    BY Zenon, <1>4, <2>1
<1>9. ASSUME NEW l \in {"evaluate", "toggle", "adjust", "skip", "skipping"}, Goto(w, l), stack' = stack
      PROVE  Moves(w) /\ Pledge'
  <2>1. Fit(l, stack[w]) /\ l # "write"
    BY Zenon, <1>2, NestEmpty DEF Fit, InLoop
  <2>2. QED
    BY Zenon, <1>3, <1>9, <2>1, GotoMoves
<1>10. CASE Authorize(w) \/ Operate(w, "toggle") \/ Operate(w, "adjust") \/ SkipStep(w) \/ SkipRead(w)
  BY Zenon, <1>9, <1>10 DEF Authorize, Operate, SkipStep, SkipRead
<1>11. QED
  BY Zenon, <1>5, <1>6, <1>7, <1>8, <1>10

\* The calls after which the goroutine settles the state, or which close the step.
LEMMA SettlingPledge ==
  ASSUME Types, Loops, Pledge, NEW w \in Worker,
         \/ Extend(w) \/ CloseRead(w) \/ CloseWrite(w) \/ Reopen(w) \/ CheckStep(w)
         \/ ConfirmRead(w) \/ ConfirmWrite(w) \/ SkipWrite(w)
  PROVE  Moves(w) /\ Pledge'
<1>1. ASSUME NEW l \in {"close", "closing"}, Goto(w, l), stack' = stack, pc[w] \in InLoop
      PROVE  Moves(w) /\ Pledge'
  <2>1. Fit(l, stack[w]) /\ l \in Settling
    BY Zenon, <1>1 DEF Loops, Fit, Outer, InLoop, Settling
  <2>2. Moves(w) /\ pc'[w] = l
    BY Zenon, <1>1, <2>1, GotoMoves
  <2>3. QED
    BY Zenon, <2>1, <2>2, OwingPledge DEF Due
<1>2. ASSUME NEW l \in {"list", "settle", "confirming"}, Goto(w, l), stack' = stack
      PROVE  Moves(w) /\ Pledge'
  <2>1. Fit(l, stack[w]) /\ l \in Settling
    BY Zenon, <1>2 DEF Loops, Fit, Outer, InLoop, Settling
  <2>2. Moves(w) /\ pc'[w] = l
    BY Zenon, <1>2, <2>1, GotoMoves
  <2>3. QED
    BY Zenon, <2>1, <2>2, OwingPledge DEF Due
<1>3. ASSUME Credited(w), pc[w] \in {"close", "closing"}, Closed(step') PROVE Moves(w) /\ Pledge'
  <2>1. stack[w] # <<>>
    BY Zenon, <1>3 DEF Loops, Fit, InLoop
  <2>2. CASE Frame(w).kind = "check"
    <3>1. Pop(w) /\ Goto(w, "confirm")
      BY Zenon, <1>3, <2>2 DEF Credited
    <3>2. QED
      BY Zenon, <1>3, <2>1, <2>2, <3>1, PopMoves, OwingPledge DEF Frame
  <2>3. CASE Frame(w).kind = "page"
    <3>1. Pop(w) /\ Goto(w, "idle") /\ Head(stack[w]).kind # "check"
      BY Zenon, <1>3, <2>3 DEF Credited, Frame
    <3>2. QED
      BY Zenon, <1>3, <2>1, <3>1, PopMoves, OwingPledge
  <2>4. CASE Frame(w).kind \notin {"check", "page"}
    <3>1. Reconciled(w)
      BY Zenon, <1>3, <2>4 DEF Credited
    <3>2. QED
      BY Zenon, <1>3, <2>1, <3>1, ReconciledMoves, OwingPledge
  <2>5. QED
    BY Zenon, <2>2, <2>3, <2>4
<1>4. CASE Extend(w)
  BY Zenon, <1>1, <1>4 DEF Extend, At, InLoop
<1>5. CASE CloseRead(w)
  <2>1. CASE Closed(step)
    <3>1. Credited(w) /\ pc[w] = "close" /\ step' = step
      BY Zenon, <1>5, <2>1 DEF CloseRead, At, rows
    <3>2. QED
      BY Zenon, <1>3, <2>1, <3>1
  <2>2. CASE ~Closed(step)
    BY Zenon, <1>1, <1>5, <2>2 DEF CloseRead, At, InLoop
  <2>3. QED
    BY Zenon, <2>1, <2>2
<1>6. CASE CloseWrite(w)
  BY Zenon, <1>3, <1>6 DEF CloseWrite, At, Closed
<1>7. CASE Reopen(w) \/ ConfirmRead(w) \/ ConfirmWrite(w)
  BY Zenon, <1>2, <1>7 DEF Reopen, ConfirmRead, ConfirmWrite
<1>8. CASE CheckStep(w)
  <2> DEFINE t == <<[kind |-> "check", todo |-> Listed(Payment)]>> \o stack[w]
  <2>1. Nest(t) /\ t # <<>> /\ Head(t).kind = "check"
    BY Zenon, NestPush DEF Loops, Fit
  <2>2. stack' = [stack EXCEPT ![w] = t] /\ Goto(w, "reconcile")
    BY Zenon, <1>8 DEF CheckStep
  <2> HIDE DEF t
  <2>3. Alone(w) /\ stack'[w] = t /\ pc'[w] = "reconcile"
    BY Zenon, <2>2 DEF Types, Loops, Alone, Goto
  <2>4. Fit("reconcile", t) /\ Checking(t)
    BY Zenon, <2>1 DEF Fit, Outer, Checking
  <2>5. QED
    BY Zenon, <2>3, <2>4, OwingPledge DEF Moves, Due
<1>9. CASE SkipWrite(w)
  <2>1. Goto(w, "evaluate") /\ stack' = stack /\ Closed(step')
    BY Zenon, <1>9 DEF SkipWrite, Closed
  <2>2. Fit("evaluate", stack[w])
    BY Zenon DEF Loops, Fit, Outer, InLoop
  <2>3. QED
    BY Zenon, <2>1, <2>2, GotoMoves, OwingPledge
<1>10. QED
  BY Zenon, <1>4, <1>5, <1>6, <1>7, <1>8, <1>9

\* Nobody else stores a state while the account's lock is held or free.
LEMMA NoWriter ==
  ASSUME Locks, NEW w \in Worker, w \in lock \/ lock = {}
  PROVE  \A v \in Worker : v # w => pc[v] # "write"
  BY Zenon DEF Locks, Inside

\* The account is not active, and nobody is about to say it is.
LEMMA InactivePledge ==
  ASSUME Locks, NEW w \in Worker, w \in lock \/ lock = {}, Alone(w), pc'[w] # "write",
         acct'.state # "active"
  PROVE  Pledge'
<1>1. \A v \in Worker : pc'[v] # "write"
  BY Zenon, NoWriter DEF Alone
<1>2. QED
  BY Zenon, <1>1 DEF Pledge, Active

\* Evaluate is run on the account as the lock's holder has just written it.
LEMMA EvaluatePledge ==
  ASSUME Types, Locks, Loops, NEW w \in Worker, w \in lock, Goto(w, "evaluate"), stack' = stack,
         snap' = [snap EXCEPT ![w] = acct']
  PROVE  Moves(w) /\ Pledge'
<1>1. Fit("evaluate", stack[w])
  BY Zenon DEF Loops, Fit, Outer, InLoop
<1>2. Moves(w) /\ pc'[w] = "evaluate" /\ snap'[w] = acct'
  BY Zenon, <1>1, GotoMoves DEF Types
<1>3. CASE acct'.state = "disabled"
  BY Zenon, <1>2, <1>3, InactivePledge DEF Moves
<1>4. CASE acct'.state # "disabled"
  BY Zenon, <1>2, <1>4, OwingPledge DEF Due
<1>5. QED
  BY Zenon, <1>2, <1>3, <1>4

\* RevokeAccess.
LEMMA RevokePledge ==
  ASSUME Types, Locks, Loops, Pledge, NEW w \in Worker, Reduce(w) \/ ResetRevoked(w)
  PROVE  Moves(w) /\ Pledge'
<1>1. CASE Reduce(w)
  <2>1. pc[w] = "reduce" /\ now' = now /\ snap' = [snap EXCEPT ![w] = acct'] /\ stack' = stack
    BY Zenon, <1>1 DEF Reduce, At
  <2>2. w \in lock
    BY Zenon, <2>1 DEF Locks, Inside
  <2>3. CASE Expired(acct')
    <3>1. Goto(w, "reset")
      BY Zenon, <1>1, <2>3 DEF Reduce
    <3>2. Fit("reset", stack[w])
      BY Zenon, <2>1 DEF Loops, Fit, Outer, InLoop
    <3>3. Expired(acct)'
      BY Zenon, <2>1, <2>3 DEF Expired
    <3>4. QED
      BY Zenon, <2>1, <3>1, <3>2, <3>3, GotoMoves DEF Pledge
  <2>4. CASE ~Expired(acct')
    <3>1. Goto(w, "evaluate")
      BY Zenon, <1>1, <2>4 DEF Reduce
    <3>2. QED
      BY Zenon, <2>1, <2>2, <3>1, EvaluatePledge
  <2>5. QED
    BY Zenon, <2>3, <2>4
<1>2. CASE ResetRevoked(w)
  <2>1. /\ Goto(w, "evaluate") /\ stack' = stack /\ snap' = snap
        /\ unsettled' = (unsettled \/ snap[w].state = "disabled")
    BY Zenon, <1>2 DEF ResetRevoked
  <2>2. Fit("evaluate", stack[w])
    BY Zenon DEF Loops, Fit, Outer, InLoop
  <2>3. Moves(w) /\ pc'[w] = "evaluate"
    BY Zenon, <2>1, <2>2, GotoMoves
  <2>4. CASE snap[w].state = "disabled"
    BY Zenon, <2>1, <2>3, <2>4 DEF Pledge
  <2>5. CASE snap[w].state # "disabled"
    <3>1. Due(pc'[w], snap'[w].state, stack'[w])
      BY Zenon, <2>1, <2>3, <2>5 DEF Due
    <3>2. QED
      BY Zenon, <2>3, <3>1, OwingPledge
  <2>6. QED
    BY Zenon, <2>4, <2>5
<1>3. QED
  BY Zenon, <1>1, <1>2

\* Evaluate, up to the state it stores.
LEMMA DecidePledge ==
  ASSUME Types, Locks, Loops, Pledge, NEW w \in Worker, Evaluate(w) \/ Settle(w)
  PROVE  Moves(w) /\ Pledge'
<1>1. ASSUME NEW l \in {"reopen", "settle", "list"}, Goto(w, l), stack' = stack PROVE Moves(w) /\ Pledge'
  <2>1. Fit(l, stack[w]) /\ l \in Settling
    BY Zenon DEF Loops, Fit, Outer, InLoop, Settling
  <2>2. Moves(w) /\ pc'[w] = l
    BY Zenon, <1>1, <2>1, GotoMoves
  <2>3. QED
    BY Zenon, <2>1, <2>2, OwingPledge DEF Due
<1>2. CASE Evaluate(w)
  <2>1. CASE snap[w].state = "disabled"
    <3>1. Return(w) /\ pc[w] = "evaluate" /\ Aside(w)
      BY Zenon, <1>2, <2>1 DEF Types, Evaluate, At, Forget, Aside, rows, history
    <3>2. Moves(w) /\ Keeps(w) /\ pc'[w] # "write"
      BY Zenon, <3>1, ReturnMoves
    <3>3. pc[w] \notin Settling /\ pc[w] # "write"
      BY Zenon, <3>1 DEF Settling
    <3>4. QED
      BY Zenon, <2>1, <3>1, <3>2, <3>3, AsidePledge DEF Moves
  <2>2. CASE snap[w].state # "disabled"
    <3>1. CASE step = "done" /\ Expired(snap[w])
      BY Zenon, <1>1, <1>2, <2>2, <3>1 DEF Evaluate
    <3>2. CASE ~(step = "done" /\ Expired(snap[w])) /\ Closed(step)
      BY Zenon, <1>1, <1>2, <2>2, <3>2 DEF Evaluate
    <3>3. CASE ~(step = "done" /\ Expired(snap[w])) /\ ~Closed(step)
      BY Zenon, <1>1, <1>2, <2>2, <3>3 DEF Evaluate
    <3>4. QED
      BY Zenon, <3>1, <3>2, <3>3
  <2>3. QED
    BY Zenon, <2>1, <2>2
<1>3. CASE Settle(w)
  <2>1. lock = {} /\ acct' = acct /\ step' = step
    BY Zenon, <1>3 DEF Settle, rows
  <2>2. Settled = "active" => Closed(step)
    BY Zenon DEF Settled
  <2>3. CASE acct.state \in {"disabled", Settled}
    <3>1. Return(w)
      BY Zenon, <1>3, <2>3 DEF Settle
    <3>2. Moves(w) /\ pc'[w] # "write"
      BY Zenon, <3>1, ReturnMoves
    <3>3. CASE acct.state = "active"
      <4>1. Closed(step')
        BY Zenon, <2>1, <2>2, <2>3, <3>3
      <4>2. QED
        BY Zenon, <3>2, <4>1, OwingPledge
    <3>4. CASE acct.state # "active"
      BY Zenon, <2>1, <3>2, <3>4, InactivePledge DEF Moves
    <3>5. QED
      BY Zenon, <3>3, <3>4
  <2>4. CASE acct.state \notin {"disabled", Settled}
    <3>1. /\ Goto(w, "write") /\ stack' = stack
          /\ snap' = [snap EXCEPT ![w] = [acct EXCEPT !.state = Settled]]
      BY Zenon, <1>3, <2>4 DEF Settle
    <3>2. Fit("write", stack[w])
      BY Zenon DEF Loops, Fit, Outer, InLoop
    <3>3. Moves(w) /\ pc'[w] = "write"
      BY Zenon, <3>1, <3>2, GotoMoves
    <3>4. snap'[w].state = Settled
      BY Zenon, <3>1 DEF Types, Account
    <3>5. Due(pc'[w], snap'[w].state, stack'[w]) \/ Closed(step')
      BY Zenon, <2>1, <2>2, <3>3, <3>4 DEF Due
    <3>6. QED
      BY Zenon, <3>3, <3>5, OwingPledge
  <2>5. QED
    BY Zenon, <2>3, <2>4
<1>4. QED
  BY Zenon, <1>2, <1>3

\* The state is stored.
LEMMA WritePledge ==
  ASSUME Types, Locks, Snaps, Loops, Pledge, NEW w \in Worker, WriteState(w)
  PROVE  Moves(w) /\ Pledge'
<1>1. /\ pc[w] = "write" /\ acct' = snap[w] /\ Return(w) /\ UNCHANGED <<now, step, unsettled>>
      /\ snap' = [snap EXCEPT ![w] = Nobody]
  BY Zenon DEF WriteState, At, Forget, history
<1>2. w \in lock /\ acct'.until = acct.until
  BY Zenon, <1>1 DEF Locks, Inside, Snaps
<1>3. Moves(w) /\ Keeps(w) /\ pc'[w] # "write"
  BY Zenon, <1>1, ReturnMoves
<1>4. CASE snap[w].state # "active"
  BY Zenon, <1>1, <1>2, <1>3, <1>4, InactivePledge DEF Moves
<1>5. CASE snap[w].state = "active"
  <2>1. Active
    BY Zenon, <1>1, <1>5 DEF Active
  <2>2. Expired(acct) => Expired(acct)'
    BY Zenon, <1>1, <1>2 DEF Expired
  <2>3. ASSUME NEW v \in Worker, Owes(v), v # w PROVE Owes(v)'
    BY Zenon, <1>1, <1>3, <2>3 DEF Types, Owes, Moves, Alone
  <2>4. ASSUME Owes(w) PROVE Owes(w)'
    <3>1. Checking(stack[w])
      BY Zenon, <1>1, <1>5, <2>4 DEF Owes, Due, Settling
    <3>2. QED
      BY Zenon, <1>3, <3>1 DEF Keeps, Owes, Due, Settling
  <2>5. QED
    BY Zenon, <1>1, <1>3, <2>1, <2>2, <2>3, <2>4 DEF Pledge
<1>6. QED
  BY Zenon, <1>4, <1>5

\* The operator's writes.
LEMMA OperatorPledge ==
  ASSUME Types, Locks, Loops, Pledge, NEW w \in Worker, Toggle(w) \/ AdjustAccess(w)
  PROVE  Moves(w) /\ Pledge'
<1>1. pc[w] \in {"toggle", "adjust"} /\ w \in lock /\ stack[w] = <<>> /\ stack' = stack
  <2>1. pc[w] \in {"toggle", "adjust"} /\ stack' = stack
    BY Zenon DEF Toggle, AdjustAccess, At
  <2>2. QED
    BY Zenon, <2>1 DEF Locks, Inside, Loops, Fit, Outer
<1>2. Fit("idle", stack[w])
  BY Zenon, <1>1, NestEmpty DEF Fit, InLoop
<1>3. CASE Goto(w, "evaluate") /\ snap' = [snap EXCEPT ![w] = acct']
  BY Zenon, <1>1, <1>3, EvaluatePledge
<1>4. CASE Toggle(w) /\ Goto(w, "idle")
  <2>1. acct'.state \in {"pending", "disabled"}
    BY Zenon, <1>4 DEF Types, Account, Toggle
  <2>2. Moves(w) /\ pc'[w] = "idle"
    BY Zenon, <1>1, <1>2, <1>4, GotoMoves
  <2>3. QED
    BY Zenon, <1>1, <2>1, <2>2, InactivePledge DEF Moves
<1>5. CASE AdjustAccess(w) /\ acct' = acct /\ Forget(w) /\ Goto(w, "idle")
  <2>1. Aside(w)
    BY Zenon, <1>5 DEF Types, AdjustAccess, Forget, Aside, history
  <2>2. Moves(w) /\ Keeps(w) /\ pc'[w] = "idle"
    BY Zenon, <1>1, <1>2, <1>5, GotoMoves
  <2>3. pc[w] \notin Settling /\ pc[w] # "write" /\ pc[w] # "evaluate" /\ pc'[w] # "write"
    BY Zenon, <1>1, <2>2 DEF Settling
  <2>4. QED
    BY Zenon, <2>1, <2>2, <2>3, AsidePledge DEF Moves
<1>6. QED
  BY Zenon, <1>3, <1>4, <1>5 DEF Toggle, AdjustAccess

\* A step of one goroutine keeps the loops of all.
LEMMA MovesLoops ==
  ASSUME Loops, NEW w \in Worker, Moves(w)
  PROVE  Loops'
  BY Zenon DEF Loops, Moves, Alone

\* Until something fails.
Pledged == faults = 0 => Loops /\ Pledge

\* One step of the system keeps the pledge.
LEMMA PledgedStep ==
  ASSUME Inv, Owed, Pledged, [Next]_vars
  PROVE  Pledged'
<1>t. Types /\ Locks /\ Snaps
  BY Zenon DEF Inv
<1>1. ASSUME Fault PROVE Pledged'
  <2>1. faults' # 0
    BY <1>1 DEF Owed, Fault
  <2>2. QED
    BY Zenon, <2>1 DEF Pledged
<1>2. CASE Restart \/ \E w \in Worker : Fail(w) \/ OrderFails(w)
  BY Zenon, <1>1, <1>2 DEF Restart, Fail, OrderFails
<1>3. ASSUME NEW w \in Worker, Handler(w) \/ Host(w) \/ Operator(w), ~OrderFails(w) PROVE Pledged'
  <2>1. faults' = faults
    <3>1. CASE Handler(w)
      BY Zenon, <1>3, <3>1 DEF Handler, Poll, Refresh, Reconcile, Enter, Authorize, Checkout, PlaceOrder,
         Record, ListEnds, Abandon, Skip, Fetch, StoreStatus, MarkCredited, bounds
    <3>2. CASE Host(w)
      BY Zenon, <3>2 DEF Host, GrantAccess, Extend, CloseRead, CloseWrite, Refetch, StoreUndone, MarkRevoked,
         RevokeAccess, Reduce, ResetRevoked, Evaluate, Reopen, CheckStep, ConfirmRead, ConfirmWrite,
         Settle, WriteState, bounds
    <3>3. CASE Operator(w)
      BY Zenon, <3>3 DEF Operator, Operate, Toggle, AdjustAccess, SkipStep, SkipRead, SkipWrite, bounds
    <3>4. QED
      BY Zenon, <1>3, <3>1, <3>2, <3>3
  <2>2. CASE faults # 0
    BY Zenon, <2>1, <2>2 DEF Pledged
  <2>3. CASE faults = 0
    <3>1. Loops /\ Pledge
      BY Zenon, <2>3 DEF Pledged
    <3>2. CASE Handler(w)
      BY Zenon, <1>t, <1>3, <3>1, <3>2, LoopPledge, ListPledge, BeginPledge, MovesLoops DEF Handler, Pledged
    <3>3. CASE Host(w)
      BY Zenon, <1>t, <3>1, <3>3, LoopPledge, SettlingPledge, RevokePledge, DecidePledge, WritePledge, MovesLoops
         DEF Host, Pledged
    <3>4. CASE Operator(w)
      BY Zenon, <1>t, <3>1, <3>4, BeginPledge, SettlingPledge, OperatorPledge, MovesLoops DEF Operator, Pledged
    <3>5. QED
      BY Zenon, <1>3, <3>2, <3>3, <3>4
  <2>4. QED
    BY Zenon, <2>2, <2>3
<1>4. CASE Tick
  <2>1. UNCHANGED <<acct, step, pc, snap, stack, faults, unsettled>> /\ now' = now + 1
    BY Zenon, <1>4 DEF Tick, rows, thread, bounds, history
  <2>2. acct.until \in Int \union {NoExpiry} /\ now \in Int
    BY <1>t DEF Types, Account
  <2>3. acct.until <= now /\ acct.until # NoExpiry => acct.until <= now + 1
    BY <2>2
  <2>4. Expired(acct) => Expired(acct)'
    BY Zenon, <2>1, <2>3 DEF Expired
  <2>5. \A w \in Worker : Owes(w) => Owes(w)'
    BY Zenon, <2>1 DEF Owes
  <2>6. Active' => Active
    BY Zenon, <2>1 DEF Active
  <2>7. QED
    BY Zenon, <2>1, <2>4, <2>5, <2>6 DEF Pledged, Loops, Pledge
<1>5. CASE UNCHANGED vars \/ \E p \in Payment : Pays(p) \/ Undoes(p)
  <2>1. UNCHANGED <<now, acct, step, pc, snap, stack, faults, unsettled>>
    BY Zenon, <1>5 DEF vars, Pays, Undoes, rows, thread, bounds, history
  <2>2. \A w \in Worker : Owes(w) => Owes(w)'
    BY Zenon, <2>1 DEF Owes
  <2>3. (Active' => Active) /\ (Expired(acct) => Expired(acct)')
    BY Zenon, <2>1 DEF Active, Expired
  <2>4. QED
    BY Zenon, <2>1, <2>2, <2>3 DEF Pledged, Loops, Pledge
<1>6. QED
  BY Zenon, <1>2, <1>3, <1>4, <1>5 DEF Next

\* Unless a call fails, the process restarts, or a revocation reopens the step of
\* an account it has read as disabled: once the requests are over, an account
\* stored as active has its step closed or its period has run out.  However many
\* requests overlap, whoever reopens a step (Evaluate, RevokeAccess) or leaves one
\* open settles the state after it, and so does whoever grants or is inside them.
THEOREM StateSettledCorrect == Spec => []StateSettled
<1>1. Init => Owed
  BY Zenon, InitOwed
<1>2. Init => Pledged
  <2>1. ASSUME Init PROVE Pledged
    <3>1. Loops
      BY Zenon, <2>1, NestEmpty DEF Init, Loops, Fit, InLoop
    <3>2. acct.state # "active" /\ \A w \in Worker : pc[w] # "write"
      BY Zenon, <2>1 DEF Init, Nobody
    <3>3. QED
      BY Zenon, <3>1, <3>2 DEF Pledged, Pledge, Active
  <2>2. QED
    BY Zenon, <2>1
<1>3. Inv /\ Owed /\ Pledged /\ [Next]_vars => Owed' /\ Pledged'
  BY Zenon, OwedStep, PledgedStep
<1>4. Pledged => StateSettled
  <2> SUFFICES ASSUME Pledged, faults = 0, ~unsettled, \A w \in Worker : pc[w] = "idle",
                      acct.state = "active"
               PROVE  Closed(step) \/ Expired(acct)
    BY Zenon DEF StateSettled, At
  <2>1. \A w \in Worker : stack[w] = <<>>
    BY Zenon DEF Pledged, Loops, Fit, Outer
  <2>2. \A w \in Worker : ~Owes(w)
    BY Zenon, <2>1, NestEmpty DEF Owes, Due, Settling
  <2>3. QED
    BY Zenon, <2>2 DEF Pledged, Pledge, Active
<1>5. QED
  BY Invariant, <1>1, <1>2, <1>3, <1>4, PTL DEF Spec
=============================================================================
