------------------------------ MODULE Accounts ------------------------------
(***************************************************************************)
(* One account and its payment step (accounts/service.go,                  *)
(* accounts/payment/step.go): checkouts, webhooks, return pages, status    *)
(* checks, the poller and operator actions, each a goroutine that makes    *)
(* one store or provider call at a time, over an account store shared by   *)
(* them all.  The account's lock covers the read and the write of the      *)
(* account row; steps and payments are written outside it.  Any call may   *)
(* fail, and the process may restart with every row kept.                  *)
(***************************************************************************)
EXTENDS Integers, Sequences

CONSTANTS Worker,       \* goroutines that may be at work at once
          Payments,     \* payment rows are numbered 1..Payments, oldest first
          Days,         \* PeriodDays of each payment's plan, 0 for no expiry
          OperatorDays, \* what an operator may move the access end by
          RefundWindow, \* refundWindow, 0 when refunds are not acted on
          AbandonAfter, \* abandonAfter
          NoExpiry,     \* the zero AccessUntil
          MaxTime,      \* bound on the clock
          MaxFaults,    \* bound on failed calls and restarts
          MaxEvents     \* bound on the requests begun and the faults together

Payment == 1..Payments

ASSUME AccountsAssumption ==
  /\ Payments \in Nat /\ Days \in [Payment -> Nat] /\ OperatorDays \subseteq Int
  /\ RefundWindow \in Nat /\ AbandonAfter \in Nat /\ NoExpiry \notin Int
  /\ MaxTime \in Nat \ {0} /\ MaxFaults \in Nat /\ MaxEvents \in Nat

VARIABLES now,
          order,    \* at the provider: where each payment's order stands
          acct,     \* the account row: AccessUntil and State
          step,     \* the payment step's record
          pay,      \* the payment rows
          lock,     \* the account's lock in accountLocks, set of its holders
          pc, stack, snap, cur, seen,
          starts, faults,
          granted,  \* history: payments whose days were added
          returned, \* history: payments whose days were taken back
          unsettled \* history: a revocation reopened the step of an account it had
                    \* read as disabled, which its Evaluate leaves as it is
\* pc: the call a goroutine makes next; stack: the payments it still has to
\* reconcile, one frame per loop it is in; snap: the account as it last read or
\* wrote it; cur: the payment it credits or revokes; seen: the provider's answer
rows == <<acct, step, pay>>
thread == <<pc, stack, snap, cur, seen>>
bounds == <<starts, faults>>
history == <<granted, returned, unsettled>>
vars == <<now, order, rows, lock, thread, bounds, history>>

Ledger == INSTANCE AccessLedger WITH until <- acct.until

\* Failed, cancelled and refunded orders are treated alike: "undone".
Status == {"none", "created", "pending", "paid", "undone"}
Row == [status : Status, ext : BOOLEAN, at : 0..MaxTime, credited : 0..MaxTime, revoked : BOOLEAN]
Account == [until : Int \union {NoExpiry}, state : {"pending", "active", "expired", "disabled"}]
Label == {"idle", "order", "record", "reconcile", "store", "grant", "extend", "close",
          "closing", "undo", "unmark", "revoke", "reduce", "reset", "evaluate", "reopen", "list",
          "confirm", "confirming", "settle", "write", "toggle", "adjust", "skip", "skipping"}

\* A payment row not yet stored.
NoRow == [status |-> "none", ext |-> FALSE, at |-> 0, credited |-> 0, revoked |-> FALSE]

\* A registered account nobody has paid for yet.
Nobody == [until |-> NoExpiry, state |-> "pending"]

Open(status) == status \in {"created", "pending"}
Closed(st) == st \in {"done", "skipped"}
Expired(a) == a.until # NoExpiry /\ a.until <= now

Init ==
  /\ now = 1
  /\ order = [p \in Payment |-> "none"]
  /\ acct = Nobody
  /\ step = "pending"
  /\ pay = [p \in Payment |-> NoRow]
  /\ lock = {}
  /\ pc = [w \in Worker |-> "idle"]
  /\ stack = [w \in Worker |-> <<>>]
  /\ snap = [w \in Worker |-> Nobody]
  /\ cur = [w \in Worker |-> 0]
  /\ seen = [w \in Worker |-> "none"]
  /\ starts = 0 /\ faults = 0
  /\ granted = {} /\ returned = {} /\ unsettled = FALSE

-----------------------------------------------------------------------------
\* Control.

At(w, label) == pc[w] = label
Goto(w, label) == pc' = [pc EXCEPT ![w] = label]
Lock(w) == lock = {} /\ lock' = {w}
Unlock(w) == lock' = lock \ {w}
Read(w) == snap' = [snap EXCEPT ![w] = acct]
Forget(w) == snap' = [snap EXCEPT ![w] = Nobody]

\* The payment a goroutine is reconciling is the first of its innermost frame.
Frame(w) == Head(stack[w])
Handling(w) == stack[w] # <<>> /\ Frame(w).todo # <<>>
This(w) == Head(Frame(w).todo)
Drop(w) == stack' = [stack EXCEPT ![w][1].todo = Tail(@)]
Pop(w) == stack' = [stack EXCEPT ![w] = Tail(@)]

\* The rows of a listing as they are now, oldest first.  Those reconcile leaves
\* alone whatever the provider says, without an order or undone, are left out.
Listed(S) == SelectSeq([p \in Payment |-> [p |-> p, row |-> pay[p]]],
                       LAMBDA e : e.p \in S /\ e.row.status \in {"created", "pending", "paid"})

UpdatePayment(p, row) == pay' = [pay EXCEPT ![p].status = row.status, ![p].ext = row.ext]

\* A loop over a list is over: Evaluate's goes on to the state, others are done.
Leave(w) == Pop(w) /\ Goto(w, IF Frame(w).kind = "check" THEN "settle" ELSE "idle")

\* reconcile returns to the loop that called it.
Reconciled(w) ==
  IF Len(Frame(w).todo) = 1 /\ Frame(w).kind # "refunds" THEN Leave(w)
  ELSE Drop(w) /\ Goto(w, "reconcile")

\* Evaluate returns: to the handler, which is done, or to the reconcile whose
\* RevokeAccess called it, which is done in turn.
Return(w) ==
  IF stack[w] = <<>> THEN Goto(w, "idle") /\ UNCHANGED stack ELSE Reconciled(w)

Fault ==
  /\ faults < MaxFaults /\ starts + faults < MaxEvents
  /\ faults' = faults + 1

Start(w) ==
  /\ At(w, "idle") /\ starts + faults < MaxEvents
  /\ starts' = starts + 1

Enter(w, kind, todo) ==
  /\ Start(w)
  /\ stack' = [stack EXCEPT ![w] = <<[kind |-> kind, todo |-> todo]>>]
  /\ Goto(w, "reconcile")
  /\ UNCHANGED <<now, order, rows, lock, snap, cur, seen, faults, history>>

-----------------------------------------------------------------------------
\* The provider and the user, who pays the order they were sent to.

Pays(p) ==
  /\ order[p] = "pending" /\ pay[p].ext
  /\ order' = [order EXCEPT ![p] = "paid"]
  /\ UNCHANGED <<now, rows, lock, thread, bounds, history>>

\* An order fails or is cancelled, or is refunded once paid.
Undoes(p) ==
  /\ order[p] \in {"pending", "paid"}
  /\ order' = [order EXCEPT ![p] = "undone"]
  /\ UNCHANGED <<now, rows, lock, thread, bounds, history>>

Tick ==
  /\ now < MaxTime /\ now' = now + 1
  /\ UNCHANGED <<order, rows, lock, thread, bounds, history>>

-----------------------------------------------------------------------------
\* The payment step's handlers.

\* handleCheckout: the row is stored first, so that the order can name it.
Checkout(w, p) ==
  LET row == [NoRow EXCEPT !.status = "created", !.at = now] IN
  /\ Start(w)
  /\ pay[p] = NoRow /\ \A q \in 1..(p - 1) : pay[q] # NoRow
  /\ pay' = [pay EXCEPT ![p] = row]
  /\ stack' = [stack EXCEPT ![w] = <<[kind |-> "checkout", todo |-> <<[p |-> p, row |-> row]>>]>>]
  /\ Goto(w, "order")
  /\ UNCHANGED <<now, order, acct, step, lock, snap, cur, seen, faults, history>>

\* provider.Checkout opens the order, or fails and the payment with it.
PlaceOrder(w) ==
  /\ At(w, "order")
  /\ order' = [order EXCEPT ![This(w).p] = "pending"]
  /\ stack' = [stack EXCEPT ![w][1].todo[1].row = [@ EXCEPT !.ext = TRUE, !.status = "pending"]]
  /\ Goto(w, "record")
  /\ UNCHANGED <<now, rows, lock, snap, cur, seen, bounds, history>>

OrderFails(w) ==
  /\ At(w, "order") /\ Fault
  /\ stack' = [stack EXCEPT ![w][1].todo[1].row.status = "undone"]
  /\ Goto(w, "record")
  /\ UNCHANGED <<now, order, rows, lock, snap, cur, seen, starts, history>>

Record(w) ==
  /\ At(w, "record")
  /\ UpdatePayment(This(w).p, This(w).row)
  /\ Pop(w) /\ Goto(w, "idle")
  /\ UNCHANGED <<now, order, acct, step, lock, snap, cur, seen, bounds, history>>

\* handleWebhook and handleReturn reconcile the one payment they are told of.
Reconcile(w, p) == pay[p].ext /\ Enter(w, "hook", Listed({p}))

\* handleRefresh checks every payment of the account.
Refresh(w) == Enter(w, "page", Listed(Payment))

\* One goroutine polls.  pollRefunds comes first; it lists the payments credited
\* within the window, in an order that does not matter here.
Poll(w) ==
  /\ \A v \in Worker : \A i \in DOMAIN stack[v] : stack[v][i].kind \notin {"refunds", "open"}
  /\ Enter(w, "refunds", Listed({p \in Payment : /\ RefundWindow > 0 /\ ~pay[p].revoked
                                                /\ pay[p].credited > 0
                                                /\ pay[p].credited >= now - RefundWindow}))

\* A list was empty, or the credited ones are done: Poll goes on to the open ones.
ListEnds(w) ==
  /\ At(w, "reconcile") /\ Frame(w).todo = <<>>
  /\ IF Frame(w).kind = "refunds"
     THEN /\ stack' = [stack EXCEPT ![w] = <<[kind |-> "open",
                         todo |-> Listed({p \in Payment : Open(pay[p].status)})]>>]
          /\ UNCHANGED pc
     ELSE Leave(w)
  /\ UNCHANGED <<now, order, rows, lock, snap, cur, seen, bounds, history>>

-----------------------------------------------------------------------------
\* reconcile, on the row as it was when listed.

Reconciling(w) == At(w, "reconcile") /\ Handling(w)
TooOld(w) == Frame(w).kind = "open" /\ Open(This(w).row.status) /\ now - This(w).row.at > AbandonAfter
Uncredited(row) == row.ext /\ row.status = "paid" /\ row.credited = 0

Abandon(w) ==
  /\ Reconciling(w) /\ TooOld(w)
  /\ UpdatePayment(This(w).p, [This(w).row EXCEPT !.status = "undone"])
  /\ Reconciled(w)
  /\ UNCHANGED <<now, order, acct, step, lock, snap, cur, seen, bounds, history>>

\* Nothing to do, not due yet, or the provider did not answer.
Skip(w) ==
  /\ Reconciling(w) /\ ~TooOld(w) /\ ~Uncredited(This(w).row)
  /\ Reconciled(w)
  /\ UNCHANGED <<now, order, rows, lock, snap, cur, seen, bounds, history>>

Fetch(w) ==
  /\ Reconciling(w) /\ ~TooOld(w) /\ This(w).row.ext /\ Open(This(w).row.status)
  /\ LET answer == order[This(w).p] IN
     IF answer # This(w).row.status
     THEN /\ seen' = [seen EXCEPT ![w] = answer]
          /\ Goto(w, "store") /\ UNCHANGED stack
     ELSE Reconciled(w) /\ UNCHANGED seen
  /\ UNCHANGED <<now, order, rows, lock, snap, cur, bounds, history>>

StoreStatus(w) ==
  /\ At(w, "store")
  /\ LET row == [This(w).row EXCEPT !.status = seen[w]] IN
     /\ UpdatePayment(This(w).p, row)
     /\ stack' = [stack EXCEPT ![w][1].todo[1].row = row]
  /\ seen' = [seen EXCEPT ![w] = "none"]
  /\ Goto(w, "reconcile")
  /\ UNCHANGED <<now, order, acct, step, lock, snap, cur, bounds, history>>

\* FAULTY credit: whether the payment is credited is known from the listed row.
MarkCredited_NoCompare(w) ==
  /\ Reconciling(w) /\ Uncredited(This(w).row)
  /\ pay' = [pay EXCEPT ![This(w).p].credited = now]
  /\ cur' = [cur EXCEPT ![w] = This(w).p]
  /\ Goto(w, "grant")
  /\ UNCHANGED <<now, order, acct, step, lock, stack, snap, seen, bounds, history>>

\* credit: MarkPaymentCredited lets one caller through.
MarkCredited(w) ==
  /\ Reconciling(w) /\ Uncredited(This(w).row)
  /\ \E p \in Payment :
       /\ p = This(w).p
       /\ IF pay[p].credited = 0
          THEN /\ pay' = [pay EXCEPT ![p].credited = now]
               /\ cur' = [cur EXCEPT ![w] = p]
               /\ Goto(w, "grant") /\ UNCHANGED stack
          ELSE Reconciled(w) /\ UNCHANGED <<pay, cur>>
  /\ UNCHANGED <<now, order, acct, step, lock, snap, seen, bounds, history>>

-----------------------------------------------------------------------------
\* GrantAccess, under the account's lock.

\* FAULTY GrantAccess: the step is closed before the access end is written.
GrantAccess_CloseFirst(w) ==
  /\ At(w, "grant") /\ Lock(w) /\ Read(w)
  /\ step' = "done"
  /\ Goto(w, "extend")
  /\ UNCHANGED <<now, order, acct, pay, stack, cur, seen, bounds, history>>

\* FAULTY GrantAccess: the account is read before its lock is taken.
GrantAccess_Unlocked(w) ==
  /\ At(w, "grant") /\ Read(w)
  /\ Goto(w, "extend")
  /\ UNCHANGED <<now, order, rows, lock, stack, cur, seen, bounds, history>>

GrantAccess(w) ==
  /\ At(w, "grant") /\ Lock(w) /\ Read(w)
  /\ Goto(w, "extend")
  /\ UNCHANGED <<now, order, rows, stack, cur, seen, bounds, history>>

Extend(w) ==
  /\ At(w, "extend")
  /\ acct' = [snap[w] EXCEPT !.until = Ledger!Extended(@, Days[cur[w]])]
  /\ granted' = granted \union {cur[w]}
  /\ cur' = [cur EXCEPT ![w] = 0]
  /\ Forget(w) /\ Goto(w, "close")
  /\ UNCHANGED <<now, order, step, pay, lock, stack, seen, bounds, returned, unsettled>>

\* reconcile reports the grant: Check stops there, and Evaluate closes the step
\* once more.
Credited(w) ==
  CASE Frame(w).kind = "check" -> Pop(w) /\ Goto(w, "confirm")
    [] Frame(w).kind = "page"  -> Pop(w) /\ Goto(w, "idle")
    [] OTHER -> Reconciled(w)

\* closeStep reads the record, and writes it unless it is closed.
CloseRead(w) ==
  /\ At(w, "close")
  /\ IF Closed(step) THEN Unlock(w) /\ Credited(w)
     ELSE Goto(w, "closing") /\ UNCHANGED <<lock, stack>>
  /\ UNCHANGED <<now, order, rows, snap, cur, seen, bounds, history>>

CloseWrite(w) ==
  /\ At(w, "closing")
  /\ step' = "done"
  /\ Unlock(w) /\ Credited(w)
  /\ UNCHANGED <<now, order, acct, pay, snap, cur, seen, bounds, history>>

-----------------------------------------------------------------------------
\* recheckRefund and RevokeAccess.

Refetch(w) ==
  /\ Reconciling(w)
  /\ LET row == This(w).row IN
     /\ row.ext /\ row.status = "paid" /\ row.credited > 0 /\ ~row.revoked
     /\ RefundWindow > 0 /\ now - row.credited <= RefundWindow
  /\ IF order[This(w).p] = "undone"
     THEN Goto(w, "undo") /\ UNCHANGED stack
     ELSE Reconciled(w)
  /\ UNCHANGED <<now, order, rows, lock, snap, cur, seen, bounds, history>>

StoreUndone(w) ==
  /\ At(w, "undo")
  /\ UpdatePayment(This(w).p, [This(w).row EXCEPT !.status = "undone"])
  /\ Goto(w, "unmark")
  /\ UNCHANGED <<now, order, acct, step, lock, stack, snap, cur, seen, bounds, history>>

MarkRevoked(w) ==
  /\ At(w, "unmark")
  /\ \E p \in Payment :
       /\ p = This(w).p
       /\ IF pay[p].credited > 0 /\ ~pay[p].revoked
          THEN /\ pay' = [pay EXCEPT ![p].revoked = TRUE]
               /\ cur' = [cur EXCEPT ![w] = p]
               /\ Goto(w, "revoke") /\ UNCHANGED stack
          ELSE Reconciled(w) /\ UNCHANGED <<pay, cur>>
  /\ UNCHANGED <<now, order, acct, step, lock, snap, seen, bounds, history>>

\* FAULTY RevokeAccess: an account whose period is over has nothing to give back.
RevokeAccess_OnlyCurrent(w) ==
  /\ At(w, "revoke") /\ lock = {}
  /\ cur' = [cur EXCEPT ![w] = IF Expired(acct) THEN 0 ELSE @]
  /\ IF Expired(acct) THEN Reconciled(w) /\ UNCHANGED <<lock, snap>>
     ELSE Lock(w) /\ Read(w) /\ Goto(w, "reduce") /\ UNCHANGED stack
  /\ UNCHANGED <<now, order, rows, seen, bounds, history>>

RevokeAccess(w) ==
  /\ At(w, "revoke") /\ Lock(w) /\ Read(w)
  /\ Goto(w, "reduce")
  /\ UNCHANGED <<now, order, rows, stack, cur, seen, bounds, history>>

\* The lock is given up before the step is reopened and the account evaluated.
Reduce(w) ==
  /\ At(w, "reduce")
  /\ acct' = [snap[w] EXCEPT !.until = Ledger!Reduced(@, Days[cur[w]])]
  /\ returned' = returned \union {cur[w]}
  /\ snap' = [snap EXCEPT ![w] = acct']
  /\ cur' = [cur EXCEPT ![w] = 0]
  /\ Unlock(w)
  /\ Goto(w, IF Expired(acct') THEN "reset" ELSE "evaluate")
  /\ UNCHANGED <<now, order, step, pay, stack, seen, bounds, granted, unsettled>>

ResetRevoked(w) ==
  /\ At(w, "reset")
  /\ step' = "pending"
  /\ unsettled' = (unsettled \/ snap[w].state = "disabled")
  /\ Goto(w, "evaluate")
  /\ UNCHANGED <<now, order, acct, pay, lock, stack, snap, cur, seen, bounds, granted, returned>>

-----------------------------------------------------------------------------
\* Evaluate, from Authorize or at the end of an operator action or revocation.

\* Authorize, with the account as the request's session found it.  An active
\* account inside its period is let in at once.
Authorize(w) ==
  /\ Start(w)
  /\ acct.state # "active" \/ Expired(acct)
  /\ Read(w)
  /\ Goto(w, "evaluate")
  /\ UNCHANGED <<now, order, rows, lock, stack, cur, seen, faults, history>>

\* The steps' records are read; what the period was is known from before.
Evaluate(w) ==
  /\ At(w, "evaluate")
  /\ CASE snap[w].state = "disabled" -> Return(w)
       [] snap[w].state # "disabled" /\ step = "done" /\ Expired(snap[w]) ->
            Goto(w, "reopen") /\ UNCHANGED stack
       [] snap[w].state # "disabled" /\ Closed(step) /\ ~(step = "done" /\ Expired(snap[w])) ->
            Goto(w, "settle") /\ UNCHANGED stack
       [] OTHER -> Goto(w, "list") /\ UNCHANGED stack
  /\ Forget(w)
  /\ UNCHANGED <<now, order, rows, lock, cur, seen, bounds, history>>

\* FAULTY Evaluate: the state is left for the next request to settle.
Reopen_Returns(w) ==
  /\ At(w, "reopen")
  /\ step' = "pending"
  /\ Return(w)
  /\ UNCHANGED <<now, order, acct, pay, lock, snap, cur, seen, bounds, history>>

\* A lapsed period reopens the renewable step it had closed.
Reopen(w) ==
  /\ At(w, "reopen")
  /\ step' = "pending"
  /\ Goto(w, "list")
  /\ UNCHANGED <<now, order, acct, pay, lock, stack, snap, cur, seen, bounds, history>>

\* Check lists the account's payments, to be reconciled oldest first.
CheckStep(w) ==
  /\ At(w, "list")
  /\ stack' = [stack EXCEPT ![w] =
                 <<[kind |-> "check", todo |-> Listed(Payment)]>> \o @]
  /\ Goto(w, "reconcile")
  /\ UNCHANGED <<now, order, rows, lock, snap, cur, seen, bounds, history>>

\* Evaluate's own closeStep, outside the lock.
ConfirmRead(w) ==
  /\ At(w, "confirm")
  /\ Goto(w, IF Closed(step) THEN "settle" ELSE "confirming")
  /\ UNCHANGED <<now, order, rows, lock, stack, snap, cur, seen, bounds, history>>

ConfirmWrite(w) ==
  /\ At(w, "confirming")
  /\ step' = "done"
  /\ Goto(w, "settle")
  /\ UNCHANGED <<now, order, acct, pay, lock, stack, snap, cur, seen, bounds, history>>

Settled == IF Expired(acct) THEN "expired" ELSE IF Closed(step) THEN "active" ELSE "pending"

\* Both are read back under the lock, which is kept while a new state is stored.
Settle(w) ==
  /\ At(w, "settle") /\ lock = {}
  /\ IF acct.state \in {"disabled", Settled}
     THEN Return(w) /\ UNCHANGED <<lock, snap>>
     ELSE /\ Lock(w)
          /\ snap' = [snap EXCEPT ![w] = [acct EXCEPT !.state = Settled]]
          /\ Goto(w, "write") /\ UNCHANGED stack
  /\ UNCHANGED <<now, order, rows, cur, seen, bounds, history>>

WriteState(w) ==
  /\ At(w, "write")
  /\ acct' = snap[w]
  /\ Unlock(w) /\ Forget(w) /\ Return(w)
  /\ UNCHANGED <<now, order, step, pay, cur, seen, bounds, history>>

-----------------------------------------------------------------------------
\* Operator actions.

Operate(w, label) ==
  /\ Start(w) /\ Lock(w) /\ Read(w)
  /\ Goto(w, label)
  /\ UNCHANGED <<now, order, rows, stack, cur, seen, faults, history>>

\* SetDisabled either way.  A re-enabled account is pending until evaluated.
Toggle(w) ==
  LET to == IF snap[w].state = "disabled" THEN "pending" ELSE "disabled" IN
  /\ At(w, "toggle")
  /\ acct' = [snap[w] EXCEPT !.state = to]
  /\ Unlock(w)
  /\ IF to = "pending" THEN snap' = [snap EXCEPT ![w] = acct'] /\ Goto(w, "evaluate")
                       ELSE Forget(w) /\ Goto(w, "idle")
  /\ UNCHANGED <<now, order, step, pay, stack, cur, seen, bounds, history>>

AdjustAccess(w) ==
  /\ At(w, "adjust") /\ Unlock(w)
  /\ IF snap[w].until = NoExpiry
     THEN UNCHANGED acct /\ Forget(w) /\ Goto(w, "idle")
     ELSE /\ \E d \in OperatorDays :
               acct' = [snap[w] EXCEPT !.until = Ledger!Adjusted(@, d)]
          /\ snap' = [snap EXCEPT ![w] = acct']
          /\ Goto(w, "evaluate")
  /\ UNCHANGED <<now, order, step, pay, stack, cur, seen, bounds, history>>

\* SkipStep reads the account and closes the step without the lock.
SkipStep(w) ==
  /\ Start(w) /\ Read(w)
  /\ Goto(w, "skip")
  /\ UNCHANGED <<now, order, rows, lock, stack, cur, seen, faults, history>>

SkipRead(w) ==
  /\ At(w, "skip")
  /\ Goto(w, IF Closed(step) THEN "evaluate" ELSE "skipping")
  /\ UNCHANGED <<now, order, rows, lock, stack, snap, cur, seen, bounds, history>>

SkipWrite(w) ==
  /\ At(w, "skipping")
  /\ step' = "skipped"
  /\ Goto(w, "evaluate")
  /\ UNCHANGED <<now, order, acct, pay, lock, stack, snap, cur, seen, bounds, history>>

-----------------------------------------------------------------------------
\* Faults.

\* The call a goroutine is about to make fails.  reconcile gives its payment up
\* and its loop goes on; a failed Check is only logged; Evaluate gives up.
Fail(w) ==
  /\ Fault
  /\ Unlock(w) /\ Forget(w)
  /\ cur' = [cur EXCEPT ![w] = 0] /\ seen' = [seen EXCEPT ![w] = "none"]
  /\ \/ /\ \/ pc[w] \in {"store", "grant", "extend", "close", "closing", "undo", "unmark", "revoke", "reduce", "reset"}
           \/ Reconciling(w) /\ Uncredited(This(w).row)
        /\ Reconciled(w)
     \/ At(w, "list") /\ Goto(w, "settle") /\ UNCHANGED stack
     \/ pc[w] \in {"evaluate", "reopen", "confirm", "confirming", "settle", "write"} /\ Return(w)
     \/ pc[w] \in {"record", "toggle", "adjust", "skip", "skipping"}
        /\ Goto(w, "idle") /\ stack' = [stack EXCEPT ![w] = <<>>]
  /\ UNCHANGED <<now, order, rows, starts, history>>

\* The process stops and starts again; what it stored is kept.
Restart ==
  /\ Fault
  /\ lock' = {}
  /\ pc' = [w \in Worker |-> "idle"] /\ stack' = [w \in Worker |-> <<>>]
  /\ snap' = [w \in Worker |-> Nobody] /\ cur' = [w \in Worker |-> 0]
  /\ seen' = [w \in Worker |-> "none"]
  /\ UNCHANGED <<now, order, rows, starts, history>>

-----------------------------------------------------------------------------
Handler(w) ==
  \/ Poll(w) \/ Refresh(w) \/ Authorize(w) \/ \E p \in Payment : Checkout(w, p) \/ Reconcile(w, p)
  \/ PlaceOrder(w) \/ OrderFails(w) \/ Record(w)
  \/ ListEnds(w) \/ Abandon(w) \/ Skip(w) \/ Fetch(w) \/ StoreStatus(w) \/ MarkCredited(w)

Host(w) ==
  \/ GrantAccess(w) \/ Extend(w) \/ CloseRead(w) \/ CloseWrite(w)
  \/ Refetch(w) \/ StoreUndone(w) \/ MarkRevoked(w) \/ RevokeAccess(w) \/ Reduce(w) \/ ResetRevoked(w)
  \/ Evaluate(w) \/ Reopen(w) \/ CheckStep(w) \/ ConfirmRead(w) \/ ConfirmWrite(w)
  \/ Settle(w) \/ WriteState(w)

Operator(w) ==
  \/ Operate(w, "toggle") \/ (OperatorDays # {} /\ Operate(w, "adjust")) \/ Toggle(w) \/ AdjustAccess(w)
  \/ SkipStep(w) \/ SkipRead(w) \/ SkipWrite(w)

Next ==
  \/ \E w \in Worker : Handler(w) \/ Host(w) \/ Operator(w) \/ Fail(w)
  \/ \E p \in Payment : Pays(p) \/ Undoes(p)
  \/ Tick \/ Restart

Spec == Init /\ [][Next]_vars

-----------------------------------------------------------------------------
\* Properties.

\* Every variable keeps its type; the goroutine's frames hold rows of payments.
TypeOK ==
  /\ now \in 1..MaxTime /\ starts \in 0..MaxEvents /\ faults \in 0..MaxFaults
  /\ order \in [Payment -> {"none", "pending", "paid", "undone"}]
  /\ acct \in Account /\ step \in {"pending", "done", "skipped"}
  /\ pay \in [Payment -> Row]
  /\ lock \subseteq Worker /\ pc \in [Worker -> Label] /\ snap \in [Worker -> Account]
  /\ cur \in [Worker -> 0..Payments] /\ seen \in [Worker -> Status]
  /\ \A w \in Worker : \A i \in DOMAIN stack[w] :
       \A j \in DOMAIN stack[w][i].todo : stack[w][i].todo[j] \in [p : Payment, row : Row]
  /\ granted \subseteq Payment /\ returned \subseteq Payment /\ unsettled \in BOOLEAN

\* GrantAccess writes the access end before it closes the step: whatever fails or
\* restarts in between, a step counts as done only for an account somebody paid
\* for, and its access is without an end only if a plan without an end was bought.
OnlyPaidPasses ==
  step = "done" => /\ granted # {}
                   /\ acct.until = NoExpiry => \E p \in granted : Days[p] = 0

\* Once every request is over and nothing has failed, the days of a payment were
\* added if it is marked credited, and taken back if it is marked revoked.
MarksHonoured ==
  (faults = 0 /\ \A w \in Worker : At(w, "idle")) =>
    /\ granted = {p \in Payment : pay[p].credited > 0}
    /\ returned = {p \in Payment : pay[p].revoked}

\* Once every request is over and nothing has failed, an account stored as active
\* has its step closed, unless its period has run out since: whoever reopens a
\* step settles the state after it.  One case is left out, because the code does
\* not keep it: RevokeAccess reopens the step of an account it has read as disabled
\* after the operator enabled it again, and has Evaluate settle the row it read.
StateSettled ==
  (faults = 0 /\ ~unsettled /\ (\A w \in Worker : At(w, "idle")) /\ acct.state = "active") =>
    Closed(step) \/ Expired(acct)

\* A disabled account stays disabled until the operator enables it, whatever
\* grants, revocations and evaluations are under way.
DisabledKept ==
  [][acct.state = "disabled" /\ acct'.state # "disabled" =>
       \E w \in Worker : Toggle(w)]_vars

\* The access end is the ledger's: no extension is lost, given twice or taken
\* back twice by goroutines that work on one account at once.
ImplementsLedger == Ledger!Spec

\* "once access has run out, the payment step reopens" (docs/meta-api.md): a step
\* is reopened only while the account's access has run out.
ReopensWhenRunOut == [][Closed(step) /\ step' = "pending" => Expired(acct)]_vars
=============================================================================
