---------------------------- MODULE AccessLedger ----------------------------
(***************************************************************************)
(* What an account's access end promises (accounts/step.go, Host): every   *)
(* purchase adds its days at most once and has them taken back at most     *)
(* once, each change counted from the end the one before it left, so that  *)
(* none is lost whoever makes them.                                        *)
(***************************************************************************)
EXTENDS Integers

CONSTANTS Payment,      \* the purchases
          Days,         \* Days[p]: the period p buys, 0 for no expiry
          OperatorDays, \* what an operator may move the end by
          NoExpiry      \* the zero access end

VARIABLES now, until, granted, returned

\* GrantAccess counts from now, or from the current end when that is later; an
\* end without expiry is the zero time, which is not later than now.
Extended(end, days) ==
  IF days = 0 THEN NoExpiry
  ELSE (IF end = NoExpiry \/ end <= now THEN now ELSE end) + days

\* RevokeAccess ends access now when the purchase, or what it left, has no expiry.
Reduced(end, days) == IF days = 0 \/ end = NoExpiry THEN now ELSE end - days

\* AdjustAccess moves an end that has passed forward from now.
Adjusted(end, d) == (IF d > 0 /\ now > end THEN now ELSE end) + d

Init == until = NoExpiry /\ granted = {} /\ returned = {}

Grant(p) ==
  /\ p \notin granted
  /\ granted' = granted \union {p}
  /\ until' = Extended(until, Days[p])
  /\ UNCHANGED <<now, returned>>

TakeBack(p) ==
  /\ p \notin returned
  /\ returned' = returned \union {p}
  /\ until' = Reduced(until, Days[p])
  /\ UNCHANGED <<now, granted>>

\* An operator cannot move an end that does not exist.
Adjust(d) ==
  /\ until # NoExpiry
  /\ until' = Adjusted(until, d)
  /\ UNCHANGED <<now, granted, returned>>

Tick == now' = now + 1 /\ UNCHANGED <<until, granted, returned>>

Next ==
  \/ \E p \in Payment : Grant(p) \/ TakeBack(p)
  \/ \E d \in OperatorDays : Adjust(d)
  \/ Tick

Spec == Init /\ [][Next]_<<now, until, granted, returned>>
=============================================================================
