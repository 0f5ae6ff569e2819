---------------------------- MODULE BookingDeal -----------------------------
(***************************************************************************)
(* What the booking of a paid service promises its two parties, without    *)
(* contracts, reservations or handlers: a request is agreed to, refused or *)
(* withdrawn; an agreed deal may fall back to a request, be withdrawn, or  *)
(* be paid, once, by its payer to its payee.  Refused, withdrawn and paid  *)
(* are final, and points otherwise move only as gifts.                     *)
(***************************************************************************)
EXTENDS Integers

CONSTANTS User, Booking, NoUser, Owner, OwnerPays, Price, MinBalance, Gift

VARIABLES deal, balance

dealVars == <<deal, balance>>

DealStates == {"absent", "requested", "agreed", "refused", "withdrawn", "paid"}

Init ==
  /\ deal = [b \in Booking |-> [state |-> "absent", initiator |-> NoUser]]
  /\ balance = [u \in User |-> 0]

Change(b, from, to) ==
  /\ deal[b].state \in from
  /\ deal' = [deal EXCEPT ![b].state = to]

Ask(b, u) ==
  /\ deal[b].state = "absent"
  /\ u # Owner
  /\ deal' = [deal EXCEPT ![b] = [state |-> "requested", initiator |-> u]]
  /\ UNCHANGED balance

Agree(b) == Change(b, {"requested"}, "agreed") /\ UNCHANGED balance
FallBack(b) == Change(b, {"agreed"}, "requested") /\ UNCHANGED balance
Refuse(b) == Change(b, {"requested"}, "refused") /\ UNCHANGED balance

Withdraw(b) ==
  Change(b, {"requested", "agreed"}, "withdrawn") /\ UNCHANGED balance

\* from gives amount to to, and stays above the floor.
Give(from, to, amount) ==
  /\ from # to
  /\ balance[from] - amount >= MinBalance
  /\ balance' = [balance EXCEPT ![from] = @ - amount, ![to] = @ + amount]

Pay(b) ==
  /\ Change(b, {"agreed"}, "paid")
  /\ IF OwnerPays THEN Give(Owner, deal[b].initiator, Price)
                  ELSE Give(deal[b].initiator, Owner, Price)

Next ==
  \/ \E b \in Booking :
       \/ \E u \in User : Ask(b, u)
       \/ Agree(b) \/ FallBack(b) \/ Refuse(b) \/ Withdraw(b) \/ Pay(b)
  \/ \E u, v \in User, amount \in Gift : Give(u, v, amount) /\ UNCHANGED deal

Spec == Init /\ [][Next]_dealVars
=============================================================================
