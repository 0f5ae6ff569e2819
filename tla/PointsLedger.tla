---------------------------- MODULE PointsLedger ----------------------------
(***************************************************************************)
(* The points ledger kept in Postgres (api/src/points/points.service.ts).  *)
(* Every operation is one database transaction or one UPDATE statement, so *)
(* each is one step here: transfer moves points between two users at once; *)
(* a service payment is a row keyed by its contract that is reserved       *)
(* (pending), then settled (completed, points moved) or voided (cancelled).*)
(* Module PointsTransactions shows that the row locking of the code makes  *)
(* these steps atomic.                                                     *)
(***************************************************************************)
EXTENDS Sums, FiniteSets

CONSTANTS
  User,        \* users with a points balance
  Contract,    \* contract ids; at most one service payment per contract
  MinBalance   \* the floor of a balance (database/schema.ts, MIN_BALANCE)

ASSUME MinBalanceAssumption == MinBalance \in Int /\ MinBalance <= 0

VARIABLES
  balance,     \* points_balances: the balance of each user (a missing row is 0)
  payment,     \* points_transactions of type service_payment, by contract id
  transferred  \* the other points_transactions rows: net points per user

ledgerVars == <<balance, payment, transferred>>

PaymentStatus == {"pending", "completed", "cancelled"}

\* A contract without a payment row.
NoRow == [status |-> "none"]

PaymentRow ==
  [status : PaymentStatus, payer : User, payee : User, amount : Nat]

LedgerTypeOK ==
  /\ balance \in [User -> Int]
  /\ payment \in [Contract -> PaymentRow \cup {NoRow}]
  /\ transferred \in [User -> Int]

LedgerInit ==
  /\ balance = [u \in User |-> 0]
  /\ payment = [c \in Contract |-> NoRow]
  /\ transferred = [u \in User |-> 0]

-----------------------------------------------------------------------------
\* Mutant of Moved: the recipient is not credited.
MovedUncredited(f, sender, recipient, amount) ==
  [u \in User |-> f[u] - (IF u = sender THEN amount ELSE 0)]

\* applyBalanceDelta: the points leave the sender and reach the recipient.
Moved(f, sender, recipient, amount) ==
  [u \in User |-> f[u] - (IF u = sender THEN amount ELSE 0)
                       + (IF u = recipient THEN amount ELSE 0)]

\* The pre-write guard of transfer and of settleServicePayment.
CanPay(sender, amount) == balance[sender] - amount >= MinBalance

\* transfer: a user gives points to another one.
Transfer(sender, recipient, amount) ==
  /\ sender # recipient
  /\ CanPay(sender, amount)
  /\ balance' = Moved(balance, sender, recipient, amount)
  /\ transferred' = Moved(transferred, sender, recipient, amount)
  /\ UNCHANGED payment

\* reserveServicePayment: insert the pending row; no funds are held.
Reserve(c, payer, payee, amount) ==
  /\ payment' = [payment EXCEPT ![c] =
                   [status |-> "pending", payer |-> payer,
                    payee |-> payee, amount |-> amount]]
  /\ UNCHANGED <<balance, transferred>>

\* settleServicePayment would commit: the row is pending and the payer can pay.
Settleable(c) ==
  /\ payment[c].status = "pending"
  /\ CanPay(payment[c].payer, payment[c].amount)

Settle(c) ==
  /\ Settleable(c)
  /\ balance' = Moved(balance, payment[c].payer, payment[c].payee,
                      payment[c].amount)
  /\ payment' = [payment EXCEPT ![c].status = "completed"]
  /\ UNCHANGED transferred

\* isServicePaymentCompleted.
Completed(c) == payment[c].status = "completed"

\* Mutant of Void: the status filter is missing.
VoidAny(c) ==
  /\ payment' = IF payment[c].status = "none"
                  THEN payment
                  ELSE [payment EXCEPT ![c].status = "cancelled"]
  /\ UNCHANGED <<balance, transferred>>

\* cancelServicePayment: an UPDATE that only matches a pending row, so it
\* changes nothing when there is none.
Void(c) ==
  /\ payment' = IF payment[c].status = "pending"
                  THEN [payment EXCEPT ![c].status = "cancelled"]
                  ELSE payment
  /\ UNCHANGED <<balance, transferred>>

-----------------------------------------------------------------------------
\* What the payment row of c brought u: points received less points paid.
Share(c, u) ==
  IF Completed(c)
    THEN (IF payment[c].payee = u THEN payment[c].amount ELSE 0)
           - (IF payment[c].payer = u THEN payment[c].amount ELSE 0)
    ELSE 0

Earned(u) == Total([c \in Contract |-> Share(c, u)])

\* The rows of points_transactions explain every balance: nothing is moved
\* twice, half moved, or moved without a row, and no point is created or lost.
\* points.service.ts:109-160, 272-327.
LedgerReconciles ==
  /\ \A u \in User : balance[u] = transferred[u] + Earned(u)
  /\ Total(balance) = 0
=============================================================================
