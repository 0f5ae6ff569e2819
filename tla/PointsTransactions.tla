------------------------- MODULE PointsTransactions -------------------------
(***************************************************************************)
(* How api/src/points/points.service.ts makes the steps of PointsLedger    *)
(* atomic: the statements of its Postgres transactions and the row locks   *)
(* they take (READ COMMITTED).  Each action is one statement; a statement  *)
(* that has to wait for a lock is not enabled.  A transaction writes rows  *)
(* that it holds locked, so what it wrote becomes visible at its commit.   *)
(***************************************************************************)
EXTENDS PointsLedger

CONSTANTS
  Tx,          \* the transactions that may be open at the same time
  NoTx,
  NoContract,
  MaxUser,     \* the largest user id (a uuid has 128 bits)
  Amount       \* the amounts of transfers and payments

\* User ids are ordered, as the uuids that lockBalances sorts.
ASSUME TransactionAssumption ==
  /\ MaxUser \in Nat /\ User \subseteq 0..MaxUser
  /\ NoTx \notin Tx /\ NoContract \notin Contract
  /\ Amount \subseteq Nat

VARIABLES
  row,         \* users whose points_balances row is committed
  holder,      \* the transaction that inserted or locked the row of a user
  payHolder,   \* the transaction that locked the payment row of a contract
  at,          \* the statement a transaction executes next
  job          \* what it was asked to do

lockVars == <<row, holder, payHolder>>
transactionVars == <<ledgerVars, lockVars, at, job>>

Statement == {"none", "payment", "insertFirst", "insertSecond", "lockFirst",
              "lockSecond", "debit", "credit", "commit"}

Job == [sender : User, recipient : User, amount : Nat,
        contract : Contract \cup {NoContract}]

NoJob == [contract |-> NoContract]

TypeOK ==
  /\ LedgerTypeOK
  /\ row \subseteq User
  /\ holder \in [User -> Tx \cup {NoTx}]
  /\ payHolder \in [Contract -> Tx \cup {NoTx}]
  /\ at \in [Tx -> Statement]
  /\ job \in [Tx -> Job \cup {NoJob}]

Init ==
  /\ LedgerInit
  /\ row = {}
  /\ holder = [u \in User |-> NoTx]
  /\ payHolder = [c \in Contract |-> NoTx]
  /\ at = [t \in Tx |-> "none"]
  /\ job = [t \in Tx |-> NoJob]

-----------------------------------------------------------------------------
\* Mutant of Earlier: the ids are locked in the order given.
SenderFirst(t) == job[t].sender

\* lockBalances sorts the two ids.
Earlier(t) ==
  IF job[t].sender < job[t].recipient THEN job[t].sender ELSE job[t].recipient

Later(t) ==
  IF Earlier(t) = job[t].sender THEN job[t].recipient ELSE job[t].sender

Free(f, x, t) == f[x] \in {NoTx, t}

Goto(t, statement) == at' = [at EXCEPT ![t] = statement]

\* A transaction that ends releases its locks.
End(t) ==
  /\ holder' = [u \in User |-> IF holder[u] = t THEN NoTx ELSE holder[u]]
  /\ payHolder' = [c \in Contract |-> IF payHolder[c] = t THEN NoTx ELSE payHolder[c]]
  /\ Goto(t, "none")
  /\ job' = [job EXCEPT ![t] = NoJob]

\* The transaction ends without effect: its inserted rows are gone.
Rollback(t) ==
  /\ End(t)
  /\ UNCHANGED <<ledgerVars, row>>

-----------------------------------------------------------------------------
\* transfer: nothing precedes lockBalances but reads of other tables.
BeginTransfer(t, u, v, amount) ==
  /\ at[t] = "none"
  /\ u # v
  /\ job' = [job EXCEPT ![t] = [sender |-> u, recipient |-> v, amount |-> amount,
                                contract |-> NoContract]]
  /\ Goto(t, "insertFirst")
  /\ UNCHANGED <<ledgerVars, lockVars>>

\* settleServicePayment of a contract that has a payment row; it throws
\* when there is none.
BeginSettle(t, c) ==
  /\ at[t] = "none"
  /\ payment[c].status # "none"
  /\ job' = [job EXCEPT ![t] = [sender |-> payment[c].payer,
                                recipient |-> payment[c].payee,
                                amount |-> payment[c].amount, contract |-> c]]
  /\ Goto(t, "payment")
  /\ UNCHANGED <<ledgerVars, lockVars>>

\* Mutant of LockPayment: the payment row is read without FOR UPDATE.
ReadPayment(t) ==
  LET c == job[t].contract
  IN  /\ at[t] = "payment"
      /\ IF payment[c].status = "pending"
           THEN /\ Goto(t, "insertFirst")
                /\ UNCHANGED <<ledgerVars, lockVars, job>>
           ELSE Rollback(t)

\* SELECT ... FOR UPDATE of the payment row.  A completed payment ends the
\* transaction (null), a cancelled one too (an exception).
LockPayment(t) ==
  LET c == job[t].contract
  IN  /\ at[t] = "payment"
      /\ Free(payHolder, c, t)
      /\ IF payment[c].status = "pending"
           THEN /\ payHolder' = [payHolder EXCEPT ![c] = t]
                /\ Goto(t, "insertFirst")
                /\ UNCHANGED <<ledgerVars, row, holder, job>>
           ELSE Rollback(t)

\* One row of the INSERT ... ON CONFLICT DO NOTHING: a committed row is left
\* alone, a row another transaction has just inserted is waited for.
InsertRow(t, u) ==
  IF u \in row
    THEN UNCHANGED holder
    ELSE Free(holder, u, t) /\ holder' = [holder EXCEPT ![u] = t]

InsertFirst(t) ==
  /\ at[t] = "insertFirst"
  /\ InsertRow(t, Earlier(t))
  /\ Goto(t, "insertSecond")
  /\ UNCHANGED <<ledgerVars, row, payHolder, job>>

InsertSecond(t) ==
  /\ at[t] = "insertSecond"
  /\ InsertRow(t, Later(t))
  /\ Goto(t, "lockFirst")
  /\ UNCHANGED <<ledgerVars, row, payHolder, job>>

\* The lock that FOR UPDATE, or an UPDATE, takes on the row of u.
TakeRow(t, u) == Free(holder, u, t) /\ holder' = [holder EXCEPT ![u] = t]

\* SELECT ... ORDER BY user_id FOR UPDATE locks its two rows one by one.
LockFirst(t) ==
  /\ at[t] = "lockFirst"
  /\ TakeRow(t, Earlier(t))
  /\ Goto(t, "lockSecond")
  /\ UNCHANGED <<ledgerVars, row, payHolder, job>>

\* The second lock, and the pre-write guard on the balance it returns.
LockSecond(t) ==
  /\ at[t] = "lockSecond"
  /\ Free(holder, Later(t), t)
  /\ IF CanPay(job[t].sender, job[t].amount)
       THEN /\ TakeRow(t, Later(t))
            /\ Goto(t, "debit")
            /\ UNCHANGED <<ledgerVars, row, payHolder, job>>
       ELSE Rollback(t)

\* applyBalanceDelta, first UPDATE.  It checks the CHECK constraint of the
\* table, whose violation aborts the transaction.
Debit(t) ==
  /\ at[t] = "debit"
  /\ Free(holder, job[t].sender, t)
  /\ IF CanPay(job[t].sender, job[t].amount)
       THEN /\ holder' = [holder EXCEPT ![job[t].sender] = t]
            /\ Goto(t, "credit")
            /\ UNCHANGED <<ledgerVars, row, payHolder, job>>
       ELSE Rollback(t)

\* applyBalanceDelta, second UPDATE.
Credit(t) ==
  /\ at[t] = "credit"
  /\ Free(holder, job[t].recipient, t)
  /\ holder' = [holder EXCEPT ![job[t].recipient] = t]
  /\ Goto(t, "commit")
  /\ UNCHANGED <<ledgerVars, row, payHolder, job>>

\* The row of the transfer is inserted, or that of the payment updated, and
\* the transaction commits.
Commit(t) ==
  LET j == job[t]
  IN  /\ at[t] = "commit"
      /\ balance' = Moved(balance, j.sender, j.recipient, j.amount)
      /\ IF j.contract = NoContract
           THEN /\ transferred' = Moved(transferred, j.sender, j.recipient, j.amount)
                /\ UNCHANGED payment
           ELSE /\ payment' = [payment EXCEPT ![j.contract].status = "completed"]
                /\ UNCHANGED transferred
      /\ row' = row \cup {j.sender, j.recipient}
      /\ End(t)

\* The connection is lost, or the API restarts: Postgres rolls back.
Abort(t) == at[t] # "none" /\ Rollback(t)

-----------------------------------------------------------------------------
\* reserveServicePayment, called once for a contract; one INSERT.
ReservePayment(c, payer, payee, amount) ==
  /\ payment[c].status = "none"
  /\ payer # payee
  /\ Reserve(c, payer, payee, amount)
  /\ UNCHANGED <<lockVars, at, job>>

\* cancelServicePayment: the UPDATE waits for a locked row that matches, and
\* reads it again.
VoidPayment(c) ==
  /\ payment[c].status = "pending" => payHolder[c] = NoTx
  /\ Void(c)
  /\ UNCHANGED <<lockVars, at, job>>

-----------------------------------------------------------------------------
StatementStep(t) ==
  \/ LockPayment(t)
  \/ InsertFirst(t)
  \/ InsertSecond(t)
  \/ LockFirst(t)
  \/ LockSecond(t)
  \/ Debit(t)
  \/ Credit(t)
  \/ Commit(t)

Next ==
  \/ \E t \in Tx, u, v \in User, amount \in Amount : BeginTransfer(t, u, v, amount)
  \/ \E t \in Tx, c \in Contract : BeginSettle(t, c)
  \/ \E t \in Tx : StatementStep(t)
  \/ \E t \in Tx : Abort(t)
  \/ \E c \in Contract, u, v \in User, amount \in Amount :
       ReservePayment(c, u, v, amount)
  \/ \E c \in Contract : VoidPayment(c)

Spec == Init /\ [][Next]_transactionVars

-----------------------------------------------------------------------------
(***************************************************************************)
(* Properties.                                                             *)
(***************************************************************************)

\* The ledger as the rest of the code sees it: one step per operation.
LedgerNext ==
  \/ \E u, v \in User, amount \in Amount : Transfer(u, v, amount)
  \/ \E c \in Contract, u, v \in User, amount \in Amount :
       payment[c].status = "none" /\ Reserve(c, u, v, amount)
  \/ \E c \in Contract : Settle(c) \/ Void(c)

LedgerSpec == LedgerInit /\ [][LedgerNext]_ledgerVars

\* The statements of transfer and settle, interleaved and aborted anywhere, are
\* together the atomic steps of the ledger: no balance read before a wait is
\* used after it, no payment is settled twice or after it was voided.
ImplementsLedger == LedgerSpec

\* The transaction whose end t waits for.
Blocker(t) ==
  LET holders ==
        CASE at[t] = "payment" -> {payHolder[job[t].contract]}
          [] at[t] = "insertFirst" -> {holder[u] : u \in {Earlier(t)} \ row}
          [] at[t] = "insertSecond" -> {holder[u] : u \in {Later(t)} \ row}
          [] at[t] = "lockFirst" -> {holder[Earlier(t)]}
          [] at[t] = "lockSecond" -> {holder[Later(t)]}
          [] at[t] = "debit" -> {holder[job[t].sender]}
          [] at[t] = "credit" -> {holder[job[t].recipient]}
          [] OTHER -> {}
  IN  holders \ {NoTx, t}

\* "Lock both balance rows in sorted order to avoid deadlocks, inserting missing
\* rows first" (lockBalances): no set of transactions waits for each other, not
\* even when some still insert rows that others already lock.
NoDeadlock ==
  \A waiting \in SUBSET Tx :
    waiting # {} => \E t \in waiting : Blocker(t) \cap waiting = {}

\* "Enforced in the DB by the points_balances CHECK constraint [...] and read by
\* PointsService for the pre-write guard" (schema.ts): what the guard let pass
\* still holds at the UPDATE, so the constraint is never what stops a payment.
GuardHoldsAtDebit ==
  \A t \in Tx : at[t] = "debit" => CanPay(job[t].sender, job[t].amount)
=============================================================================
