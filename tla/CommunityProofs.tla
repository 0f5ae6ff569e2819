-------------------------- MODULE CommunityProofs ---------------------------
(* Theorems about the parts of the API that share no state, those that     *)
(* MCCommunity checks together, for every value of the constants: the      *)
(* transactions of the points, votes on anything, community votes, queries of *)
(* administrators, the documents of contracts, and accounts.               *)
EXTENDS PointsTransactions, Votes, CommunityVotes, DslQuery, Accounts,
        ContractDocuments, LedgerProofs, SequenceTheorems

-----------------------------------------------------------------------------
(* The transactions of the points ledger, statement by statement.            *)

Locking == {"lockFirst", "lockSecond", "debit", "credit", "commit"}

\* The job of an open transaction; that of a settlement is its payment row,
\* which the transaction holds locked once it has read it.
JobInv(t) ==
  at[t] # "none" =>
    /\ job[t] \in Job
    /\ job[t].sender # job[t].recipient
    /\ job[t].contract = NoContract => job[t].amount \in Amount /\ at[t] # "payment"
    /\ job[t].contract # NoContract =>
         LET c == job[t].contract
         IN  /\ payment[c].status # "none"
             /\ payment[c].payer = job[t].sender
             /\ payment[c].payee = job[t].recipient
             /\ payment[c].amount = job[t].amount
             /\ at[t] # "payment" =>
                  payHolder[c] = t /\ payment[c].status = "pending"

\* The rows a transaction has locked, and what its guard established.
RowInv(t) ==
  /\ at[t] \in {"lockSecond", "debit", "credit", "commit"} => holder[Earlier(t)] = t
  /\ at[t] \in {"debit", "credit", "commit"} =>
       holder[Later(t)] = t /\ CanPay(job[t].sender, job[t].amount)

\* A transaction holds rows of its own job only, and a row that is committed
\* only by having locked it; when it has inserted what is missing, each of its
\* rows is committed or its own.
WaitInv(t) ==
  /\ \A c \in Contract : payHolder[c] = t =>
       at[t] \notin {"none", "payment"} /\ job[t].contract = c
  /\ \A u \in User : holder[u] = t =>
       /\ at[t] \in {"insertSecond"} \cup Locking
       /\ u \in {Earlier(t), Later(t)}
       /\ at[t] = "insertSecond" => u = Earlier(t)
       /\ u \in row => /\ at[t] \notin {"insertSecond", "lockFirst"}
                       /\ at[t] = "lockSecond" => u = Earlier(t)
  /\ at[t] = "insertSecond" => Earlier(t) \in row \/ holder[Earlier(t)] = t
  /\ at[t] \in Locking =>
       \A u \in {Earlier(t), Later(t)} : u \in row \/ holder[u] = t

TxInv(t) == JobInv(t) /\ RowInv(t) /\ WaitInv(t)

\* A payment is between two users.
PartiesDiffer ==
  \A c \in Contract : payment[c].status # "none" => payment[c].payer # payment[c].payee

LockInv == TypeOK /\ PartiesDiffer /\ \A t \in Tx : TxInv(t)

\* A step in which s neither acts nor gains or loses a row.
Passive(s) ==
  /\ at'[s] = at[s]
  /\ job'[s] = job[s]
  /\ \A u \in User : holder[u] = s <=> holder'[u] = s
  /\ \A c \in Contract : payHolder[c] = s <=> payHolder'[c] = s

\* What no step does to a payment.
PaymentsStay ==
  \A c \in Contract : payment[c].status # "none" =>
    /\ payment'[c].status # "none"
    /\ payment'[c].payer = payment[c].payer
    /\ payment'[c].payee = payment[c].payee
    /\ payment'[c].amount = payment[c].amount

-----------------------------------------------------------------------------
LEMMA MovedType ==
  ASSUME NEW f \in [User -> Int], NEW u \in User, NEW v \in User, NEW n \in Nat
  PROVE  Moved(f, u, v, n) \in [User -> Int]
BY DEF Moved

LEMMA UsersAreInts == User \subseteq Int
<1>1. MaxUser \in Nat /\ \A u \in User : u \in 0..MaxUser
  BY TransactionAssumption
<1>2. QED
  BY <1>1

\* The two rows of a job are those of its two users.
LEMMA EarlierLater ==
  ASSUME NEW t \in Tx, job[t] \in Job
  PROVE  /\ \/ Earlier(t) = job[t].sender /\ Later(t) = job[t].recipient
            \/ Earlier(t) = job[t].recipient /\ Later(t) = job[t].sender
         /\ Earlier(t) \in User /\ Later(t) \in User
         /\ job[t].sender # job[t].recipient => Earlier(t) < Later(t)
<1>1. job[t].sender \in User /\ job[t].recipient \in User
  BY DEF Job
<1>2. job[t].sender \in Int /\ job[t].recipient \in Int
  BY <1>1, UsersAreInts
<1>3. QED
  BY <1>1, <1>2 DEF Earlier, Later

\* Passive transactions keep what is known of them, if nobody writes the rows
\* they hold.
LEMMA OthersKept ==
  ASSUME LockInv, NEW s \in Tx, Passive(s), PaymentsStay,
         \A u \in User : holder[u] = s =>
           balance'[u] = balance[u] /\ (u \in row' <=> u \in row),
         row \subseteq row',
         \A c \in Contract : payHolder[c] = s => payment'[c].status = payment[c].status
  PROVE  TxInv(s)'
<1>1. /\ at[s] # "none" => job[s] \in Job
      /\ job[s] \in Job =>
           /\ job[s].contract \in Contract \cup {NoContract}
           /\ \/ Earlier(s) = job[s].sender /\ Later(s) = job[s].recipient
              \/ Earlier(s) = job[s].recipient /\ Later(s) = job[s].sender
           /\ Earlier(s) \in User /\ Later(s) \in User
  BY EarlierLater DEF LockInv, TxInv, JobInv, Job
<1>2. Earlier(s)' = Earlier(s) /\ Later(s)' = Later(s)
  BY DEF Earlier, Later, Passive
<1>3. JobInv(s)'
  BY <1>1 DEF LockInv, TxInv, JobInv, Passive, PaymentsStay
<1>4. RowInv(s)'
  <2>1. CASE at[s] \in {"debit", "credit", "commit"}
    <3>1. job[s].sender \in User /\ holder[job[s].sender] = s
      BY <2>1, <1>1 DEF LockInv, TxInv, RowInv, Job
    <3>2. CanPay(job[s].sender, job[s].amount)'
      BY <2>1, <3>1 DEF LockInv, TxInv, RowInv, CanPay, Passive
    <3>3. QED
      BY <2>1, <3>2, <1>1, <1>2 DEF LockInv, TxInv, RowInv, Passive
  <2>2. CASE at[s] \notin {"debit", "credit", "commit"}
    BY <2>2, <1>1, <1>2 DEF LockInv, TxInv, RowInv, Passive
  <2>3. QED
    BY <2>1, <2>2
<1>5. WaitInv(s)'
  <2>1. /\ \A u \in User : holder'[u] = s => (u \in row' <=> u \in row)
        /\ \A u \in {Earlier(s), Later(s)} :
             at[s] # "none" /\ (u \in row \/ holder[u] = s) => u \in row' \/ holder'[u] = s
    BY <1>1 DEF Passive
  <2>2. QED
    BY <1>1, <1>2, <2>1 DEF LockInv, TxInv, WaitInv, Passive, Locking
<1>6. QED
  BY <1>3, <1>4, <1>5 DEF TxInv

\* A step of t alone that writes nothing yet.
LEMMA OwnStep ==
  ASSUME LockInv, NEW t \in Tx, \A s \in Tx \ {t} : Passive(s),
         UNCHANGED ledgerVars, UNCHANGED row, TypeOK', TxInv(t)'
  PROVE  LockInv'
<1>1. PartiesDiffer'
  BY DEF LockInv, PartiesDiffer, ledgerVars
<1>2. ASSUME NEW s \in Tx \ {t} PROVE TxInv(s)'
  BY OthersKept DEF PaymentsStay, ledgerVars
<1>3. QED
  BY <1>1, <1>2 DEF LockInv

LEMMA LockInvInit == Init => LockInv
BY TransactionAssumption DEF Init, LedgerInit, LockInv, TypeOK, LedgerTypeOK, NoRow,
   Statement, NoJob, PartiesDiffer, TxInv, JobInv, RowInv, WaitInv, Locking

-----------------------------------------------------------------------------
\* A transaction that ends holds nothing, and the others what they held.
LEMMA EndLemma ==
  ASSUME LockInv, NEW t \in Tx, End(t)
  PROVE  /\ holder' \in [User -> Tx \cup {NoTx}]
         /\ payHolder' \in [Contract -> Tx \cup {NoTx}]
         /\ at' \in [Tx -> Statement]
         /\ job' \in [Tx -> Job \cup {NoJob}]
         /\ TxInv(t)'
         /\ \A s \in Tx \ {t} : Passive(s)
<1> USE DEF LockInv, TypeOK, End, Goto
<1>1. /\ holder' \in [User -> Tx \cup {NoTx}]
      /\ payHolder' \in [Contract -> Tx \cup {NoTx}]
      /\ at' \in [Tx -> Statement]
      /\ job' \in [Tx -> Job \cup {NoJob}]
  BY DEF Statement
<1>2. TxInv(t)'
  BY TransactionAssumption DEF TxInv, JobInv, RowInv, WaitInv, Locking
<1>3. \A s \in Tx \ {t} : Passive(s)
  BY TransactionAssumption DEF Passive
<1>4. QED
  BY <1>1, <1>2, <1>3

LEMMA RollbackKeeps ==
  ASSUME LockInv, NEW t \in Tx, Rollback(t)
  PROVE  LockInv'
<1>1. End(t) /\ UNCHANGED ledgerVars /\ UNCHANGED row
  BY DEF Rollback, ledgerVars
<1>2. TypeOK'
  BY <1>1, EndLemma DEF LockInv, TypeOK, LedgerTypeOK, ledgerVars
<1>3. QED
  BY <1>1, <1>2, EndLemma, OwnStep

\* A transaction goes on to its next statement, and holds a free row or not.
LEMMA GotoLemma ==
  ASSUME LockInv, NEW t \in Tx, NEW u \in User, NEW next \in Statement,
         Goto(t, next), UNCHANGED job, UNCHANGED payHolder,
         \/ UNCHANGED holder
         \/ Free(holder, u, t) /\ holder' = [holder EXCEPT ![u] = t],
         UNCHANGED ledgerVars, UNCHANGED row
  PROVE  /\ TypeOK'
         /\ \A s \in Tx \ {t} : Passive(s)
<1> USE DEF LockInv, TypeOK, Goto
<1>1. TypeOK'
  BY DEF LedgerTypeOK, ledgerVars
<1>2. \A s \in Tx \ {t} : Passive(s)
  BY TransactionAssumption DEF Passive, Free
<1>3. QED
  BY <1>1, <1>2

LEMMA BeginTransferKeeps ==
  ASSUME LockInv, NEW t \in Tx, NEW u \in User, NEW v \in User, NEW amount \in Amount,
         BeginTransfer(t, u, v, amount)
  PROVE  LockInv'
<1> USE DEF LockInv, TypeOK, BeginTransfer, Goto
<1> DEFINE j == [sender |-> u, recipient |-> v, amount |-> amount,
                 contract |-> NoContract]
<1>1. j \in Job
  BY TransactionAssumption DEF Job
<1>2. job'[t] = j /\ at'[t] = "insertFirst" /\ UNCHANGED <<ledgerVars, lockVars>>
  OBVIOUS
<1>3. TypeOK'
  BY <1>1 DEF LedgerTypeOK, ledgerVars, lockVars, Statement
<1>4. \A s \in Tx \ {t} : Passive(s)
  BY DEF Passive, lockVars
<1>5. TxInv(t)'
  <2>1. JobInv(t)' /\ RowInv(t)'
    BY <1>1, <1>2 DEF JobInv, RowInv
  <2>2. WaitInv(t)'
    BY <1>2 DEF TxInv, WaitInv, Locking, lockVars
  <2>3. QED
    BY <2>1, <2>2 DEF TxInv
<1>6. QED
  BY <1>3, <1>4, <1>5, OwnStep DEF lockVars

LEMMA BeginSettleKeeps ==
  ASSUME LockInv, NEW t \in Tx, NEW c \in Contract, BeginSettle(t, c)
  PROVE  LockInv'
<1> USE DEF LockInv, TypeOK, BeginSettle, Goto
<1> DEFINE j == [sender |-> payment[c].payer, recipient |-> payment[c].payee,
                 amount |-> payment[c].amount, contract |-> c]
<1>1. payment[c] \in PaymentRow /\ payment[c].payer # payment[c].payee
  BY DEF LedgerTypeOK, NoRow, PartiesDiffer
<1>2. j \in Job
  BY <1>1 DEF Job, PaymentRow
<1>3. job'[t] = j /\ at'[t] = "payment" /\ UNCHANGED <<ledgerVars, lockVars>>
  OBVIOUS
<1>4. TypeOK'
  BY <1>2 DEF LedgerTypeOK, ledgerVars, lockVars, Statement
<1>5. \A s \in Tx \ {t} : Passive(s)
  BY DEF Passive, lockVars
<1>6. TxInv(t)'
  <2>1. RowInv(t)' /\ WaitInv(t)'
    BY <1>3 DEF TxInv, RowInv, WaitInv, Locking, lockVars
  <2>2. j.contract # NoContract
    BY TransactionAssumption
  <2>3. JobInv(t)'
    BY <1>1, <1>2, <1>3, <2>2 DEF JobInv, ledgerVars
  <2>4. QED
    BY <2>1, <2>3 DEF TxInv
<1>7. QED
  BY <1>4, <1>5, <1>6, OwnStep DEF lockVars

\* What is known of a transaction about to execute a statement.
LEMMA OpenTransaction ==
  ASSUME LockInv, NEW t \in Tx, at[t] # "none"
  PROVE  /\ job[t] \in Job /\ job[t].sender # job[t].recipient
         /\ job[t].sender \in User /\ job[t].recipient \in User
         /\ job[t].amount \in Nat
         /\ job[t].contract \in Contract \cup {NoContract}
         /\ Earlier(t) \in User /\ Later(t) \in User /\ Earlier(t) # Later(t)
         /\ \/ Earlier(t) = job[t].sender /\ Later(t) = job[t].recipient
            \/ Earlier(t) = job[t].recipient /\ Later(t) = job[t].sender
BY EarlierLater DEF LockInv, TxInv, JobInv, Job

LEMMA LockPaymentKeeps ==
  ASSUME LockInv, NEW t \in Tx, LockPayment(t)
  PROVE  LockInv'
<1> DEFINE c == job[t].contract
<1>1. CASE Rollback(t)
  BY <1>1, RollbackKeeps
<1>2. CASE ~ Rollback(t)
  <2>1. /\ at[t] = "payment" /\ Free(payHolder, c, t) /\ payment[c].status = "pending"
        /\ payHolder' = [payHolder EXCEPT ![c] = t]
        /\ at' = [at EXCEPT ![t] = "insertFirst"]
        /\ UNCHANGED <<ledgerVars, row, holder, job>>
    BY <1>2 DEF LockPayment, Goto
  <2>2. c \in Contract /\ job[t] \in Job
    BY <2>1, OpenTransaction DEF LockInv, TxInv, JobInv
  <2>3. TypeOK'
    BY <2>1, <2>2 DEF LockInv, TypeOK, LedgerTypeOK, ledgerVars, Statement
  <2>4. \A s \in Tx \ {t} : Passive(s)
    BY <2>1, <2>2, TransactionAssumption DEF Passive, Free, LockInv, TypeOK
  <2>5. TxInv(t)'
    <3>1. JobInv(t)' /\ RowInv(t)'
      BY <2>1, <2>2 DEF LockInv, TypeOK, TxInv, JobInv, RowInv, ledgerVars
    <3>2. WaitInv(t)'
      BY <2>1, <2>2 DEF LockInv, TypeOK, TxInv, WaitInv, Locking
    <3>3. QED
      BY <3>1, <3>2 DEF TxInv
  <2>6. QED
    BY <2>1, <2>3, <2>4, <2>5, OwnStep
<1>3. QED
  BY <1>1, <1>2

LEMMA InsertKeeps ==
  ASSUME LockInv, NEW t \in Tx, InsertFirst(t) \/ InsertSecond(t)
  PROVE  LockInv'
<1> DEFINE u == IF InsertFirst(t) THEN Earlier(t) ELSE Later(t)
           next == IF InsertFirst(t) THEN "insertSecond" ELSE "lockFirst"
<1>1. /\ at[t] = IF next = "insertSecond" THEN "insertFirst" ELSE "insertSecond"
      /\ next \in {"insertSecond", "lockFirst"}
      /\ u = IF next = "insertSecond" THEN Earlier(t) ELSE Later(t)
      /\ InsertRow(t, u) /\ Goto(t, next)
      /\ UNCHANGED <<ledgerVars, row, payHolder, job>>
  BY DEF InsertFirst, InsertSecond
<1>2. /\ Earlier(t) \in User /\ Later(t) \in User /\ u \in User
      /\ Earlier(t) # Later(t)
  BY <1>1, OpenTransaction
<1>3. Earlier(t)' = Earlier(t) /\ Later(t)' = Later(t)
  BY <1>1 DEF Earlier, Later
<1> HIDE DEF u, next
<1>4. TypeOK' /\ \A s \in Tx \ {t} : Passive(s)
  BY <1>1, <1>2, GotoLemma DEF InsertRow, Statement
<1>5. /\ at'[t] = next
      /\ \A w \in User \ {u} : holder'[w] = holder[w]
      /\ u \in row \/ holder'[u] = t
      /\ u \in row => holder'[u] = holder[u]
  BY <1>1, <1>2 DEF InsertRow, Goto, LockInv, TypeOK
<1>6. JobInv(t)' /\ RowInv(t)'
  BY <1>1, <1>5 DEF LockInv, TxInv, JobInv, RowInv, ledgerVars
<1>7. WaitInv(t)'
  BY <1>1, <1>2, <1>3, <1>5 DEF LockInv, TxInv, WaitInv, Locking
<1>8. QED
  BY <1>1, <1>4, <1>6, <1>7, OwnStep DEF TxInv

LEMMA LockFirstKeeps ==
  ASSUME LockInv, NEW t \in Tx, LockFirst(t)
  PROVE  LockInv'
<1> DEFINE u == Earlier(t)
<1>1. /\ at[t] = "lockFirst" /\ Free(holder, u, t)
      /\ holder' = [holder EXCEPT ![u] = t] /\ Goto(t, "lockSecond")
      /\ UNCHANGED <<ledgerVars, row, payHolder, job>>
  BY DEF LockFirst, TakeRow
<1>2. u \in User /\ Later(t) \in User /\ u # Later(t)
  BY <1>1, OpenTransaction
<1>3. Earlier(t)' = Earlier(t) /\ Later(t)' = Later(t)
  BY <1>1 DEF Earlier, Later
<1>4. TypeOK' /\ \A s \in Tx \ {t} : Passive(s)
  BY <1>1, <1>2, GotoLemma DEF Statement
<1>5. /\ at'[t] = "lockSecond" /\ holder'[u] = t
      /\ \A w \in User \ {u} : holder'[w] = holder[w]
  BY <1>1, <1>2 DEF Goto, LockInv, TypeOK
<1>6. JobInv(t)' /\ RowInv(t)'
  BY <1>1, <1>3, <1>5 DEF LockInv, TxInv, JobInv, RowInv, ledgerVars
<1>7. WaitInv(t)'
  BY <1>1, <1>2, <1>3, <1>5 DEF LockInv, TxInv, WaitInv, Locking
<1>8. QED
  BY <1>1, <1>4, <1>6, <1>7, OwnStep DEF TxInv

LEMMA LockSecondKeeps ==
  ASSUME LockInv, NEW t \in Tx, LockSecond(t)
  PROVE  LockInv'
<1> DEFINE u == Later(t)
<1>1. CASE Rollback(t)
  BY <1>1, RollbackKeeps
<1>2. CASE ~ Rollback(t)
  <2>1. /\ at[t] = "lockSecond" /\ Free(holder, u, t)
        /\ holder' = [holder EXCEPT ![u] = t] /\ Goto(t, "debit")
        /\ UNCHANGED <<ledgerVars, row, payHolder, job>>
        /\ CanPay(job[t].sender, job[t].amount)
    BY <1>2 DEF LockSecond, TakeRow
  <2>2. u \in User /\ Earlier(t) \in User /\ u # Earlier(t)
    BY <2>1, OpenTransaction
  <2>3. Earlier(t)' = Earlier(t) /\ Later(t)' = Later(t)
    BY <2>1 DEF Earlier, Later
  <2>4. TypeOK' /\ \A s \in Tx \ {t} : Passive(s)
    BY <2>1, <2>2, GotoLemma DEF Statement
  <2>5. /\ at'[t] = "debit" /\ holder'[u] = t
        /\ \A w \in User \ {u} : holder'[w] = holder[w]
    BY <2>1, <2>2 DEF Goto, LockInv, TypeOK
  <2>6. CanPay(job[t].sender, job[t].amount)'
    BY <2>1 DEF CanPay, ledgerVars
  <2>7. JobInv(t)' /\ RowInv(t)'
    BY <2>1, <2>2, <2>3, <2>5, <2>6 DEF LockInv, TxInv, JobInv, RowInv, ledgerVars
  <2>8. WaitInv(t)'
    BY <2>1, <2>2, <2>3, <2>5 DEF LockInv, TxInv, WaitInv, Locking
  <2>9. QED
    BY <2>1, <2>4, <2>7, <2>8, OwnStep DEF TxInv
<1>3. QED
  BY <1>1, <1>2

\* The two updates of the balances find both rows locked already.
LEMMA UpdateKeeps ==
  ASSUME LockInv, NEW t \in Tx, Debit(t) \/ Credit(t)
  PROVE  LockInv'
<1> DEFINE next == IF at[t] = "debit" THEN "credit" ELSE "commit"
<1>1. /\ at[t] \in {"debit", "credit"}
      /\ holder[Earlier(t)] = t /\ holder[Later(t)] = t
      /\ CanPay(job[t].sender, job[t].amount)
  BY DEF Debit, Credit, LockInv, TxInv, RowInv
<1>2. /\ Earlier(t) \in User /\ Later(t) \in User
      /\ holder[job[t].sender] = t /\ holder[job[t].recipient] = t
      /\ job[t].sender \in User /\ job[t].recipient \in User
  BY <1>1, OpenTransaction
<1>3. Goto(t, next) /\ UNCHANGED <<ledgerVars, row, payHolder, holder, job>>
  BY <1>1, <1>2 DEF Debit, Credit, LockInv, TypeOK
<1>4. next \in {"credit", "commit"}
  OBVIOUS
<1> HIDE DEF next
<1>5. TypeOK' /\ \A s \in Tx \ {t} : Passive(s)
  BY <1>2, <1>3, <1>4, GotoLemma DEF Statement
<1>6. Earlier(t)' = Earlier(t) /\ Later(t)' = Later(t) /\ at'[t] = next
  BY <1>3 DEF Earlier, Later, Goto, LockInv, TypeOK
<1>7. CanPay(job[t].sender, job[t].amount)'
  BY <1>1, <1>3 DEF CanPay, ledgerVars
<1>8. JobInv(t)' /\ RowInv(t)'
  BY <1>1, <1>3, <1>4, <1>6, <1>7 DEF LockInv, TxInv, JobInv, RowInv, ledgerVars
<1>9. WaitInv(t)'
  BY <1>1, <1>3, <1>4, <1>6 DEF LockInv, TxInv, WaitInv, Locking
<1>10. QED
  BY <1>3, <1>5, <1>8, <1>9, OwnStep DEF TxInv

-----------------------------------------------------------------------------
\* A payment is completed, or cancelled, without changing its other fields.
LEMMA StatusLemma ==
  ASSUME LockInv, NEW c \in Contract, payment[c].status # "none",
         NEW decided \in PaymentStatus,
         payment' = [payment EXCEPT ![c].status = decided]
  PROVE  /\ payment' \in [Contract -> PaymentRow \cup {NoRow}]
         /\ PaymentsStay
         /\ \A d \in Contract : payment'[d].status # "none" => payment[d].status # "none"
         /\ \A d \in Contract \ {c} : payment'[d] = payment[d]
         /\ payment'[c].status = decided
<1>1. payment[c] \in PaymentRow
  BY DEF LockInv, TypeOK, LedgerTypeOK, NoRow
<1>2. [payment[c] EXCEPT !.status = decided] \in PaymentRow
  BY <1>1 DEF PaymentRow
<1>3. payment' = [payment EXCEPT ![c] = [payment[c] EXCEPT !.status = decided]]
  OBVIOUS
<1>4. payment \in [Contract -> PaymentRow \cup {NoRow}]
  BY DEF LockInv, TypeOK, LedgerTypeOK
<1>5. /\ payment' \in [Contract -> PaymentRow \cup {NoRow}]
      /\ \A d \in Contract \ {c} : payment'[d] = payment[d]
      /\ payment'[c] = [payment[c] EXCEPT !.status = decided]
  BY <1>2, <1>3, <1>4
<1>6. /\ payment'[c].status = decided
      /\ payment'[c].payer = payment[c].payer
      /\ payment'[c].payee = payment[c].payee
      /\ payment'[c].amount = payment[c].amount
  BY <1>1, <1>5 DEF PaymentRow
<1>7. decided # "none"
  BY DEF PaymentStatus
<1>8. QED
  BY <1>5, <1>6, <1>7 DEF PaymentsStay

\* What a transaction holds when it commits.
LEMMA CommitHolds ==
  ASSUME LockInv, NEW t \in Tx, Commit(t)
  PROVE  /\ job[t].sender \in User /\ job[t].recipient \in User
         /\ job[t].sender # job[t].recipient
         /\ job[t].amount \in Nat
         /\ holder[job[t].sender] = t /\ holder[job[t].recipient] = t
         /\ CanPay(job[t].sender, job[t].amount)
         /\ job[t].contract = NoContract => job[t].amount \in Amount
         /\ job[t].contract # NoContract =>
              LET c == job[t].contract
              IN  /\ c \in Contract
                  /\ payHolder[c] = t
                  /\ payment[c].status = "pending"
                  /\ payment[c].payer = job[t].sender
                  /\ payment[c].payee = job[t].recipient
                  /\ payment[c].amount = job[t].amount
<1>1. at[t] = "commit"
  BY DEF Commit
<1>2. QED
  BY <1>1, OpenTransaction DEF LockInv, TxInv, JobInv, RowInv

LEMMA CommitKeeps ==
  ASSUME LockInv, NEW t \in Tx, Commit(t)
  PROVE  LockInv'
<1> DEFINE j == job[t]
<1>1. /\ End(t) /\ row' = row \cup {j.sender, j.recipient}
      /\ balance' = Moved(balance, j.sender, j.recipient, j.amount)
  BY DEF Commit
<1>2. /\ balance' \in [User -> Int]
      /\ transferred' \in [User -> Int]
  <2>1. balance \in [User -> Int] /\ transferred \in [User -> Int]
    BY DEF LockInv, TypeOK, LedgerTypeOK
  <2>2. /\ Moved(balance, j.sender, j.recipient, j.amount) \in [User -> Int]
        /\ Moved(transferred, j.sender, j.recipient, j.amount) \in [User -> Int]
    BY <2>1, CommitHolds, MovedType
  <2>3. QED
    BY <2>1, <2>2 DEF Commit
<1>3. /\ payment' \in [Contract -> PaymentRow \cup {NoRow}]
      /\ PaymentsStay
      /\ \A d \in Contract : payment'[d].status # "none" => payment[d].status # "none"
      /\ \A d \in Contract : payHolder[d] # t => payment'[d] = payment[d]
  <2>1. CASE j.contract = NoContract
    BY <2>1 DEF Commit, LockInv, TypeOK, LedgerTypeOK, PaymentsStay
  <2>2. CASE j.contract # NoContract
    <3>1. /\ j.contract \in Contract /\ payment[j.contract].status # "none"
          /\ payHolder[j.contract] = t
          /\ payment' = [payment EXCEPT ![j.contract].status = "completed"]
      BY <2>2, CommitHolds DEF Commit
    <3>2. QED
      BY <3>1, StatusLemma DEF PaymentStatus
  <2>3. QED
    BY <2>1, <2>2
<1>4. TypeOK'
  BY <1>1, <1>2, <1>3, CommitHolds, EndLemma DEF LockInv, TypeOK, LedgerTypeOK
<1>5. PartiesDiffer'
  BY <1>3 DEF LockInv, PartiesDiffer, PaymentsStay
<1>6. ASSUME NEW s \in Tx \ {t} PROVE TxInv(s)'
  <2>1. Passive(s)
    BY <1>1, EndLemma
  <2>2. \A u \in User : holder[u] = s =>
          balance'[u] = balance[u] /\ (u \in row' <=> u \in row)
    BY <1>1, CommitHolds DEF LockInv, TypeOK, LedgerTypeOK, Moved
  <2>3. QED
    BY <1>1, <1>3, <2>1, <2>2, OthersKept
<1>7. QED
  BY <1>1, <1>4, <1>5, <1>6, EndLemma DEF LockInv

\* Reserving and voiding do not touch a payment that is locked.
LEMMA PaymentKeeps ==
  ASSUME LockInv, NEW c \in Contract,
         \/ \E u, v \in User, amount \in Amount : ReservePayment(c, u, v, amount)
         \/ VoidPayment(c)
  PROVE  LockInv'
<1>1. UNCHANGED <<balance, transferred, row, holder, payHolder, at, job>>
  BY DEF ReservePayment, Reserve, VoidPayment, Void, lockVars
<1>2. /\ payment' \in [Contract -> PaymentRow \cup {NoRow}]
      /\ PaymentsStay
      /\ PartiesDiffer'
      /\ \A d \in Contract : payHolder[d] # NoTx => payment'[d] = payment[d]
  <2>1. CASE \E u, v \in User, amount \in Amount : ReservePayment(c, u, v, amount)
    <3>1. PICK u \in User, v \in User, amount \in Amount : ReservePayment(c, u, v, amount)
      BY <2>1
    <3> DEFINE p == [status |-> "pending", payer |-> u, payee |-> v, amount |-> amount]
    <3>2. p \in PaymentRow
      BY TransactionAssumption DEF PaymentRow, PaymentStatus
    <3>3. payment' = [payment EXCEPT ![c] = p] /\ payment[c].status = "none" /\ u # v
      BY <3>1 DEF ReservePayment, Reserve
    <3>4. payHolder[c] = NoTx
      BY <3>3, TransactionAssumption DEF LockInv, TypeOK, TxInv, WaitInv, JobInv
    <3>5. QED
      BY <3>2, <3>3, <3>4
         DEF LockInv, TypeOK, LedgerTypeOK, PaymentsStay, PartiesDiffer
  <2>2. CASE VoidPayment(c) /\ payment[c].status = "pending"
    <3>1. payment' = [payment EXCEPT ![c].status = "cancelled"] /\ payHolder[c] = NoTx
      BY <2>2 DEF VoidPayment, Void
    <3>2. "cancelled" \in PaymentStatus /\ payment[c].status # "none"
      BY <2>2 DEF PaymentStatus
    <3>3. /\ payment' \in [Contract -> PaymentRow \cup {NoRow}]
          /\ PaymentsStay
          /\ \A d \in Contract : payment'[d].status # "none" => payment[d].status # "none"
          /\ \A d \in Contract \ {c} : payment'[d] = payment[d]
      BY <3>1, <3>2, StatusLemma
    <3>4. PartiesDiffer'
      BY <3>3 DEF LockInv, PartiesDiffer, PaymentsStay
    <3>5. QED
      BY <3>1, <3>3, <3>4
  <2>3. CASE VoidPayment(c) /\ payment[c].status # "pending"
    BY <2>3 DEF VoidPayment, Void, LockInv, TypeOK, LedgerTypeOK, PartiesDiffer,
       PaymentsStay
  <2>4. QED
    BY <2>1, <2>2, <2>3
<1>3. TypeOK'
  BY <1>1, <1>2 DEF LockInv, TypeOK, LedgerTypeOK
<1>4. ASSUME NEW s \in Tx PROVE TxInv(s)'
  <2>1. Passive(s)
    BY <1>1 DEF Passive
  <2>2. s # NoTx
    BY TransactionAssumption
  <2>3. QED
    BY <1>1, <1>2, <2>1, <2>2, OthersKept
<1>5. QED
  BY <1>2, <1>3, <1>4 DEF LockInv

-----------------------------------------------------------------------------
LEMMA LockInvStep == LockInv /\ [Next]_transactionVars => LockInv'
<1> SUFFICES ASSUME LockInv, [Next]_transactionVars PROVE LockInv'
  OBVIOUS
<1>1. CASE UNCHANGED transactionVars
  BY <1>1 DEF transactionVars, ledgerVars, lockVars, LockInv, TypeOK, LedgerTypeOK,
     PartiesDiffer, TxInv, JobInv, RowInv, WaitInv, Earlier, Later, CanPay
<1>2. ASSUME NEW t \in Tx, StatementStep(t) PROVE LockInv'
  BY <1>2, LockPaymentKeeps, InsertKeeps, LockFirstKeeps, LockSecondKeeps, UpdateKeeps,
     CommitKeeps DEF StatementStep
<1>3. ASSUME NEW t \in Tx, Abort(t) PROVE LockInv'
  BY <1>3, RollbackKeeps DEF Abort
<1>4. QED
  BY <1>1, <1>2, <1>3, BeginTransferKeeps, BeginSettleKeeps, PaymentKeeps DEF Next

\* Rows, locks and jobs stay well formed.
THEOREM TypeCorrect == Spec => []TypeOK
<1>1. LockInv => TypeOK
  BY DEF LockInv
<1>2. QED
  BY <1>1, LockInvInit, LockInvStep, PTL DEF Spec

LEMMA LockInvariant == Spec => []LockInv
BY LockInvInit, LockInvStep, PTL DEF Spec

\* The CHECK constraint on the balances is never what stops a payment: the
\* guard read them under the lock the UPDATE needs.
THEOREM GuardStillHolds == Spec => []GuardHoldsAtDebit
<1>1. LockInv => GuardHoldsAtDebit
  BY DEF LockInv, TxInv, RowInv, GuardHoldsAtDebit
<1>2. QED
  BY <1>1, LockInvariant, PTL

-----------------------------------------------------------------------------
\* Every step is a step of the ledger or leaves it alone.
LEMMA LedgerStep == LockInv /\ [Next]_transactionVars => [LedgerNext]_ledgerVars
<1> SUFFICES ASSUME LockInv, [Next]_transactionVars
             PROVE  LedgerNext \/ UNCHANGED ledgerVars
  OBVIOUS
<1>1. ASSUME NEW t \in Tx, Commit(t) PROVE LedgerNext
  <2> DEFINE j == job[t]
  <2>1. CASE j.contract = NoContract
    <3>1. Transfer(j.sender, j.recipient, j.amount)
      BY <1>1, <2>1, CommitHolds DEF Commit, Transfer
    <3>2. QED
      BY <1>1, <2>1, <3>1, CommitHolds DEF LedgerNext
  <2>2. CASE j.contract # NoContract
    <3>1. Settle(j.contract)
      BY <1>1, <2>2, CommitHolds DEF Commit, Settle, Settleable
    <3>2. QED
      BY <1>1, <2>2, <3>1, CommitHolds DEF LedgerNext
  <2>3. QED
    BY <2>1, <2>2
<1>2. ASSUME NEW t \in Tx, StatementStep(t), ~ Commit(t) PROVE UNCHANGED ledgerVars
  BY <1>2 DEF StatementStep, LockPayment, InsertFirst, InsertSecond, LockFirst,
     LockSecond, Debit, Credit, Rollback, ledgerVars
<1>3. ASSUME NEW t \in Tx, NEW u \in User, NEW v \in User, NEW amount \in Amount,
             BeginTransfer(t, u, v, amount)
      PROVE  UNCHANGED ledgerVars
  BY <1>3 DEF BeginTransfer, ledgerVars
<1>4. ASSUME NEW t \in Tx, NEW c \in Contract, BeginSettle(t, c)
      PROVE  UNCHANGED ledgerVars
  BY <1>4 DEF BeginSettle, ledgerVars
<1>5. ASSUME NEW t \in Tx, Abort(t) PROVE UNCHANGED ledgerVars
  BY <1>5 DEF Abort, Rollback, ledgerVars
<1>6. ASSUME NEW c \in Contract, NEW u \in User, NEW v \in User, NEW amount \in Amount,
             ReservePayment(c, u, v, amount)
      PROVE  LedgerNext
  BY <1>6 DEF ReservePayment, LedgerNext
<1>7. ASSUME NEW c \in Contract, VoidPayment(c) PROVE LedgerNext
  BY <1>7 DEF VoidPayment, LedgerNext
<1>8. CASE UNCHANGED transactionVars
  BY <1>8 DEF transactionVars, ledgerVars
<1>9. QED
  BY <1>1, <1>2, <1>3, <1>4, <1>5, <1>6, <1>7, <1>8 DEF Next

\* Transfers, settlements and voidings are atomic: the interleaved statements
\* are the steps of the ledger that the booking saga builds on.
THEOREM LedgerImplemented == Spec => ImplementsLedger
<1>1. Init => LedgerInit
  BY DEF Init
<1>2. QED
  BY <1>1, LedgerStep, LockInvariant, PTL DEF Spec, ImplementsLedger, LedgerSpec

-----------------------------------------------------------------------------
\* No point is created or lost, and the rows explain every balance, at every
\* moment of interleaved transactions that may be aborted anywhere.
THEOREM TransactionsReconcile ==
  ASSUME IsFiniteSet(Contract)
  PROVE  Spec => []LedgerReconciles
<1>1. IsFiniteSet(User)
  <2>1. IsFiniteSet(0..MaxUser)
    BY TransactionAssumption, FS_Interval
  <2> QED
    BY <2>1, TransactionAssumption, FS_Subset
<1>2. Init => LedgerReconciles
  BY <1>1, ReconcilesInit DEF Init
<1>3. LockInv /\ LedgerReconciles /\ [LedgerNext]_ledgerVars => LedgerReconciles'
  <2> SUFFICES ASSUME LockInv, LedgerReconciles, [LedgerNext]_ledgerVars
               PROVE  LedgerReconciles'
    OBVIOUS
  <2>1. LedgerTypeOK
    BY DEF LockInv, TypeOK
  <2>2. ASSUME NEW u \in User, NEW v \in User, NEW n \in Amount, Transfer(u, v, n)
        PROVE  LedgerReconciles'
    BY <1>1, <2>1, <2>2, TransactionAssumption, TransferReconciles
  <2>3. ASSUME NEW c \in Contract, NEW u \in User, NEW v \in User, NEW n \in Amount,
               payment[c].status = "none", Reserve(c, u, v, n)
        PROVE  LedgerReconciles'
    BY <2>1, <2>3, ReserveReconciles
  <2>4. ASSUME NEW c \in Contract, Settle(c) PROVE LedgerReconciles'
    BY <1>1, <2>1, <2>4, SettleReconciles
  <2>5. ASSUME NEW c \in Contract, Void(c) PROVE LedgerReconciles'
    BY <2>1, <2>5, VoidReconciles
  <2>6. CASE UNCHANGED ledgerVars
    BY <2>6, SharesKept DEF ledgerVars
  <2> QED
    BY <2>2, <2>3, <2>4, <2>5, <2>6 DEF LedgerNext
<1>4. LockInv /\ LedgerReconciles /\ [Next]_transactionVars => LedgerReconciles'
  BY <1>3, LedgerStep
<1> QED
  BY <1>2, <1>4, LockInvariant, PTL DEF Spec

-----------------------------------------------------------------------------
\* A nonempty set of bounded numbers has a least element.
LEMMA LeastNumber ==
  ASSUME NEW M \in Nat, NEW T, T \subseteq 0..M, T # {}
  PROVE  \E m \in T : \A n \in T : m <= n
<1> DEFINE U == {0..d : d \in T}
<1>1. IsFiniteSet(0..M)
  BY FS_Interval
<1>2. FiniteSubsetsOf(0..M) = SUBSET (0..M)
  BY <1>1, FS_FiniteSubsetsOfFinite
<1>3. IsWellFoundedOn(StrictSubsetOrdering(0..M), SUBSET (0..M))
  BY <1>2, FS_StrictSubsetOrderingWellFounded
<1>4. U \subseteq SUBSET (0..M) /\ U # {}
  <2>1. \A d \in T : 0..d \in SUBSET (0..M)
    OBVIOUS
  <2>2. QED
    BY <2>1
<1>5. \E x \in U : \A y \in U : <<y, x>> \notin StrictSubsetOrdering(0..M)
  <2> HIDE DEF U
  <2>1. QED
    BY <1>3, <1>4, WFMin
<1>6. PICK m \in T : \A n \in T : <<0..n, 0..m>> \notin StrictSubsetOrdering(0..M)
  BY <1>5
<1>7. ASSUME NEW n \in T, n < m PROVE FALSE
  <2>1. /\ 0..n \subseteq 0..m
        /\ m \in 0..m /\ m \notin 0..n
        /\ 0..m \in SUBSET (0..M) /\ 0..n \in SUBSET (0..M)
    BY <1>7
  <2>2. QED
    BY <1>6, <2>1 DEF StrictSubsetOrdering
<1>8. QED
  BY <1>7

\* The row a transaction waits for.
Wanted(t) == IF at[t] \in {"insertFirst", "lockFirst"} THEN Earlier(t) ELSE Later(t)

\* How far a waiting transaction is from the end of any chain of waiting ones:
\* settlements wait for settlements past their payment row, inserts for rows
\* further up or for locks, locks for rows further up.
Distance(t) ==
  CASE at[t] = "payment" -> 2 * MaxUser + 2
    [] at[t] \in {"insertFirst", "insertSecond"} -> 2 * MaxUser + 1 - Wanted(t)
    [] OTHER -> MaxUser - Wanted(t)

\* A transaction that waits for another one: for its payment row, for a row it
\* inserted, or for a committed row it has locked.
LEMMA BlockerLemma ==
  ASSUME LockInv, NEW t \in Tx, NEW s \in Tx, s \in Blocker(t)
  PROVE  /\ s # t
         /\ at[t] \in {"payment", "insertFirst", "insertSecond", "lockFirst", "lockSecond"}
         /\ at[t] = "payment" =>
              job[t].contract \in Contract /\ payHolder[job[t].contract] = s
         /\ at[t] \in {"insertFirst", "insertSecond"} =>
              Wanted(t) \notin row /\ holder[Wanted(t)] = s
         /\ at[t] \in {"lockFirst", "lockSecond"} =>
              Wanted(t) \in row /\ holder[Wanted(t)] = s
<1>1. CASE at[t] \in {"debit", "credit"}
  <2>1. holder[job[t].sender] = t /\ holder[job[t].recipient] = t
    BY <1>1, OpenTransaction DEF LockInv, TxInv, RowInv
  <2>2. QED
    BY <1>1, <2>1 DEF Blocker
<1>2. CASE at[t] = "payment"
  BY <1>2, OpenTransaction DEF Blocker, LockInv, TxInv, JobInv
<1>3. CASE at[t] \in {"insertFirst", "insertSecond"}
  BY <1>3 DEF Blocker, Wanted
<1>4. CASE at[t] \in {"lockFirst", "lockSecond"}
  BY <1>4 DEF Blocker, Wanted, LockInv, TxInv, WaitInv, Locking
<1>5. QED
  BY <1>1, <1>2, <1>3, <1>4 DEF Blocker

\* Along the waiting, the distance shrinks.
LEMMA DistanceShrinks ==
  ASSUME LockInv, NEW t \in Tx, NEW s \in Tx, NEW q \in Tx,
         s \in Blocker(t), q \in Blocker(s)
  PROVE  /\ Distance(t) \in 0 .. (2 * MaxUser + 2)
         /\ Distance(s) \in 0 .. (2 * MaxUser + 2)
         /\ Distance(s) < Distance(t)
<1> DEFINE M == MaxUser
           waiting == {"payment", "insertFirst", "insertSecond", "lockFirst", "lockSecond"}
<1>1. at[t] \in waiting /\ at[s] \in waiting
  BY BlockerLemma
<1>2. /\ Earlier(t) \in User /\ Later(t) \in User
      /\ Earlier(s) \in User /\ Later(s) \in User
      /\ Earlier(s) < Later(s)
  BY <1>1, OpenTransaction, EarlierLater
<1>3. /\ M \in Nat
      /\ Wanted(t) \in 0..M /\ Wanted(s) \in 0..M
  BY <1>2, TransactionAssumption DEF Wanted
<1>4. CASE at[t] = "payment"
  <2>1. at[s] # "payment"
    BY <1>4, BlockerLemma DEF LockInv, TxInv, WaitInv
  <2>2. QED
    BY <1>1, <1>3, <1>4, <2>1 DEF Distance
<1>5. CASE at[t] \in {"insertFirst", "insertSecond"}
  <2>1. Wanted(t) \in User /\ holder[Wanted(t)] = s
    BY <1>2, <1>5, BlockerLemma DEF Wanted
  <2>2. /\ at[s] \in {"insertSecond", "lockFirst", "lockSecond"}
        /\ at[s] = "insertSecond" => Wanted(t) = Earlier(s)
    BY <1>1, <2>1 DEF LockInv, TxInv, WaitInv, Locking
  <2>3. CASE at[s] = "insertSecond"
    <3>1. Wanted(t) < Wanted(s)
      BY <1>2, <2>2, <2>3 DEF Wanted
    <3>2. QED
      BY <1>3, <1>5, <2>3, <3>1 DEF Distance
  <2>4. CASE at[s] \in {"lockFirst", "lockSecond"}
    BY <1>3, <1>5, <2>4 DEF Distance
  <2>5. QED
    BY <2>2, <2>3, <2>4
<1>6. CASE at[t] \in {"lockFirst", "lockSecond"}
  <2>1. Wanted(t) \in User /\ Wanted(t) \in row /\ holder[Wanted(t)] = s
    BY <1>2, <1>6, BlockerLemma DEF Wanted
  <2>2. at[s] = "lockSecond" /\ Wanted(t) = Earlier(s)
    BY <1>1, <2>1 DEF LockInv, TxInv, WaitInv, Locking
  <2>3. Wanted(t) < Wanted(s)
    BY <1>2, <2>2 DEF Wanted
  <2>4. QED
    BY <1>3, <1>6, <2>2, <2>3 DEF Distance
<1>7. QED
  BY <1>1, <1>4, <1>5, <1>6

\* "Lock both balance rows in sorted order to avoid deadlocks, inserting missing
\* rows first": whatever transfers and settlements are open, they never wait
\* for each other in a circle.
THEOREM DeadlockFree == Spec => []NoDeadlock
<1>1. LockInv => NoDeadlock
  <2> SUFFICES ASSUME LockInv, NEW waiting \in SUBSET Tx, waiting # {},
                      \A t \in waiting : Blocker(t) \cap waiting # {}
               PROVE  FALSE
    BY DEF NoDeadlock
  <2> DEFINE distances == {Distance(t) : t \in waiting}
  <2>1. ASSUME NEW t \in waiting
        PROVE  /\ Distance(t) \in 0 .. (2 * MaxUser + 2)
               /\ \E s \in waiting : Distance(s) < Distance(t)
    <3>1. PICK s \in waiting : s \in Blocker(t)
      OBVIOUS
    <3>2. PICK q \in waiting : q \in Blocker(s)
      OBVIOUS
    <3>3. QED
      BY <3>1, <3>2, DistanceShrinks
  <2>2. distances \subseteq 0 .. (2 * MaxUser + 2) /\ distances # {}
    BY <2>1
  <2>3. 2 * MaxUser + 2 \in Nat
    BY TransactionAssumption
  <2>4. PICK m \in distances : \A n \in distances : m <= n
    <3> HIDE DEF distances
    <3>1. QED
      BY <2>2, <2>3, LeastNumber
  <2>5. PICK t \in waiting : m = Distance(t)
    BY <2>4
  <2>6. PICK s \in waiting : Distance(s) < Distance(t)
    BY <2>1
  <2>7. m <= Distance(s)
    BY <2>4
  <2>8. Distance(t) \in Int /\ Distance(s) \in Int
    BY <2>1
  <2>9. QED
    BY <2>5, <2>6, <2>7, <2>8
<1>2. QED
  BY <1>1, LockInvariant, PTL

-----------------------------------------------------------------------------
(* Votes on anything.                                                        *)

Document == (Press \X VoteKind) \cup {NoVote}

\* Requests under way at one moment know each other; one that is alone has
\* seen the stored vote; a vote that one has not seen was pressed by a rival.
VoteInv ==
  /\ stored \in Document
  /\ DOMAIN press = Press
  /\ rivals \in [Press -> SUBSET Press]
  /\ \A r \in UnderWay : press[r].type \in VoteKind /\ press[r].seen \in Document
  /\ \A r \in Press : \A q \in rivals[r] : press[q].pc # "new"
  /\ \A r, q \in UnderWay : r # q => q \in rivals[r]
  /\ \A r \in UnderWay : rivals[r] = {} => stored = press[r].seen
  /\ \A r \in UnderWay :
       press[r].seen = NoVote /\ stored # NoVote =>
         \E q \in rivals[r] : press[q].type = stored[2]

\* What a request that finishes leaves behind.
Wrote(r) ==
  \/ stored' = stored
  \/ stored' = NoVote
  \/ stored' \in Press \X VoteKind /\ stored'[2] = press[r].type

LEMMA FinishedRequest ==
  ASSUME VoteInv, NEW r \in Press, Acts(r), NEW action \in {"added", "changed", "removed", "failed"},
         Replies(r, action), Wrote(r)
  PROVE  VoteInv'
<1>1. /\ DOMAIN press' = Press /\ rivals' = rivals
      /\ press'[r] = [pc |-> action, type |-> press[r].type]
      /\ \A q \in Press \ {r} : press'[q] = press[q]
  BY DEF Replies, VoteInv
<1>2. press'[r].pc # "act" /\ press'[r].pc # "new" /\ press'[r].type = press[r].type
  BY <1>1
<1>3. UnderWay' = UnderWay \ {r} /\ r \in UnderWay
  BY <1>1, <1>2 DEF UnderWay, Acts
<1>4. \A q \in Press : press'[q].type = press[q].type
  BY <1>1
<1>5. \A q \in UnderWay' : press'[q] = press[q] /\ r \in rivals[q]
  BY <1>1, <1>3 DEF VoteInv, UnderWay
<1>6. stored' \in Document
  BY DEF Wrote, VoteInv, Document
<1>7. \A q \in Press : \A p \in rivals[q] : press'[p].pc # "new"
  BY <1>1, <1>2 DEF VoteInv
<1>8. \A q \in UnderWay' : press'[q].seen = NoVote /\ stored' # NoVote =>
        \E p \in rivals[q] : press'[p].type = stored'[2]
  BY <1>1, <1>3, <1>4, <1>5 DEF VoteInv, Wrote
<1> QED  BY <1>1, <1>3, <1>5, <1>6, <1>7, <1>8 DEF VoteInv

LEMMA ReadStep ==
  ASSUME VoteInv, NEW r \in Press, NEW t \in VoteKind, ReadOwnVote(r, t)
  PROVE  VoteInv'
<1> DEFINE task == [pc |-> "act", type |-> t, seen |-> stored]
<1>1. /\ DOMAIN press' = Press /\ stored' = stored
      /\ press'[r] = task
      /\ \A q \in Press \ {r} : press'[q] = press[q]
  BY DEF ReadOwnVote, VoteInv
<1>2. press'[r].pc = "act" /\ press'[r].type = t /\ press'[r].seen = stored
  BY <1>1
<1>3. press[r].pc = "new"
  BY DEF ReadOwnVote, Waiting
<1>4. UnderWay' = UnderWay \cup {r} /\ r \notin UnderWay
  BY <1>1, <1>2, <1>3 DEF UnderWay
<1>5. /\ rivals' \in [Press -> SUBSET Press]
      /\ rivals'[r] = UnderWay
      /\ \A q \in UnderWay : rivals'[q] = rivals[q] \cup {r}
      /\ \A q \in Press : rivals'[q] \subseteq rivals[q] \cup UnderWay \cup {r}
  BY <1>4 DEF ReadOwnVote, VoteInv, UnderWay
<1> HIDE DEF task
<1>6. \A q \in UnderWay : press'[q] = press[q]
  BY <1>1, <1>4 DEF UnderWay
<1>7. \A q \in Press : \A p \in rivals'[q] : press'[p].pc # "new"
  <2>1. ASSUME NEW p \in Press, press[p].pc # "new" \/ p \in UnderWay \/ p = r
        PROVE  press'[p].pc # "new"
    BY <1>1, <1>2, <1>3, <2>1 DEF UnderWay
  <2> QED  BY <2>1, <1>5 DEF VoteInv
<1>8. \A q, p \in UnderWay' : q # p => p \in rivals'[q]
  BY <1>4, <1>5 DEF VoteInv
<1>9. \A q \in UnderWay' : rivals'[q] = {} => stored' = press'[q].seen
  BY <1>1, <1>2, <1>4, <1>5
<1>10. \A q \in UnderWay' :
         press'[q].seen = NoVote /\ stored' # NoVote =>
           \E p \in rivals'[q] : press'[p].type = stored'[2]
  <2>1. ASSUME NEW q \in UnderWay, press[q].seen = NoVote, stored # NoVote
        PROVE  \E p \in rivals'[q] : press'[p].type = stored'[2]
    <3>1. PICK p \in rivals[q] : press[p].type = stored[2] /\ press[p].pc # "new"
      BY <2>1 DEF VoteInv, UnderWay
    <3>2. p # r /\ p \in Press
      BY <3>1, <1>3 DEF VoteInv, UnderWay
    <3> QED  BY <1>1, <1>5, <3>1, <3>2
  <2> QED  BY <2>1, <1>1, <1>2, <1>4, <1>6
<1>11. \A q \in UnderWay' : press'[q].type \in VoteKind /\ press'[q].seen \in Document
  BY <1>2, <1>4, <1>6 DEF VoteInv
<1> QED  BY <1>1, <1>5, <1>7, <1>8, <1>9, <1>10, <1>11 DEF VoteInv

\* What the actions of a request do to the document.
LEMMA AnswersAreTrue ==
  ASSUME VoteInv, NEW r \in Press, Acts(r)
  PROVE  /\ RemoveVote(r) => /\ Replies(r, "removed") /\ Wrote(r)
                             /\ stored' = NoVote \/ rivals[r] # {}
         /\ ChangeVote(r) =>
              \/ /\ Replies(r, "changed") /\ Wrote(r)
                 /\ stored' # NoVote /\ stored'[2] = press[r].type
              \/ Replies(r, "failed") /\ Wrote(r)
         /\ AddVote(r) => /\ Replies(r, "added") /\ Wrote(r)
                          /\ \/ stored' # NoVote /\ stored'[2] = press[r].type
                             \/ \E q \in rivals[r] : press[q].type # press[r].type
         /\ FailVote(r) => Replies(r, "failed") /\ Wrote(r)
<1>1. /\ r \in UnderWay /\ stored \in Document
      /\ press[r].type \in VoteKind /\ press[r].seen \in Document
  BY DEF VoteInv, UnderWay, Acts
<1>2. \A q \in Press : <<q, press[r].type>> \in Press \X VoteKind /\ <<q, press[r].type>> # NoVote
  BY <1>1, VotesConstants
<1>3. ASSUME RemoveVote(r)
      PROVE  Replies(r, "removed") /\ Wrote(r) /\ (stored' = NoVote \/ rivals[r] # {})
  BY <1>1, <1>3 DEF RemoveVote, Wrote, StillThere, VoteInv, Sees
<1>4. ASSUME ChangeVote(r)
      PROVE  \/ /\ Replies(r, "changed") /\ Wrote(r)
                /\ stored' # NoVote /\ stored'[2] = press[r].type
             \/ Replies(r, "failed") /\ Wrote(r)
  <2>1. CASE StillThere(r)
    <3>1. stored[1] \in Press
      BY <1>1, <2>1 DEF StillThere, Document
    <3> QED  BY <1>2, <1>4, <2>1, <3>1 DEF ChangeVote, Wrote
  <2>2. CASE ~StillThere(r)
    BY <1>4, <2>2 DEF ChangeVote, Wrote
  <2> QED  BY <2>1, <2>2
<1>5. ASSUME AddVote(r)
      PROVE  /\ Replies(r, "added") /\ Wrote(r)
             /\ \/ stored' # NoVote /\ stored'[2] = press[r].type
                \/ \E q \in rivals[r] : press[q].type # press[r].type
  <2>1. CASE stored = NoVote
    BY <1>2, <1>5, <2>1 DEF AddVote, Wrote
  <2>2. CASE stored # NoVote
    BY <1>1, <1>5, <2>2 DEF AddVote, Wrote, VoteInv, Sees
  <2> QED  BY <2>1, <2>2
<1>6. FailVote(r) => Replies(r, "failed") /\ Wrote(r)
  BY DEF FailVote, Wrote
<1> QED  BY <1>3, <1>4, <1>5, <1>6

AnswerHolds(r) ==
  /\ Answers(r, "added") =>
       \/ stored' # NoVote /\ stored'[2] = press[r].type
       \/ \E q \in rivals[r] : press[q].type # press[r].type
  /\ Answers(r, "changed") => stored' # NoVote /\ stored'[2] = press[r].type
  /\ Answers(r, "removed") => stored' = NoVote \/ rivals[r] # {}

LEMMA VoteStep ==
  ASSUME VoteInv, [PressNext]_voteVars
  PROVE  VoteInv' /\ \A r \in Press : AnswerHolds(r)
<1>1. ASSUME NEW r \in Press, NEW t \in VoteKind, ReadOwnVote(r, t)
      PROVE  VoteInv' /\ \A q \in Press : AnswerHolds(q)
  <2>1. \A q \in Press : press[q].pc = "act" => press'[q] = press[q]
    BY <1>1 DEF ReadOwnVote, VoteInv, Waiting
  <2> QED  BY <1>1, <2>1, ReadStep DEF AnswerHolds, Answers
<1>2. ASSUME NEW r \in Press, RemoveVote(r) \/ ChangeVote(r) \/ AddVote(r) \/ FailVote(r)
      PROVE  VoteInv' /\ \A q \in Press : AnswerHolds(q)
  <2>1. Acts(r)
    BY <1>2 DEF RemoveVote, ChangeVote, AddVote, FailVote
  <2>2. PICK action \in {"added", "changed", "removed", "failed"} :
          /\ Replies(r, action) /\ Wrote(r)
          /\ action = "added" =>
               \/ stored' # NoVote /\ stored'[2] = press[r].type
               \/ \E q \in rivals[r] : press[q].type # press[r].type
          /\ action = "changed" => stored' # NoVote /\ stored'[2] = press[r].type
          /\ action = "removed" => stored' = NoVote \/ rivals[r] # {}
    BY <1>2, <2>1, AnswersAreTrue
  <2>3. /\ press'[r].pc = action
        /\ \A q \in Press \ {r} : press'[q] = press[q]
    BY <2>2 DEF Replies, VoteInv
  <2>4. \A q \in Press : AnswerHolds(q)
    BY <2>2, <2>3 DEF AnswerHolds, Answers
  <2> QED  BY <2>1, <2>2, <2>4, FinishedRequest
<1>3. CASE UNCHANGED voteVars
  BY <1>3 DEF voteVars, VoteInv, UnderWay, AnswerHolds, Answers
<1> QED  BY <1>1, <1>2, <1>3 DEF PressNext

LEMMA VoteInit == PressInit => VoteInv
  BY DEF PressInit, VoteInv, UnderWay, Waiting, Document

\* The answers about a vote are true for every number of requests, kinds and
\* interleavings.
THEOREM VoteAnswersAreTrue == PressSpec => AnswerIsStored
<1>1. VoteInv /\ [PressNext]_voteVars => VoteInv'
  BY VoteStep
<1>2. VoteInv /\ [PressNext]_voteVars =>
        [\A r \in Press : AnswerHolds(r)]_voteVars
  BY VoteStep
<1>3. (\A r \in Press : AnswerHolds(r)) =>
       \A r \in Press :
         /\ Answers(r, "added") =>
              \/ stored' # NoVote /\ stored'[2] = press[r].type
              \/ \E q \in rivals[r] : press[q].type # press[r].type
         /\ Answers(r, "changed") =>
              stored' # NoVote /\ stored'[2] = press[r].type
         /\ Answers(r, "removed") => stored' = NoVote \/ rivals[r] # {}
  BY DEF AnswerHolds
<1> QED  BY VoteInit, <1>1, <1>2, <1>3, PTL DEF PressSpec, AnswerIsStored

-----------------------------------------------------------------------------

\* The ballots stored, and those that a request is about to push.
CastInv ==
  /\ casts \in Seq(Cast)
  /\ status \in {"open", "closed"}
  /\ DOMAIN voteRequest = VoteRequest
  /\ \A r \in VoteRequest :
       voteRequest[r].pc = "push" =>
         [userId |-> voteRequest[r].user, choices |-> voteRequest[r].choices,
          weights |-> voteRequest[r].weights] \in Cast

LEMMA CastInit == VotesInit => CastInv
  BY DEF VotesInit, CastInv, Idle

\* A request goes on with another job.
LEMMA NextJob ==
  ASSUME CastInv, NEW r \in VoteRequest, NEW task,
         voteRequest' = [voteRequest EXCEPT ![r] = task],
         task.pc = "push" => [userId |-> task.user, choices |-> task.choices,
                             weights |-> task.weights] \in Cast,
         casts' \in Seq(Cast), status' \in {"open", "closed"}
  PROVE  CastInv'
<1>1. /\ DOMAIN voteRequest' = VoteRequest /\ voteRequest'[r] = task
      /\ \A q \in VoteRequest \ {r} : voteRequest'[q] = voteRequest[q]
  BY DEF CastInv
<1> QED  BY <1>1 DEF CastInv

LEMMA ReadVoteStep ==
  ASSUME CastInv, NEW r \in VoteRequest, NEW v \in Voter, NEW d \in Dto,
         ReadVote(r, v, d)
  PROVE  CastInv'
<1> DEFINE refused == [pc |-> "refused"]
           chosen == ToSet(d.choices)
           task == [pc |-> "push", user |-> v, date |-> now,
                   choices |-> chosen, weights |-> d.weights]
<1>0. refused.pc = "refused"
  OBVIOUS
<1>1. /\ casts' = casts /\ status' = status
      /\ \/ voteRequest' = [voteRequest EXCEPT ![r] = refused]
         \/ BodyIsValid(d) /\ voteRequest' = [voteRequest EXCEPT ![r] = task]
  BY DEF ReadVote
<1>2. BodyIsValid(d) => chosen \subseteq Option
  BY DEF BodyIsValid
<1> HIDE DEF chosen, refused
<1>3. BodyIsValid(d) => [userId |-> task.user, choices |-> task.choices,
                         weights |-> task.weights] \in Cast
  BY <1>2 DEF Cast
<1> HIDE DEF task
<1> QED  BY <1>0, <1>1, <1>3, NextJob DEF CastInv

LEMMA PushStep ==
  ASSUME CastInv, NEW r \in VoteRequest, PushBallot(r)
  PROVE  /\ CastInv'
         /\ \E c \in Cast : /\ casts' = Append(casts, c)
                            /\ ~HasVoted(c.userId)
                            /\ status = "open" /\ status' = "open"
<1> DEFINE q == voteRequest[r]
           c == [userId |-> q.user, choices |-> q.choices, weights |-> q.weights]
           task == [pc |-> "cast"]
<1>1. c \in Cast /\ c.userId = q.user /\ task.pc = "cast"
  BY DEF PushBallot, CastInv
<1>2. /\ casts' = Append(casts, c)
      /\ voteRequest' = [voteRequest EXCEPT ![r] = task]
      /\ ~HasVoted(q.user) /\ status = "open" /\ status' = status
  BY DEF PushBallot, MayPush
<1> HIDE DEF c, q, task
<1>3. casts' \in Seq(Cast)
  BY <1>1, <1>2 DEF CastInv
<1> QED  BY <1>1, <1>2, <1>3, NextJob DEF CastInv

Steps(r) == \/ BallotRefused(r) \/ ReadResults(r) \/ CloseLazily(r)
            \/ ReadToClose(r) \/ SaveClosed(r)

LEMMA OtherSteps ==
  ASSUME CastInv, NEW r \in VoteRequest, Steps(r)
  PROVE  CastInv' /\ casts' = casts /\ status' \in {status, "closed"}
<1> DEFINE Goal == CastInv' /\ casts' = casts /\ status' \in {status, "closed"}
<1>1. ASSUME NEW pc \in {"refused", "done", "save"},
             voteRequest' = [voteRequest EXCEPT ![r] = [pc |-> pc]],
             casts' = casts, status' \in {status, "closed"}
      PROVE  Goal
  <2> DEFINE task == [pc |-> pc]
  <2>1. task.pc # "push" /\ voteRequest' = [voteRequest EXCEPT ![r] = task]
    BY <1>1
  <2> HIDE DEF task
  <2> QED  BY <1>1, <2>1, NextJob DEF CastInv
<1>2. ASSUME voteRequest' = [voteRequest EXCEPT ![r] = [pc |-> "close", seen |-> casts]],
             casts' = casts, status' = status
      PROVE  Goal
  <2> DEFINE task == [pc |-> "close", seen |-> casts]
  <2>1. task.pc # "push" /\ voteRequest' = [voteRequest EXCEPT ![r] = task]
    BY <1>2
  <2> HIDE DEF task
  <2> QED  BY <1>2, <2>1, NextJob DEF CastInv
<1>3. CASE BallotRefused(r)  BY <1>1, <1>3 DEF BallotRefused
<1>4. CASE ReadResults(r)    BY <1>1, <1>2, <1>4 DEF ReadResults
<1>5. CASE CloseLazily(r)    BY <1>1, <1>5 DEF CloseLazily
<1>6. CASE ReadToClose(r)    BY <1>1, <1>6 DEF ReadToClose
<1>7. CASE SaveClosed(r)     BY <1>1, <1>7 DEF SaveClosed
<1> QED  BY <1>3, <1>4, <1>5, <1>6, <1>7 DEF Steps

LEMMA CastStep ==
  ASSUME CastInv, [VotesNext]_votesVars
  PROVE  /\ CastInv'
         /\ \/ casts' = casts /\ status' \in {status, "closed"}
            \/ \E c \in Cast : /\ casts' = Append(casts, c)
                               /\ ~HasVoted(c.userId)
                               /\ status = "open" /\ status' = "open"
<1>1. CASE \E r \in VoteRequest : Steps(r)
  BY <1>1, OtherSteps
<1>2. CASE \E r \in VoteRequest : PushBallot(r)
  BY <1>2, PushStep
<1>3. CASE \E r \in VoteRequest, v \in Voter, d \in Dto : ReadVote(r, v, d)
  BY <1>3, ReadVoteStep DEF ReadVote
<1>4. CASE VotesTick
  BY <1>4 DEF VotesTick, CastInv
<1>5. CASE UNCHANGED votesVars
  BY <1>5 DEF votesVars, CastInv
<1> QED  BY <1>1, <1>2, <1>3, <1>4, <1>5 DEF VotesNext, Steps

\* The abstract box holds nothing for a resident without a ballot.
LEMMA NoBallot ==
  ASSUME NEW v, ~HasVoted(v) PROVE BallotOf(v) = NoPaper
  BY DEF HasVoted, BallotOf

\* Appending the first ballot of a resident fills their place in the box only.
LEMMA AppendedBallot ==
  ASSUME CastInv, NEW c \in Cast, casts' = Append(casts, c), ~HasVoted(c.userId)
  PROVE  /\ BallotOf(c.userId)' = {c}
         /\ \A v \in Voter \ {c.userId} : BallotOf(v)' = BallotOf(v)
<1>1. /\ casts \in Seq(Cast) /\ casts' \in Seq(Cast)
      /\ DOMAIN casts = 1..Len(casts) /\ Len(casts) \in Nat
      /\ DOMAIN casts' = 1..(Len(casts) + 1)
      /\ \A i \in 1..Len(casts) : casts'[i] = casts[i]
      /\ casts'[Len(casts) + 1] = c
  BY DEF CastInv
<1>2. DOMAIN casts' = DOMAIN casts \cup {Len(casts) + 1}
  BY <1>1
<1>3. {i \in DOMAIN casts' : casts'[i].userId = c.userId} = {Len(casts) + 1}
  BY <1>1, <1>2 DEF HasVoted
<1>4. BallotOf(c.userId)' = {c}
  BY <1>1, <1>3 DEF BallotOf
<1>5. ASSUME NEW v \in Voter \ {c.userId}
      PROVE  BallotOf(v)' = BallotOf(v)
  <2> DEFINE mine == {i \in DOMAIN casts : casts[i].userId = v}
  <2>1. {i \in DOMAIN casts' : casts'[i].userId = v} = mine
    BY <1>1, <1>2
  <2>2. {casts'[i] : i \in mine} = {casts[i] : i \in mine}
    BY <1>1
  <2> QED  BY <2>1, <2>2 DEF BallotOf
<1> QED  BY <1>4, <1>5

BoxOf == [v \in Voter |-> BallotOf(v)]

LEMMA BoxStart == VotesInit => Box!BoxInit
<1> SUFFICES ASSUME VotesInit PROVE Box!BoxInit
  OBVIOUS
<1>1. \A v \in Voter : BallotOf(v) = NoPaper
  BY NoBallot DEF VotesInit, HasVoted
<1>2. status = "open"
  BY DEF VotesInit
<1> QED  BY <1>1, <1>2 DEF Box!BoxInit

LEMMA BoxStep ==
  ASSUME CastInv, [VotesNext]_votesVars
  PROVE  [Box!BoxNext]_(Box!ballotBoxVars)
<1>1. CASE casts' = casts /\ status' \in {status, "closed"}
  <2>1. BoxOf' = BoxOf
    BY <1>1 DEF BoxOf, BallotOf
  <2>2. CASE status' = status
    BY <2>1, <2>2 DEF Box!ballotBoxVars, BoxOf
  <2>3. CASE status' # status
    <3>1. status = "open" /\ status' = "closed"
      BY <1>1, <2>3 DEF CastInv
    <3>2. Box!Seal
      BY <2>1, <3>1 DEF Box!Seal, BoxOf
    <3> QED  BY <3>2 DEF Box!BoxNext
  <2> QED  BY <2>2, <2>3
<1>2. ASSUME NEW c \in Cast, casts' = Append(casts, c), ~HasVoted(c.userId),
             status = "open", status' = "open"
      PROVE  Box!BoxNext
  <2> DEFINE u == c.userId
  <2>1. u \in Voter
    BY DEF Cast
  <2>2. /\ BallotOf(u)' = {c} /\ BallotOf(u) = NoPaper
        /\ \A v \in Voter \ {u} : BallotOf(v)' = BallotOf(v)
    BY <1>2, AppendedBallot, NoBallot
  <2>3. {c} # NoPaper /\ {c} \in {{d} : d \in Cast}
    BY NoPaperIsNone
  <2> HIDE DEF u
  <2>4. /\ BoxOf[u] = NoPaper /\ BoxOf'[u] = {c}
        /\ BoxOf' = [BoxOf EXCEPT ![u] = {c}]
    BY <2>1, <2>2 DEF BoxOf
  <2>5. Box!DropIn(u)
    BY <1>2, <2>3, <2>4 DEF Box!DropIn, BoxOf
  <2> QED  BY <2>1, <2>5 DEF Box!BoxNext
<1> QED  BY <1>1, <1>2, CastStep

\* One ballot per resident, none once the vote is closed, none changed: for
\* every number of residents, requests, options and bodies.
THEOREM BallotsAreKept == VotesSpec => ImplementsBallotBox
<1>1. CastInv /\ [VotesNext]_votesVars => CastInv'
  BY CastStep
<1>2. CastInv /\ [VotesNext]_votesVars => [Box!BoxNext]_(Box!ballotBoxVars)
  BY BoxStep
<1> QED  BY CastInit, BoxStart, <1>1, <1>2, PTL
         DEF VotesSpec, ImplementsBallotBox, Box!BoxSpec

-----------------------------------------------------------------------------
(* The totals of a community vote.  A ballot was within the budget when it   *)
(* was checked, and what it adds cannot change: the type of a vote is fixed. *)

\* A ballot, or what a request is about to push, adds natural numbers to the
\* options, and in sum no more than one voter may.
FairBallot(c) ==
  /\ \A o \in Option : Adds(c, o) \in Nat
  /\ Total([o \in Option |-> Adds(c, o)]) <= Worth

FairBallots(ballots) ==
  /\ ballots \in Seq(Cast)
  /\ \A i \in DOMAIN ballots : FairBallot(ballots[i])

FairAnswer(reply) ==
  /\ reply.totals \in [Option -> Nat]
  /\ Total(reply.totals) <= Worth * reply.participants

\* What is stored, what requests hold, and what was answered.
FairInv ==
  /\ DOMAIN voteRequest = VoteRequest /\ DOMAIN results = VoteRequest
  /\ FairBallots(casts)
  /\ \A r \in VoteRequest :
       /\ voteRequest[r].pc = "push" => FairBallot(voteRequest[r])
       /\ voteRequest[r].pc = "close" => FairBallots(voteRequest[r].seen)
       /\ FairAnswer(results[r])

LEMMA WorthIsNat == Worth \in Nat
  BY OptionsAreFinite, FS_CardinalityType DEF Worth

\* Ballots are within the budget one by one, so together they are.
LEMMA TallyIsFair ==
  ASSUME NEW ballots, FairBallots(ballots), NEW s
  PROVE  FairAnswer(Answer(ballots, s))
<1> DEFINE n == Len(ballots)
           A == [i \in 1..n |-> [o \in Option |-> Adds(ballots[i], o)]]
           column(o) == [i \in 1..n |-> Adds(ballots[i], o)]
<1>1. n \in Nat /\ DOMAIN ballots = 1..n
  BY DEF FairBallots
<1>2. IsFiniteSet(1..n) /\ Cardinality(1..n) = n
  <2>1. IsFiniteSet(1..n) /\ Cardinality(1..n) = IF 1 > n THEN 0 ELSE n - 1 + 1
    BY <1>1, FS_Interval
  <2> QED
    BY <1>1, <2>1
<1>3. \A i \in 1..n : (\A o \in Option : Adds(ballots[i], o) \in Nat)
                      /\ Total([o \in Option |-> Adds(ballots[i], o)]) <= Worth
  BY <1>1 DEF FairBallots, FairBallot
<1>4. A \in [1..n -> [Option -> Int]] /\ \A i \in 1..n : Total(A[i]) <= Worth
  <2>1. \A i \in 1..n : A[i] = [o \in Option |-> Adds(ballots[i], o)]
    OBVIOUS
  <2>2. ASSUME NEW i \in 1..n PROVE A[i] \in [Option -> Int]
    <3>0. \A o \in Option : Adds(ballots[i], o) \in Nat
      BY <1>3, Zenon
    <3>1. \A o \in Option : Adds(ballots[i], o) \in Int
      BY <3>0
    <3> HIDE DEF A
    <3> QED
      BY <2>1, <3>1
  <2> QED
    BY <1>3, <2>1, <2>2
<1>5. \A o \in Option : column(o) \in [1..n -> Nat] /\ column(o) = [i \in 1..n |-> A[i][o]]
  BY <1>3
<1>6. Tally(ballots) = [o \in Option |-> Total(column(o))]
  BY <1>1 DEF Tally
<1>7. \A o \in Option : Total(column(o)) \in Nat
  <2>1. SUFFICES ASSUME NEW o \in Option PROVE Total(column(o)) \in Nat
    OBVIOUS
  <2> DEFINE f == column(o)
  <2>2. f \in [1..n -> Nat]
    BY <1>5
  <2> HIDE DEF f
  <2>3. Total(f) \in Nat
    BY <1>2, <2>2, TotalNat
  <2> QED
    BY <2>3 DEF f
<1>8. Tally(ballots) = [o \in Option |-> Total([i \in 1..n |-> A[i][o]])]
  BY <1>5, <1>6
<1>9. Total(Tally(ballots)) <= Worth * n
  <2> HIDE DEF A
  <2>1. IsFiniteSet(Option) /\ Worth \in Int
    BY OptionsAreFinite, WorthIsNat
  <2>2. Total([o \in Option |-> Total([i \in 1..n |-> A[i][o]])]) <= Worth * Cardinality(1..n)
    BY <1>2, <1>4, <2>1, TotalOfColumns
  <2> QED
    BY <1>2, <1>8, <2>2
<1>10. Tally(ballots) \in [Option -> Nat]
  BY <1>6, <1>7
<1> QED
  BY <1>9, <1>10 DEF FairAnswer, Answer

\* The checks of cast admit a ballot that is within the budget.
LEMMA BodyIsFair ==
  ASSUME voteType \in VoteType, NEW d \in Dto, BodyIsValid(d), NEW c,
         c.choices = ToSet(d.choices), c.weights = d.weights
  PROVE  FairBallot(c)
<1> DEFINE f == [o \in Option |-> Adds(c, o)]
<1>0. IsFiniteSet(Option) /\ Cardinality(Option) \in Nat
  BY OptionsAreFinite, FS_CardinalityType
<1>1. CASE voteType = "weighted"
  <2> DEFINE w == d.weights
             D == DOMAIN w
  <2>1. /\ w # NoWeights /\ D \in SUBSET Option
        /\ \A o \in D : w[o] >= 0
        /\ Total(w) <= Budget
    BY <1>1 DEF BodyIsValid, WithinBudget, WeightSum
  <2>2. w \in [D -> Int]
    BY <2>1, DtoShape
  <2> HIDE DEF w
  <2>3. \A o \in Option : Adds(c, o) = IF o \in D THEN w[o] ELSE 0
    BY <1>1, <2>1 DEF Adds, w
  <2>4. \A o \in Option : Adds(c, o) \in Nat
    BY <2>1, <2>2, <2>3
  <2>5. /\ f \in [Option -> Int] /\ \A o \in Option \ D : f[o] = 0
        /\ [o \in D |-> f[o]] = w
    BY <2>1, <2>2, <2>3, <2>4
  <2>6. Total(f) = Total([o \in D |-> f[o]])
    <3> HIDE DEF f, D
    <3> QED
      BY <1>0, <2>1, <2>5, TotalOfSupport
  <2> QED
    BY <1>1, <2>1, <2>4, <2>5, <2>6 DEF FairBallot, Worth
<1>2. CASE voteType # "weighted"
  <2>1. \A o \in Option : Adds(c, o) = IF o \in c.choices THEN 1 ELSE 0
    BY <1>2 DEF Adds
  <2>2. /\ f \in [Option -> Int] /\ \A o \in Option : f[o] <= 1
        /\ \A o \in Option : Adds(c, o) \in Nat
        /\ c.choices \in SUBSET Option /\ \A o \in Option \ c.choices : f[o] = 0
    BY <2>1 DEF BodyIsValid
  <2>3. CASE voteType = "multiple_choice"
    <3>1. Total(f) <= 1 * Cardinality(Option)
      <4> HIDE DEF f
      <4> QED
        BY <1>0, <2>2, TotalBounded
    <3> QED
      BY <1>0, <2>2, <2>3, <3>1 DEF FairBallot, Worth
  <2>4. CASE voteType \in SingleChoice
    <3>1. Cardinality(c.choices) = 1 /\ IsFiniteSet(c.choices)
      BY <1>0, <2>2, <2>4, FS_Subset DEF BodyIsValid
    <3> DEFINE D == c.choices
               g == [o \in D |-> f[o]]
    <3>2. g \in [D -> Int] /\ \A o \in D : g[o] <= 1
      BY <2>2
    <3>3. Total(f) = Total(g)
      <4> HIDE DEF f
      <4> QED
        BY <1>0, <2>2, TotalOfSupport
    <3>4. Total(g) <= 1 * Cardinality(D)
      <4> HIDE DEF g
      <4> QED
        BY <3>1, <3>2, TotalBounded
    <3> QED
      BY <2>2, <2>4, <3>1, <3>3, <3>4 DEF FairBallot, Worth, SingleChoice
  <2> QED
    BY <1>2, <2>3, <2>4 DEF VoteType, SingleChoice
<1> QED
  BY <1>1, <1>2

LEMMA FairInit == VotesInit => FairInv
<1> SUFFICES ASSUME VotesInit PROVE FairInv
  OBVIOUS
<1> DEFINE none == [o \in Option |-> 0]
<1>1. none \in [Option -> Int] /\ none \in [Option -> Nat] /\ \A o \in Option : none[o] <= 0
  OBVIOUS
<1>2. Total(none) <= 0
  <2> HIDE DEF none
  <2>1. Total(none) <= 0 * Cardinality(Option) /\ Cardinality(Option) \in Nat
    BY <1>1, OptionsAreFinite, TotalBounded, FS_CardinalityType
  <2> QED
    BY <2>1
<1>3. FairAnswer(NoResults)
  BY <1>1, <1>2, WorthIsNat DEF FairAnswer, NoResults
<1>4. FairBallots(casts)
  BY DEF VotesInit, FairBallots
<1> QED
  BY <1>3, <1>4 DEF VotesInit, FairInv, Idle

\* A request goes on with another job, and may have answered.
LEMMA NextFairJob ==
  ASSUME FairInv, NEW r \in VoteRequest, NEW task,
         voteRequest' = [voteRequest EXCEPT ![r] = task], voteType' = voteType,
         task.pc = "push" => FairBallot(task),
         task.pc = "close" => FairBallots(task.seen),
         FairBallots(casts'),
         \/ results' = results
         \/ \E reply : FairAnswer(reply) /\ results' = [results EXCEPT ![r] = reply]
  PROVE  FairInv'
<1>1. /\ DOMAIN voteRequest' = VoteRequest /\ voteRequest'[r] = task
      /\ \A q \in VoteRequest \ {r} : voteRequest'[q] = voteRequest[q]
  BY DEF FairInv
<1>2. DOMAIN results' = VoteRequest /\ \A q \in VoteRequest : FairAnswer(results'[q])
  BY DEF FairInv
<1>3. \A c : FairBallot(c)' <=> FairBallot(c)
  BY DEF FairBallot, Adds, Worth
<1>4. \A b : FairBallots(b)' <=> FairBallots(b)
  BY <1>3 DEF FairBallots
<1>5. \A a : FairAnswer(a)' <=> FairAnswer(a)
  BY DEF FairAnswer, Worth
<1> QED
  BY <1>1, <1>2, <1>3, <1>4, <1>5 DEF FairInv

LEMMA FairStep ==
  ASSUME FairInv, CastInv, voteType \in VoteType, [VotesNext]_votesVars
  PROVE  FairInv' /\ voteType' = voteType
<1>0. voteType' = voteType
  BY DEF VotesNext, votesVars, ReadVote, PushBallot, BallotRefused, ReadResults, CloseLazily,
     ReadToClose, SaveClosed, VotesTick
<1>a. FairBallots(casts)
  BY DEF FairInv
<1>1. ASSUME NEW r \in VoteRequest, NEW pc \in {"refused", "done", "save", "cast"},
             voteRequest' = [voteRequest EXCEPT ![r] = [pc |-> pc]], FairBallots(casts'),
             \/ results' = results
             \/ \E reply : FairAnswer(reply) /\ results' = [results EXCEPT ![r] = reply]
      PROVE  FairInv'
  <2> DEFINE task == [pc |-> pc]
  <2>1. task.pc # "push" /\ task.pc # "close" /\ voteRequest' = [voteRequest EXCEPT ![r] = task]
    BY <1>1
  <2> HIDE DEF task
  <2> QED
    BY <1>0, <1>1, <2>1, NextFairJob
<1>2. ASSUME NEW r \in VoteRequest, NEW v \in Voter, NEW d \in Dto, ReadVote(r, v, d)
      PROVE  FairInv'
  <2> DEFINE task == [pc |-> "push", user |-> v, date |-> now,
                     choices |-> ToSet(d.choices), weights |-> d.weights]
             refused == [pc |-> "refused"]
  <2>1. /\ casts' = casts /\ results' = results
        /\ \/ voteRequest' = [voteRequest EXCEPT ![r] = refused]
           \/ BodyIsValid(d) /\ voteRequest' = [voteRequest EXCEPT ![r] = task]
    BY <1>2 DEF ReadVote
  <2>2. CASE voteRequest' = [voteRequest EXCEPT ![r] = refused]
    BY <1>a, <1>1, <2>1, <2>2
  <2>3. CASE BodyIsValid(d) /\ voteRequest' = [voteRequest EXCEPT ![r] = task]
    <3>1. task.choices = ToSet(d.choices) /\ task.weights = d.weights /\ task.pc = "push"
      OBVIOUS
    <3> HIDE DEF task
    <3>2. FairBallot(task)
      BY <2>3, <3>1, BodyIsFair
    <3> QED
      BY <1>0, <1>a, <2>1, <2>3, <3>1, <3>2, NextFairJob
  <2> QED
    BY <2>1, <2>2, <2>3
<1>3. ASSUME NEW r \in VoteRequest, PushBallot(r) PROVE FairInv'
  <2> DEFINE q == voteRequest[r]
             c == [userId |-> q.user, choices |-> q.choices, weights |-> q.weights]
  <2>1. q.pc = "push" /\ casts' = Append(casts, c) /\ results' = results
    BY <1>3 DEF PushBallot
  <2>2. FairBallot(q) /\ c \in Cast
    BY <2>1 DEF FairInv, CastInv
  <2>3. \A o \in Option : Adds(c, o) = Adds(q, o)
    BY DEF Adds
  <2>4. FairBallot(c)
    <3>1. [o \in Option |-> Adds(c, o)] = [o \in Option |-> Adds(q, o)]
      BY <2>3
    <3> QED
      BY <2>2, <2>3, <3>1 DEF FairBallot
  <2> HIDE DEF q, c
  <2>5. FairBallots(casts')
    BY <1>a, <2>1, <2>2, <2>4 DEF FairBallots
  <2> QED
    BY <1>1, <1>3, <2>1, <2>5 DEF PushBallot
<1>4. ASSUME NEW r \in VoteRequest, BallotRefused(r) \/ ReadToClose(r) \/ SaveClosed(r)
      PROVE  FairInv'
  BY <1>a, <1>1, <1>4 DEF BallotRefused, ReadToClose, SaveClosed
<1>5. ASSUME NEW r \in VoteRequest, ReadResults(r) PROVE FairInv'
  <2>1. CASE status = "open" /\ now > EndsAt
    <3> DEFINE task == [pc |-> "close", seen |-> casts]
    <3>1. task.pc = "close" /\ task.seen = casts
      OBVIOUS
    <3>2. voteRequest' = [voteRequest EXCEPT ![r] = task] /\ results' = results /\ casts' = casts
      BY <1>5, <2>1 DEF ReadResults
    <3> HIDE DEF task
    <3> QED
      BY <1>0, <1>a, <3>1, <3>2, NextFairJob
  <2>2. CASE ~(status = "open" /\ now > EndsAt)
    <3>1. FairAnswer(Answer(casts, status))
      BY <1>a, TallyIsFair
    <3> QED
      BY <1>a, <1>1, <1>5, <2>2, <3>1 DEF ReadResults
  <2> QED
    BY <2>1, <2>2
<1>6. ASSUME NEW r \in VoteRequest, CloseLazily(r) PROVE FairInv'
  <2>1. FairBallots(voteRequest[r].seen)
    BY <1>6 DEF CloseLazily, FairInv
  <2>2. FairAnswer(Answer(voteRequest[r].seen, "closed"))
    BY <2>1, TallyIsFair
  <2> QED
    BY <1>a, <1>1, <1>6, <2>2 DEF CloseLazily
<1>7. CASE UNCHANGED <<casts, voteRequest, results>>
  <2>1. \A c : FairBallot(c)' <=> FairBallot(c)
    BY <1>0 DEF FairBallot, Adds, Worth
  <2>2. \A b : FairBallots(b)' <=> FairBallots(b)
    BY <2>1 DEF FairBallots
  <2>3. \A a : FairAnswer(a)' <=> FairAnswer(a)
    BY <1>0 DEF FairAnswer, Worth
  <2> QED
    BY <1>0, <1>7, <2>1, <2>2, <2>3 DEF FairInv
<1> QED
  BY <1>0, <1>2, <1>3, <1>4, <1>5, <1>6, <1>7 DEF VotesNext, VotesTick, votesVars

\* No ballot weighs more than one voter may: the totals answered are natural
\* numbers and do not exceed what the participants may spend, for any options,
\* any budget and any number of ballots, requests and readers.
THEOREM TotalsStayWithinBudget == VotesSpec => []TotalsWithinBudget
<1> DEFINE IInv == FairInv /\ CastInv /\ voteType \in VoteType
<1>1. VotesInit => IInv
  BY FairInit, CastInit DEF VotesInit
<1>2. IInv /\ [VotesNext]_votesVars => IInv'
  BY FairStep, CastStep
<1>3. FairInv => TotalsWithinBudget
  BY DEF FairInv, FairAnswer, TotalsWithinBudget
<1> QED
  BY <1>1, <1>2, <1>3, PTL DEF VotesSpec

-----------------------------------------------------------------------------

AnyCondition == [field : Field, kind : {"eq", "op"}, accepts : SUBSET Value]
AnyFilter == [or : (SUBSET Row) \cup {NoOr},
              on : [Field -> AnyCondition \cup {NoCondition}]]

\* The filter finds every row the conditions ask for, and no other unless a
\* conjunction named a field twice.
FilterInv ==
  /\ filter \in AnyFilter
  /\ meaning \subseteq Matches(filter)
  /\ repeated \/ Matches(filter) = meaning

DslInv == FilterInv /\ NothingIsMissed

\* A dict with one entry finds the rows that meet its condition.
LEMMA SingleMatches ==
  ASSUME NEW c \in AnyCondition
  PROVE  /\ Single(c) \in AnyFilter
         /\ Matches(Single(c)) = {entry \in Row : Meets(entry, c)}
<1>1. c.field \in Field /\ c # NoCondition
  BY DslConstants DEF AnyCondition
<1>2. Single(c) = [or |-> NoOr,
                   on |-> [f \in Field |-> IF f = c.field THEN c ELSE NoCondition]]
  BY <1>1 DEF Single, NoFilter
<1> QED  BY <1>1, <1>2 DEF Matches, AnyFilter

\* Merging a condition into a filter finds every row that both find, only rows
\* that meet the condition, and only rows of the filter if the field is new.
LEMMA MergeMatches ==
  ASSUME NEW flt \in AnyFilter,
         NEW c \in AnyCondition
  PROVE  /\ Merge(flt, c) \in AnyFilter
         /\ \A entry \in Matches(flt) : Meets(entry, c) => entry \in Matches(Merge(flt, c))
         /\ \A entry \in Matches(Merge(flt, c)) : entry \in Row /\ Meets(entry, c)
         /\ flt.on[c.field] = NoCondition => Matches(Merge(flt, c)) \subseteq Matches(flt)
<1>1. c.field \in Field /\ c # NoCondition
  BY DslConstants DEF AnyCondition
<1>2. /\ Merge(flt, c).or = flt.or
      /\ Merge(flt, c).on = [flt.on EXCEPT ![c.field] = c]
      /\ Merge(flt, c) = [or |-> flt.or, on |-> [flt.on EXCEPT ![c.field] = c]]
  BY DEF Merge, AnyFilter
<1>3. /\ Merge(flt, c).on[c.field] = c
      /\ \A f \in Field \ {c.field} : Merge(flt, c).on[f] = flt.on[f]
  BY <1>1, <1>2 DEF AnyFilter
<1> QED  BY <1>1, <1>2, <1>3 DEF Matches, AnyFilter

\* A $or finds the rows of either side.
LEMMA OrMatches ==
  ASSUME NEW flt, NEW c \in AnyCondition
  PROVE  /\ OrFilter(flt, c) \in AnyFilter
         /\ Matches(OrFilter(flt, c)) = Matches(flt) \cup Matches(Single(c))
<1> DEFINE both == Matches(flt) \cup Matches(Single(c))
<1>1. both \in SUBSET Row
  BY DEF Matches
<1>2. both # NoOr
  BY <1>1, DslConstants
<1>3. OrFilter(flt, c) = [or |-> both, on |-> [f \in Field |-> NoCondition]]
  BY DEF OrFilter, NoFilter
<1> HIDE DEF both
<1>4. Matches(OrFilter(flt, c)) = both
  BY <1>1, <1>2, <1>3 DEF Matches
<1> QED  BY <1>1, <1>3, <1>4 DEF both, AnyFilter

\* What is cut from a result is as long as the limit.
LEMMA CutIsFull ==
  ASSUME NEW rows, NEW cap \in Nat, NEW few \in Cut(rows, cap)
  PROVE  few \subseteq rows /\ (few = rows \/ Cardinality(few) >= cap)
  BY DEF Cut

LEMMA CapIsNat == ASSUME NEW limit \in Limit PROVE Cap(limit) \in Nat
  BY DslConstants DEF Cap, Limit

LEMMA DslInitInv == DslInit => DslInv
<1> SUFFICES ASSUME DslInit PROVE DslInv
  OBVIOUS
<1>1. filter \in AnyFilter
  BY DEF DslInit, NoFilter, AnyFilter
<1>2. Matches(filter) = Row
  BY DEF DslInit, NoFilter, Matches
<1>3. NothingIsMissed
  BY DEF DslInit, NothingIsMissed, NoAnswer
<1> QED  BY <1>1, <1>2, <1>3 DEF DslInv, FilterInv, DslInit

LEMMA FilterStep ==
  ASSUME DslInv, [DslNext]_dslVars PROVE FilterInv'
<1> USE DEF DslInv
<1>1. ASSUME NEW c \in Condition PROVE c \in AnyCondition
  BY <1>1, DslConstants DEF Condition, AnyCondition
<1>2. ASSUME NEW c \in Condition, FirstCondition(c) PROVE FilterInv'
  BY <1>1, <1>2, SingleMatches DEF FilterInv, FirstCondition
<1>3. ASSUME NEW c \in Condition, AndCondition(c) PROVE FilterInv'
  <2>1. /\ meaning' \subseteq Matches(filter')
        /\ filter' \in AnyFilter
    BY <1>1, <1>3, MergeMatches DEF FilterInv, AndCondition
  <2>2. repeated' \/ Matches(filter') \subseteq meaning'
    BY <1>1, <1>3, MergeMatches DEF FilterInv, AndCondition
  <2> QED  BY <2>1, <2>2 DEF FilterInv, Matches
<1>4. ASSUME NEW c \in Condition, OrCondition(c) PROVE FilterInv'
  BY <1>1, <1>4, SingleMatches, OrMatches DEF FilterInv, OrCondition
<1>5. CASE UNCHANGED queryVars
  BY <1>5 DEF queryVars, FilterInv, Matches
<1>6. CASE \E reader \in Reader, limit \in Limit :
             \/ \E store \in Store : RunMongo(store, reader, limit)
             \/ RunPostgres(reader, limit)
  BY <1>5, <1>6 DEF RunMongo, RunPostgres, Respond
<1>7. CASE RejectFilter
  BY <1>5, <1>7 DEF RejectFilter
<1>8. CASE UNCHANGED dslVars
  BY <1>5, <1>8 DEF dslVars
<1> QED  BY <1>2, <1>3, <1>4, <1>6, <1>7, <1>8 DEF DslNext

LEMMA MongoAnswers ==
  ASSUME DslInv, NEW store \in Store, NEW reader \in Reader, NEW limit \in Limit,
         RunMongo(store, reader, limit)
  PROVE  NothingIsMissed'
<1> DEFINE flt  == IF store = "neighborhoods" THEN filter ELSE Scoped(filter, reader)
           rows == Matches(flt)
           scope == [field |-> Scope, kind |-> "eq", accepts |-> reader]
<1>0. Cap(limit) \in Nat
  BY CapIsNat
<1>1. PICK few \in IF Cap(limit) = 0 THEN {rows} ELSE Cut(rows, Cap(limit)) :
        Respond(store, reader, limit, few)
  BY DEF RunMongo
<1>2. few \subseteq rows /\ (few = rows \/ Cardinality(few) >= Cap(limit))
  BY <1>0, <1>1, CutIsFull
<1>3. scope \in AnyCondition
  BY DslConstants DEF AnyCondition, Reader, Everywhere
<1>4. /\ rows \subseteq Visible(store, reader)
      /\ meaning \cap Visible(store, reader) \subseteq rows
      /\ \/ rows \subseteq meaning
         \/ repeated
         \/ Overridden(store, reader)
  <2>1. CASE store = "neighborhoods"
    BY <2>1 DEF DslInv, FilterInv, Visible, Matches
  <2>2. CASE store # "neighborhoods" /\ reader = Everywhere
    <3>1. Visible(store, reader) = Row
      BY <2>2, DslConstants DEF Visible, Within, Everywhere
    <3> QED  BY <2>2, <3>1 DEF DslInv, FilterInv, Scoped, Matches
  <2>3. CASE store # "neighborhoods" /\ reader # Everywhere
    <3>1. rows = Matches(Merge(filter, scope))
      BY <2>3 DEF Scoped
    <3>2. Visible(store, reader) = {entry \in Row : Meets(entry, scope)}
      BY <2>3 DEF Visible, Within, Meets
    <3>3. Overridden(store, reader) \/ filter.on[scope.field] = NoCondition
      BY <2>3 DEF Overridden, RunMongo, Store
    <3>4. /\ \A entry \in Matches(filter) : Meets(entry, scope) => entry \in rows
          /\ \A entry \in rows : entry \in Row /\ Meets(entry, scope)
          /\ filter.on[scope.field] = NoCondition => rows \subseteq Matches(filter)
      <4> HIDE DEF scope
      <4> QED  BY <1>3, <3>1, MergeMatches DEF DslInv, FilterInv
    <3> HIDE DEF scope, rows
    <3> QED  BY <3>2, <3>3, <3>4 DEF DslInv, FilterInv
  <2> QED  BY <2>1, <2>2, <2>3
<1> HIDE DEF rows, flt, scope
<1>5. /\ answer' = [outcome |-> "rows", rows |-> few, store |-> store,
                    reader |-> reader, limit |-> limit]
      /\ filter' = filter /\ meaning' = meaning /\ repeated' = repeated
  BY <1>1 DEF Respond, queryVars
<1>6. Overridden(store, reader)' = Overridden(store, reader)
  BY <1>5 DEF Overridden
<1> QED  BY <1>2, <1>4, <1>5, <1>6 DEF NothingIsMissed, Visible, Within, Cap, Overridden

LEMMA PostgresAnswers ==
  ASSUME DslInv, NEW reader \in Reader, NEW limit \in Limit,
         RunPostgres(reader, limit)
  PROVE  NothingIsMissed'
<1> DEFINE empty == filter.on[Column].accepts = {EmptyText}
           rows == IF reader = {} \/ IsPlain \/ empty THEN Within(reader)
                   ELSE {entry \in Within(reader) : Meets(entry, filter.on[Column])}
<1>0. Cap(limit) \in Nat
  BY CapIsNat
<1>1. PICK few \in Cut(rows, Cap(limit)) : Respond("postgres", reader, limit, few)
  BY DEF RunPostgres
<1>2. few \subseteq rows /\ (few = rows \/ Cardinality(few) >= Cap(limit))
  BY <1>0, <1>1, CutIsFull
<1>3. /\ rows \subseteq Within(reader)
      /\ meaning \cap Within(reader) \subseteq rows
      /\ rows \subseteq meaning \/ repeated \/ empty
  <2>1. CASE reader = {}
    BY <2>1 DEF Within
  <2>2. CASE IsPlain
    <3>1. Matches(filter) = Row
      BY <2>2 DEF IsPlain, Asked, Matches
    <3> QED  BY <2>2, <3>1 DEF DslInv, FilterInv, Within
  <2>3. CASE reader # {} /\ ~IsPlain
    <3>1. IsSimple
      BY <2>3 DEF RunPostgres
    <3>2. Matches(filter) = {entry \in Row : Meets(entry, filter.on[Column])}
      BY <3>1, DslConstants DEF IsSimple, Asked, Matches
    <3> QED  BY <2>3, <3>2 DEF DslInv, FilterInv, Within
  <2> QED  BY <2>1, <2>2, <2>3
<1>5. /\ answer' = [outcome |-> "rows", rows |-> few, store |-> "postgres",
                    reader |-> reader, limit |-> limit]
      /\ filter' = filter /\ meaning' = meaning /\ repeated' = repeated
  BY <1>1 DEF Respond, queryVars
<1> HIDE DEF rows
<1> QED  BY <1>2, <1>3, <1>5 DEF NothingIsMissed, Visible, Within, Cap, Overridden

LEMMA AnswerStep ==
  ASSUME DslInv, [DslNext]_dslVars PROVE NothingIsMissed'
<1>1. ASSUME NEW c \in Condition,
             FirstCondition(c) \/ AndCondition(c) \/ OrCondition(c)
      PROVE  NothingIsMissed'
  <2>1. answer' = NoAnswer
    BY <1>1 DEF FirstCondition, AndCondition, OrCondition
  <2> QED  BY <2>1 DEF NothingIsMissed, NoAnswer
<1>2. CASE RejectFilter
  BY <1>2 DEF RejectFilter, NothingIsMissed
<1>3. CASE UNCHANGED dslVars
  BY <1>3 DEF dslVars, queryVars, DslInv, NothingIsMissed, Visible, Overridden,
     Within, Cap
<1> QED  BY <1>1, <1>2, <1>3, MongoAnswers, PostgresAnswers DEF DslNext

\* Whatever the collection, the conditions and the limit, an answer shows no
\* row outside the requester's neighbourhoods, misses none the query asks for
\* unless the limit is reached, and shows no other row but in the named cases.
THEOREM AnswersAreSound == DslSpec => []NothingIsMissed
<1>1. DslInv /\ [DslNext]_dslVars => DslInv'
  BY FilterStep, AnswerStep DEF DslInv
<1>2. DslInv => NothingIsMissed
  BY DEF DslInv
<1> QED  BY DslInitInv, <1>1, <1>2, PTL DEF DslSpec

-----------------------------------------------------------------------------
(* Roles                                                                     *)

AnyRole == GrantedRole \cup {"deleted"}

\* A banned account keeps the role it held; what a request is about to write
\* comes from what it read.
RoleInv ==
  /\ role \in [Account -> AnyRole]
  /\ previousRole \in [Account -> AnyRole \cup {NoRole}]
  /\ DOMAIN held = Account
  /\ DOMAIN call = Call
  /\ \A r \in Call : "pc" \in DOMAIN call[r]
  /\ \A r \in Call :
       call[r].pc = "role" => /\ call[r].who \in Account
                              /\ call[r].wanted \in GrantedRole
                              /\ call[r].role \in AnyRole
                              /\ call[r].previous \in AnyRole \cup {NoRole}
  /\ \A u \in Account :
       role[u] = "banned" /\ ~staleRole =>
         /\ previousRole[u] = held[u]
         /\ held[u] \notin {NoRole, "banned"}

\* A request that is not about a role goes on.
LEMMA OtherCall ==
  ASSUME RoleInv, NEW r \in Call, NEW task, "pc" \in DOMAIN task, task.pc # "role",
         call' = [call EXCEPT ![r] = task],
         UNCHANGED <<previousRole, held, staleRole>>,
         \/ role' = role
         \/ \E u \in Account : role' = [role EXCEPT ![u] = "deleted"]
  PROVE  RoleInv'
<1>1. /\ role' \in [Account -> AnyRole]
      /\ \A u \in Account : role'[u] = "banned" => role[u] = "banned"
  BY DEF RoleInv, AnyRole
<1>2. /\ DOMAIN call' = Call /\ call'[r] = task
      /\ \A q \in Call \ {r} : call'[q] = call[q]
  BY DEF RoleInv
<1> QED  BY <1>1, <1>2 DEF RoleInv

LEMMA ContinuedCall ==
  ASSUME RoleInv, NEW r \in Call, NEW pc, pc # "role", Continue(r, pc)
  PROVE  \E task : /\ "pc" \in DOMAIN task /\ task.pc # "role"
                  /\ call' = [call EXCEPT ![r] = task]
<1> DEFINE task == [call[r] EXCEPT !.pc = pc]
<1>1. "pc" \in DOMAIN call[r]
  BY DEF RoleInv
<1>2. "pc" \in DOMAIN task /\ task.pc = pc
  BY <1>1
<1>3. call' = [call EXCEPT ![r] = task]
  BY DEF Continue
<1> HIDE DEF task
<1> QED  BY <1>2, <1>3

LEMMA ReadRoleStep ==
  ASSUME RoleInv, NEW r \in Call, NEW u \in Account, NEW wanted \in GrantedRole,
         ReadRole(r, u, wanted)
  PROVE  RoleInv'
<1> DEFINE task == [pc |-> "role", who |-> u, wanted |-> wanted, role |-> role[u],
                   previous |-> previousRole[u]]
<1>1. /\ "pc" \in DOMAIN task /\ task.who \in Account /\ task.wanted \in GrantedRole
      /\ task.role \in AnyRole /\ task.previous \in AnyRole \cup {NoRole}
  BY DEF RoleInv
<1>2. /\ call' = [call EXCEPT ![r] = task]
      /\ UNCHANGED <<role, previousRole, held, staleRole>>
  BY DEF ReadRole, rowVars, roleHistory
<1> HIDE DEF task
<1>3. /\ DOMAIN call' = Call /\ call'[r] = task
      /\ \A q \in Call \ {r} : call'[q] = call[q]
  BY <1>2 DEF RoleInv
<1> QED  BY <1>1, <1>2, <1>3 DEF RoleInv

LEMMA WriteRoleStep ==
  ASSUME RoleInv, NEW r \in Call, WriteRole(r) PROVE RoleInv'
<1> DEFINE q == call[r]
           u == q.who
<1>1. /\ u \in Account /\ q.wanted \in GrantedRole
      /\ q.role \in AnyRole /\ q.previous \in AnyRole \cup {NoRole}
  BY DEF RoleInv, WriteRole, InPc
<1>2. /\ role' = [role EXCEPT ![u] = NewRole(q)]
      /\ previousRole' = [previousRole EXCEPT ![u] = KeptRole(q)]
      /\ held' = IF NewRole(q) = "banned" /\ role[u] # "banned"
                 THEN [held EXCEPT ![u] = role[u]] ELSE held
      /\ staleRole' = (staleRole \/ role[u] # q.role \/ previousRole[u] # q.previous)
      /\ Finish(r)
  BY DEF WriteRole
<1>3. PICK task : /\ "pc" \in DOMAIN task /\ task.pc # "role"
                 /\ call' = [call EXCEPT ![r] = task]
  BY <1>2, ContinuedCall DEF Finish
<1>4. /\ DOMAIN call' = Call /\ call'[r] = task
      /\ \A p \in Call \ {r} : call'[p] = call[p]
  BY <1>3 DEF RoleInv
<1>5. NewRole(q) \in AnyRole /\ KeptRole(q) \in AnyRole \cup {NoRole}
  BY <1>1 DEF NewRole, KeptRole, AnyRole
<1> HIDE DEF q, u
<1>6. /\ role' \in [Account -> AnyRole]
      /\ previousRole' \in [Account -> AnyRole \cup {NoRole}]
      /\ DOMAIN held' = Account
      /\ role'[u] = NewRole(q) /\ previousRole'[u] = KeptRole(q)
      /\ \A v \in Account \ {u} : /\ role'[v] = role[v] /\ held'[v] = held[v]
                                  /\ previousRole'[v] = previousRole[v]
  BY <1>1, <1>2, <1>5 DEF RoleInv
<1>7. ASSUME role'[u] = "banned", ~staleRole'
      PROVE  previousRole'[u] = held'[u] /\ held'[u] \notin {NoRole, "banned"}
  <2>1. ~staleRole /\ role[u] = q.role /\ previousRole[u] = q.previous
    BY <1>2, <1>7
  <2>2. role[u] \in AnyRole /\ NoRole \notin AnyRole
    BY <1>1, RoleConstants DEF RoleInv, AnyRole
  <2>3. CASE role[u] = "banned"
    <3>1. held' = held /\ previousRole[u] = held[u] /\ held[u] \notin {NoRole, "banned"}
      BY <1>1, <1>2, <2>1, <2>3 DEF RoleInv
    <3> QED  BY <1>6, <1>7, <2>1, <2>3, <3>1 DEF NewRole, KeptRole
  <2>4. CASE role[u] # "banned"
    <3>1. q.wanted = "banned" /\ held'[u] = role[u] /\ KeptRole(q) = role[u]
      BY <1>1, <1>2, <1>6, <1>7, <2>1, <2>4 DEF NewRole, KeptRole, RoleInv
    <3> QED  BY <1>6, <2>2, <2>4, <3>1
  <2> QED  BY <2>3, <2>4
<1>8. ~staleRole' => ~staleRole
  BY <1>2
<1>9. \A v \in Account :
        role'[v] = "banned" /\ ~staleRole' =>
          previousRole'[v] = held'[v] /\ held'[v] \notin {NoRole, "banned"}
  BY <1>6, <1>7, <1>8 DEF RoleInv
<1> QED  BY <1>3, <1>4, <1>6, <1>9 DEF RoleInv

LEMMA RoleStep ==
  ASSUME RoleInv, [AccountsNext]_accountVars PROVE RoleInv'
<1> USE DEF rowVars, roleHistory
<1>1. ASSUME NEW r \in Call, NEW task, "pc" \in DOMAIN task, task.pc # "role",
             BeginCall(r, task), UNCHANGED <<role, previousRole, roleHistory>>
      PROVE  RoleInv'
  BY <1>1, OtherCall DEF BeginCall
<1>2. ASSUME NEW r \in Call, NEW pc \in {"undo", "done", "revoke", "propagate", "flip"},
             Continue(r, pc), UNCHANGED <<role, previousRole, roleHistory>>
      PROVE  RoleInv'
  BY <1>2, ContinuedCall, OtherCall
<1>3. ASSUME NEW r \in Call, NEW u \in Account, NEW a \in Email, Register(r, u, a)
      PROVE  RoleInv'
  <2> DEFINE task == [pc |-> "consent", who |-> u, old |-> a]
  <2>1. "pc" \in DOMAIN task /\ task.pc # "role"
    OBVIOUS
  <2>2. BeginCall(r, task) /\ UNCHANGED <<role, previousRole, roleHistory>>
    BY <1>3 DEF Register
  <2> HIDE DEF task
  <2> QED  BY <2>1, <2>2, <1>1
<1>4. ASSUME NEW r \in Call, NEW u \in Account, NEW a \in Email, ReadEmail(r, u, a)
      PROVE  RoleInv'
  <2> DEFINE task == [pc |-> "apply", who |-> u, old |-> email[u], new |-> a]
  <2>1. "pc" \in DOMAIN task /\ task.pc # "role"
    OBVIOUS
  <2>2. BeginCall(r, task) /\ UNCHANGED <<role, previousRole, roleHistory>>
    BY <1>4 DEF ReadEmail
  <2> HIDE DEF task
  <2> QED  BY <2>1, <2>2, <1>1
<1>5. ASSUME NEW r \in Call, NEW u \in Account, ReadToDelete(r, u)
      PROVE  RoleInv'
  <2> DEFINE task == [pc |-> "erase", who |-> u, old |-> email[u]]
  <2>1. "pc" \in DOMAIN task /\ task.pc # "role"
    OBVIOUS
  <2>2. BeginCall(r, task) /\ UNCHANGED <<role, previousRole, roleHistory>>
    BY <1>5 DEF ReadToDelete
  <2> HIDE DEF task
  <2> QED  BY <2>1, <2>2, <1>1
<1>6. ASSUME NEW r \in Call, FlipRow(r) PROVE RoleInv'
  <2>1. PICK task : /\ "pc" \in DOMAIN task /\ task.pc # "role"
                   /\ call' = [call EXCEPT ![r] = task]
    BY <1>6, ContinuedCall DEF FlipRow, Finish
  <2>2. role' = role \/ \E u \in Account : role' = [role EXCEPT ![u] = "deleted"]
    <3>1. CASE call[r].who \in Account
      BY <1>6, <3>1 DEF FlipRow
    <3>2. CASE call[r].who \notin Account
      BY <1>6, <3>2 DEF FlipRow, RoleInv
    <3> QED  BY <3>1, <3>2
  <2>3. UNCHANGED <<previousRole, held, staleRole>>
    BY <1>6 DEF FlipRow
  <2> QED  BY <2>1, <2>2, <2>3, OtherCall
<1>7. ASSUME NEW r \in Call,
             \/ RecordConsent(r) \/ LoseConsent(r) \/ UndoRegister(r)
             \/ ApplyEmail(r) \/ RevokeToken(r) \/ PropagateEmail(r)
             \/ LosePropagation(r) \/ EraseCopy(r) \/ StopCall(r)
      PROVE  RoleInv'
  <2>1. /\ \E pc \in {"undo", "done", "revoke", "propagate", "flip"} : Continue(r, pc)
        /\ UNCHANGED <<role, previousRole, roleHistory>>
    BY <1>7 DEF RecordConsent, LoseConsent, UndoRegister, ApplyEmail, RevokeToken,
       PropagateEmail, LosePropagation, EraseCopy, StopCall, Finish
  <2> QED  BY <2>1, <1>2
<1>8. CASE UNCHANGED accountVars
  BY <1>8 DEF accountVars, RoleInv
<1> QED  BY <1>3, <1>4, <1>5, <1>6, <1>7, <1>8, ReadRoleStep, WriteRoleStep
         DEF AccountsNext

LEMMA RoleInit == AccountsInit => RoleInv
<1> SUFFICES ASSUME AccountsInit PROVE RoleInv
  OBVIOUS
<1> DEFINE fresh == [pc |-> "new"]
<1>1. "pc" \in DOMAIN fresh /\ fresh.pc # "role"
  OBVIOUS
<1>2. /\ role = [u \in Account |-> "resident"]
      /\ previousRole = [u \in Account |-> NoRole]
      /\ held = [u \in Account |-> NoRole]
      /\ call = [r \in Call |-> fresh]
  BY DEF AccountsInit
<1> HIDE DEF fresh
<1> QED  BY <1>1, <1>2 DEF RoleInv, AnyRole, GrantedRole

\* The end of a ban restores the role held before it, for every number of
\* accounts and requests.
THEOREM BansAreUndone == AccountsSpec => []UnbanRestoresRole
<1>1. RoleInv /\ [AccountsNext]_accountVars => RoleInv'
  BY RoleStep
<1>2. RoleInv => UnbanRestoresRole
  BY DEF RoleInv, UnbanRestoresRole, NewRole
<1> QED  BY RoleInit, <1>1, <1>2, PTL DEF AccountsSpec

-----------------------------------------------------------------------------
(* Deletions                                                                 *)

In(r, pcs) == call[r].pc \in pcs
Who(r) == call[r].who
Old(r) == call[r].old
New(r) == call[r].new

Rows ==
  /\ email \in [Account -> Address \cup {NoEmail}]
  /\ \A u \in Account : email[u] \in Email \cup {Anonymized(u), NoEmail}
  /\ \A u, v \in Account : email[u] = email[v] => u = v \/ email[u] = NoEmail
  /\ \A u \in answered : u \in Account /\ email[u] # NoEmail
  /\ copy \in [Address -> Account \cup {NoOwner}]

Fields ==
  /\ DOMAIN call = Call
  /\ \A r \in Call :
       /\ "pc" \in DOMAIN call[r]
       /\ ~In(r, {"new"}) => "who" \in DOMAIN call[r]
       /\ In(r, AccountPc) => /\ "old" \in DOMAIN call[r]
                              /\ Who(r) \in Account
                              /\ Old(r) \in Email \cup {Anonymized(Who(r))}
       /\ In(r, ChangePc) => "new" \in DOMAIN call[r] /\ New(r) \in Email

\* A change of e-mail is alone.
Solo == \A r, q \in Call : In(r, ChangePc) /\ In(q, AccountPc) => r = q

\* A registration is of an account nobody else knows.
Registering ==
  /\ \A r \in Call : In(r, {"consent", "undo"}) =>
       Who(r) \notin answered /\ Old(r) \in Email /\ email[Who(r)] = Old(r)
  /\ \A r, q \in Call :
       In(r, {"consent", "undo"}) /\ In(q, {"consent", "undo"}) /\ Who(r) = Who(q)
         => r = q
  /\ \A r \in Call : In(r, AccountPc \ {"consent", "undo"}) => Who(r) \in answered

Changing ==
  \A r \in Call :
    /\ In(r, {"apply"}) => email[Who(r)] = Old(r)
    /\ In(r, {"revoke", "propagate"}) =>
         /\ email[Who(r)] = New(r)
         /\ Old(r) = New(r) \/ \A v \in Account : email[v] # Old(r)

Deleting ==
  \A r \in Call :
    /\ In(r, {"erase"}) =>
         \/ email[Who(r)] = Old(r)
         \/ /\ email[Who(r)] = Anonymized(Who(r))
            /\ copy[Anonymized(Who(r))] # NoOwner
    /\ In(r, {"flip"}) =>
         /\ copy[Anonymized(Who(r))] # NoOwner
         /\ LeavesNoCopy(Who(r))

\* A copy with somebody's secrets is where Postgres, or a change of e-mail
\* under way, would look for it, unless the registration was undone.
CopiesAreFound ==
  /\ \A a \in Email : copy[a] # NoOwner =>
       \/ email[copy[a]] \in {a, NoEmail}
       \/ \E r \in Call : /\ In(r, {"revoke", "propagate"})
                          /\ Who(r) = copy[a] /\ Old(r) = a
  /\ \A u \in Account :
       LET v == copy[Anonymized(u)]
       IN  v \in {NoOwner, u} \/ email[v] = NoEmail

\* An account has a copy.
HasCopy ==
  \A u \in answered :
    \/ copy[Anonymized(u)] # NoOwner
    \/ copy[email[u]] # NoOwner
    \/ \E r \in Call : /\ In(r, {"revoke", "propagate"})
                       /\ Who(r) = u /\ copy[Old(r)] # NoOwner

Fresh(u) == u \notin answered /\ \A q \in Call : In(q, {"new"}) \/ Who(q) # u
FreshHasNoCopy == \A u \in Account : Fresh(u) => \A a \in Address : copy[a] # u

Quiet == /\ Rows /\ Fields /\ Solo /\ Registering /\ Changing /\ Deleting
         /\ CopiesAreFound /\ HasCopy /\ FreshHasNoCopy

EraseInv == disturbed \/ Quiet

LEMMA Addresses ==
  /\ Email \subseteq Address /\ \A u \in Account : Anonymized(u) \in Address
  /\ \A u \in Account : Anonymized(u) \notin Email /\ Anonymized(u) # NoEmail
  /\ NoEmail \notin Email /\ NoOwner \notin Account
  /\ \A u, v \in Account : Anonymized(u) = Anonymized(v) => u = v
<1>1. \A u, v \in Account : Anonymized(u) = Anonymized(v) => u = v
  BY DEF Anonymized
<1> QED  BY <1>1, AddressConstants DEF Address

\* A call goes on: only its stage changes.
LEMMA Continued ==
  ASSUME Fields, NEW r \in Call, NEW pc, Continue(r, pc), ~In(r, {"new"})
  PROVE  /\ DOMAIN call' = Call
         /\ \A q \in Call \ {r} : call'[q] = call[q]
         /\ call'[r].pc = pc /\ call'[r].who = call[r].who
         /\ DOMAIN call'[r] = DOMAIN call[r]
         /\ "old" \in DOMAIN call[r] => call'[r].old = call[r].old
         /\ "new" \in DOMAIN call[r] => call'[r].new = call[r].new
  BY DEF Fields, Continue, In

\* A call begins.
LEMMA Begun ==
  ASSUME Fields, NEW r \in Call, NEW task, call' = [call EXCEPT ![r] = task]
  PROVE  /\ DOMAIN call' = Call
         /\ \A q \in Call \ {r} : call'[q] = call[q]
         /\ call'[r] = task
  BY DEF Fields

LEMMA Pcs ==
  /\ ChangePc \subseteq AccountPc
  /\ AccountPc = {"apply", "revoke", "propagate", "consent", "undo", "erase", "flip"}
  /\ ChangePc = {"apply", "revoke", "propagate"}
  BY DEF AccountPc, ChangePc

\* A call begins alone, or no change of e-mail is concerned.
LEMMA BegunAlone ==
  ASSUME NEW r \in Call, NEW task, BeginCall(r, task), ~disturbed'
  PROVE  /\ \A q \in Call : ~In(q, ChangePc)
         /\ task.pc = "apply" => \A q \in Call : ~In(q, AccountPc)
<1>1. /\ ~InFlight(ChangePc)
      /\ ~(task.pc = "apply" /\ InFlight(AccountPc))
  BY DEF BeginCall
<1> QED  BY <1>1 DEF InFlight, In

LEMMA RegisterStep ==
  ASSUME Quiet, NEW r \in Call, NEW u \in Account, NEW a \in Email,
         Register(r, u, a), ~disturbed'
  PROVE  Quiet'
<1> DEFINE task == [pc |-> "consent", who |-> u, old |-> a]
<1>1. /\ DOMAIN call' = Call
      /\ \A q \in Call \ {r} : call'[q] = call[q]
      /\ call'[r] = task
  BY Begun DEF Register, BeginCall, Quiet
<1>2. /\ call'[r].pc = "consent" /\ call'[r].who = u /\ call'[r].old = a
      /\ {"pc", "who", "old"} \subseteq DOMAIN call'[r]
  BY <1>1
<1> HIDE DEF task
<1>3. /\ email' = [email EXCEPT ![u] = a]
      /\ copy' = copy /\ answered' = answered
      /\ call[r].pc = "new" /\ Fresh(u)
      /\ \A v \in Account : email[v] # a
      /\ \A q \in Call : ~In(q, ChangePc)
  <2>1. \A q \in Call : ~In(q, ChangePc)
    BY BegunAlone DEF Register
  <2>2. Fresh(u) /\ call[r].pc = "new"
    <3> DEFINE begun == {q \in Call : ~InPc(q, "new")}
    <3>1. u \notin answered /\ u \notin {call[q].who : q \in begun} /\ InPc(r, "new")
      BY DEF Register, BeginCall
    <3>2. \A q \in begun : call[q].who # u
      <4> HIDE DEF begun
      <4> QED  BY <3>1
    <3> QED  BY <3>1, <3>2 DEF Fresh, In, InPc, Who
  <2> QED  BY <2>1, <2>2 DEF Register, Taken
<1>4. /\ email'[u] = a /\ \A v \in Account \ {u} : email'[v] = email[v]
  BY <1>3 DEF Quiet, Rows
<1>5. Rows'
  BY <1>3, <1>4, Addresses DEF Quiet, Rows, Fresh
<1>6. Fields'
  BY <1>1, <1>2, Pcs DEF Quiet, Fields, In, Who, Old, New
<1>7. \A q \in Call : ~In(q, ChangePc)'
  BY <1>1, <1>2, <1>3, Pcs DEF In
<1>8. Solo' /\ Changing'
  BY <1>7, Pcs DEF Solo, Changing, In
<1>9. \A q \in Call \ {r} : In(q, AccountPc) => Who(q) # u
  BY <1>3, Pcs DEF Fresh, In
<1>10. Registering'
  BY <1>1, <1>2, <1>3, <1>4, <1>9, Pcs DEF Quiet, Registering, In, Who, Old, Fields, Fresh
<1>11. Deleting'
  BY <1>1, <1>2, <1>3, <1>4, <1>9, Pcs DEF Quiet, Deleting, In, Who, Old, Fields, LeavesNoCopy
<1>12. \A b \in Address : copy[b] # u
  BY <1>3 DEF Quiet, FreshHasNoCopy
<1>13. CopiesAreFound'
  <2>1. \A q \in Call : ~In(q, {"revoke", "propagate"})
    BY <1>3, Pcs DEF In
  <2>2. \A b \in Address : copy'[b] = copy[b] /\ (copy[b] # NoOwner => copy[b] \in Account \ {u})
    BY <1>3, <1>12 DEF Quiet, Rows
  <2>3. \A b \in Address : copy[b] # NoOwner => email'[copy[b]] = email[copy[b]]
    BY <1>4, <2>2
  <2> QED  BY <2>1, <2>2, <2>3, <1>3, Addresses DEF Quiet, CopiesAreFound
<1>14. HasCopy'
  <2>1. \A v \in answered : v \in Account \ {u}
    BY <1>3 DEF Quiet, Rows, Fresh
  <2>2. \A q \in Call : ~In(q, {"revoke", "propagate"})
    BY <1>3, Pcs DEF In
  <2> QED  BY <1>3, <1>4, <2>1, <2>2 DEF Quiet, HasCopy
<1>15. FreshHasNoCopy'
  BY <1>1, <1>2, <1>3 DEF Quiet, FreshHasNoCopy, Fresh, In, Who
<1> QED  BY <1>5, <1>6, <1>8, <1>10, <1>11, <1>13, <1>14, <1>15 DEF Quiet

\* What stays of the calls when one goes on.
LEMMA CallsGoOn ==
  ASSUME Fields, NEW r \in Call, NEW pc, Continue(r, pc), ~In(r, {"new"}), pc # "new",
         pc \in AccountPc => In(r, AccountPc), pc \in ChangePc => In(r, ChangePc)
  PROVE  /\ Fields'
         /\ call'[r].pc = pc
         /\ \A q \in Call : Who(q)' = Who(q)
         /\ \A q \in Call : In(q, AccountPc) => Old(q)' = Old(q)
         /\ \A q \in Call : In(q, ChangePc) => New(q)' = New(q)
         /\ \A q \in Call \ {r} : call'[q] = call[q]
         /\ (answered \subseteq answered') => \A u \in Account : Fresh(u)' => Fresh(u)
<1>1. /\ DOMAIN call' = Call
      /\ \A q \in Call \ {r} : call'[q] = call[q]
      /\ call'[r].pc = pc /\ call'[r].who = call[r].who
      /\ DOMAIN call'[r] = DOMAIN call[r]
      /\ "old" \in DOMAIN call[r] => call'[r].old = call[r].old
      /\ "new" \in DOMAIN call[r] => call'[r].new = call[r].new
  BY Continued
<1>2. /\ \A q \in Call : Who(q)' = Who(q)
      /\ \A q \in Call : In(q, AccountPc) => Old(q)' = Old(q)
      /\ \A q \in Call : In(q, ChangePc) => New(q)' = New(q)
  BY <1>1 DEF Fields, Who, Old, New
<1>3. Fields'
  BY <1>1, <1>2, Pcs DEF Fields, In
<1>4. (answered \subseteq answered') => \A u \in Account : Fresh(u)' => Fresh(u)
  BY <1>1, <1>2 DEF Fresh, In
<1> QED  BY <1>1, <1>2, <1>3, <1>4

\* A call that changes no data: it stops, is refused, or has revoked the token.
LEMMA MoveOn ==
  ASSUME Quiet, NEW r \in Call, NEW pc, Continue(r, pc),
         \/ pc = "done" /\ In(r, {"apply", "consent", "undo", "erase", "flip", "role"})
         \/ pc = "propagate" /\ In(r, {"revoke"}),
         UNCHANGED <<email, copy, answered>>
  PROVE  Quiet'
<1>1. /\ Fields'
      /\ call'[r].pc = pc
      /\ \A q \in Call : Who(q)' = Who(q)
      /\ \A q \in Call : In(q, AccountPc) => Old(q)' = Old(q)
      /\ \A q \in Call : In(q, ChangePc) => New(q)' = New(q)
      /\ \A q \in Call \ {r} : call'[q] = call[q]
      /\ \A u \in Account : Fresh(u)' => Fresh(u)
  <2>1. /\ ~In(r, {"new"}) /\ pc # "new"
        /\ pc \in AccountPc => In(r, AccountPc)
        /\ pc \in ChangePc => In(r, ChangePc)
    BY Pcs DEF In
  <2> QED  BY <2>1, CallsGoOn DEF Quiet
<1>2. /\ \A q \in Call : In(q, AccountPc)' => In(q, AccountPc)
      /\ \A q \in Call : In(q, ChangePc)' => In(q, ChangePc)
      /\ \A q \in Call : In(q, {"revoke", "propagate"})' <=> In(q, {"revoke", "propagate"})
      /\ \A q \in Call, p \in {"apply", "consent", "undo", "erase", "flip"} :
           In(q, {p})' => In(q, {p})
  BY <1>1, Pcs DEF In
<1>3. Rows'
  BY DEF Quiet, Rows
<1>4. Solo'
  BY <1>2 DEF Quiet, Solo
<1>5. Registering'
  BY <1>1, <1>2, Pcs DEF Quiet, Registering, In
<1>6. Changing'
  BY <1>1, <1>2, Pcs DEF Quiet, Changing, In
<1>7. Deleting'
  BY <1>1, <1>2, Pcs DEF Quiet, Deleting, In, LeavesNoCopy
<1>8. CopiesAreFound'
  BY <1>1, <1>2, Pcs DEF Quiet, CopiesAreFound, In
<1>9. HasCopy'
  BY <1>1, <1>2, Pcs DEF Quiet, HasCopy, In
<1>10. FreshHasNoCopy'
  BY <1>1 DEF Quiet, FreshHasNoCopy
<1> QED  BY <1>1, <1>3, <1>4, <1>5, <1>6, <1>7, <1>8, <1>9, <1>10 DEF Quiet

\* The consent of a registration is recorded, acknowledged or not, or lost.
LEMMA ConsentStep ==
  ASSUME Quiet, NEW r \in Call, NEW pc \in {"done", "undo"}, Continue(r, pc),
         In(r, {"consent"}), email' = email,
         UpsertCopy(r) \/ copy' = copy,
         \/ answered' = answered
         \/ pc = "done" /\ UpsertCopy(r) /\ answered' = answered \cup {Who(r)}
  PROVE  Quiet'
<1>1. /\ Fields'
      /\ call'[r].pc = pc
      /\ \A q \in Call : Who(q)' = Who(q)
      /\ \A q \in Call : In(q, AccountPc) => Old(q)' = Old(q)
      /\ \A q \in Call : In(q, ChangePc) => New(q)' = New(q)
      /\ \A q \in Call \ {r} : call'[q] = call[q]
      /\ \A u \in Account : Fresh(u)' => Fresh(u)
  <2>1. /\ ~In(r, {"new"}) /\ pc # "new"
        /\ pc \in AccountPc => In(r, AccountPc)
        /\ pc \notin ChangePc
    BY Pcs DEF In
  <2>2. answered \subseteq answered'
    OBVIOUS
  <2> QED  BY <2>1, <2>2, CallsGoOn DEF Quiet
<1>2. /\ \A q \in Call : In(q, AccountPc)' => In(q, AccountPc)
      /\ \A q \in Call : In(q, ChangePc)' => In(q, ChangePc)
      /\ \A q \in Call : In(q, {"consent", "undo"})' => In(q, {"consent", "undo"})
      /\ \A q \in Call : In(q, {"revoke", "propagate"})' <=> In(q, {"revoke", "propagate"})
      /\ \A q \in Call, p \in {"apply", "consent", "erase", "flip"} :
           In(q, {p})' => In(q, {p})
  BY <1>1, Pcs DEF In
<1>3. /\ Who(r) \in Account /\ Who(r) \notin answered /\ Old(r) \in Email
      /\ Old(r) \in Address /\ Who(r) # NoOwner
      /\ email[Who(r)] = Old(r) /\ Old(r) # NoEmail
  BY Pcs, Addresses DEF Quiet, Registering, Fields, In
<1>4. /\ copy' \in [Address -> Account \cup {NoOwner}]
      /\ \A a \in Address : copy[a] # NoOwner => copy'[a] = copy[a]
      /\ \A a \in Address \ {Old(r)} : copy'[a] = copy[a]
      /\ copy'[Old(r)] \in {copy[Old(r)], Who(r)}
      /\ UpsertCopy(r) => copy'[Old(r)] # NoOwner
  BY <1>3 DEF UpsertCopy, Quiet, Rows, Old, Who
<1>5. Rows'
  BY <1>3, <1>4 DEF Quiet, Rows
<1>6. Solo'
  BY <1>2 DEF Quiet, Solo
<1>7. Registering'
  <2>1. \A q \in Call : In(q, {"consent", "undo"})' => Who(q) \notin answered'
    <3>1. \A q \in Call \ {r} : In(q, {"consent", "undo"}) => Who(q) # Who(r)
      BY DEF Quiet, Registering, In
    <3>2. pc = "done" => ~In(r, {"consent", "undo"})'
      BY <1>1 DEF In
    <3> QED  BY <1>2, <3>1, <3>2 DEF Quiet, Registering
  <2>2. \A q \in Call : In(q, AccountPc \ {"consent", "undo"})'
          => In(q, AccountPc \ {"consent", "undo"})
    BY <1>1, Pcs DEF In
  <2>3. answered \subseteq answered'
    OBVIOUS
  <2>4. \A q \in Call : In(q, {"consent", "undo"}) => In(q, AccountPc)
    BY Pcs DEF In
  <2>5. Registering
    BY DEF Quiet
  <2>6. \A q \in Call : In(q, {"consent", "undo"})' =>
          Old(q)' \in Email /\ email'[Who(q)'] = Old(q)'
    BY <1>1, <1>2, <2>4, <2>5 DEF Registering
  <2>7. \A p, q \in Call :
          In(p, {"consent", "undo"})' /\ In(q, {"consent", "undo"})' /\ Who(p)' = Who(q)'
            => p = q
    BY <1>1, <1>2, <2>5 DEF Registering
  <2>8. \A q \in Call : In(q, AccountPc \ {"consent", "undo"})' => Who(q)' \in answered'
    BY <1>1, <2>2, <2>3, <2>5 DEF Registering
  <2>9. \A q \in Call : In(q, {"consent", "undo"})' => Who(q)' \notin answered'
    BY <1>1, <2>1
  <2> QED  BY <2>6, <2>7, <2>8, <2>9 DEF Registering
<1>8. Changing'
  <2>1. \A q \in Call : In(q, {"apply", "revoke", "propagate"}) => In(q, AccountPc) /\ In(q, ChangePc)
    BY Pcs DEF In
  <2>2. \A q \in Call : In(q, {"apply"}) \/ In(q, {"revoke", "propagate"})
                         => In(q, {"apply", "revoke", "propagate"})
    BY DEF In
  <2> QED  BY <1>1, <1>2, <2>1, <2>2 DEF Quiet, Changing
<1>9. \A q \in Call : In(q, {"erase"}) \/ In(q, {"flip"}) =>
        In(q, AccountPc) /\ Who(q) \in Account /\ Who(q) # Who(r)
  BY <1>3, Pcs DEF Quiet, Registering, Fields, In
<1>10. Deleting'
  <2>1. \A q \in Call : In(q, {"flip"}) => \A a \in Email : copy'[a] # Who(q)
    BY <1>4, <1>9, Addresses DEF Quiet, Deleting, LeavesNoCopy
  <2>2. \A u \in Account : copy[Anonymized(u)] # NoOwner => copy'[Anonymized(u)] # NoOwner
    BY <1>4, Addresses
  <2> QED  BY <1>1, <1>2, <1>9, <2>1, <2>2 DEF Quiet, Deleting, LeavesNoCopy
<1>11. CopiesAreFound'
  <2>1. ASSUME NEW a \in Email, copy'[a] # NoOwner
        PROVE  \/ email[copy'[a]] \in {a, NoEmail}
               \/ \E q \in Call : /\ In(q, {"revoke", "propagate"})'
                                  /\ Who(q)' = copy'[a] /\ Old(q)' = a
    <3>1. CASE copy'[a] = copy[a]
      <4>1. \A q \in Call : In(q, {"revoke", "propagate"}) => In(q, AccountPc)
        BY Pcs DEF In
      <4> QED  BY <1>1, <1>2, <2>1, <3>1, <4>1 DEF Quiet, CopiesAreFound
    <3>2. CASE copy'[a] # copy[a]
      BY <1>3, <1>4, <3>2, Addresses
    <3> QED  BY <3>1, <3>2
  <2>2. \A u \in Account : copy'[Anonymized(u)] = copy[Anonymized(u)]
    BY <1>3, <1>4, Addresses
  <2> QED  BY <2>1, <2>2 DEF Quiet, CopiesAreFound
<1>12. HasCopy'
  <2>1. ASSUME NEW u \in answered
        PROVE  \/ copy'[Anonymized(u)] # NoOwner
               \/ copy'[email[u]] # NoOwner
               \/ \E q \in Call : /\ In(q, {"revoke", "propagate"})'
                                  /\ Who(q)' = u /\ copy'[Old(q)'] # NoOwner
    <3>1. u \in Account /\ email[u] \in Address /\ Anonymized(u) \in Address
      BY Addresses DEF Quiet, Rows
    <3>2. \A q \in Call : In(q, {"revoke", "propagate"}) => In(q, AccountPc) /\ Old(q) \in Address
      BY Pcs, Addresses DEF In, Quiet, Fields
    <3> QED  BY <1>1, <1>2, <1>4, <3>1, <3>2 DEF Quiet, HasCopy
  <2>2. answered' # answered => copy'[email[Who(r)]] # NoOwner
    BY <1>3, <1>4
  <2> QED  BY <2>1, <2>2 DEF HasCopy
<1>13. FreshHasNoCopy'
  <2>1. \A u \in Account : Fresh(u) => Who(r) # u
    BY DEF Fresh, In
  <2> QED  BY <1>1, <1>3, <1>4, <2>1 DEF Quiet, FreshHasNoCopy
<1> QED  BY <1>1, <1>5, <1>6, <1>7, <1>8, <1>10, <1>11, <1>12, <1>13 DEF Quiet

\* The insert of a registration is undone.
LEMMA UndoStep ==
  ASSUME Quiet, NEW r \in Call, UndoRegister(r) PROVE Quiet'
<1>0. /\ In(r, {"undo"}) /\ Continue(r, "done") /\ copy' = copy /\ answered' = answered
      /\ email' = [email EXCEPT ![Who(r)] = NoEmail]
  BY DEF UndoRegister, InPc, In, Finish, Who
<1>1. /\ Fields'
      /\ call'[r].pc = "done"
      /\ \A q \in Call : Who(q)' = Who(q)
      /\ \A q \in Call : In(q, AccountPc) => Old(q)' = Old(q)
      /\ \A q \in Call : In(q, ChangePc) => New(q)' = New(q)
      /\ \A q \in Call \ {r} : call'[q] = call[q]
      /\ \A u \in Account : Fresh(u)' => Fresh(u)
  <2>1. /\ ~In(r, {"new"}) /\ "done" \notin AccountPc /\ "done" \notin ChangePc
    BY <1>0, Pcs DEF In
  <2> QED  BY <1>0, <2>1, CallsGoOn DEF Quiet
<1>2. /\ \A q \in Call : In(q, AccountPc)' => In(q, AccountPc) /\ q # r
      /\ \A q \in Call : In(q, ChangePc)' => In(q, ChangePc)
      /\ \A q \in Call : In(q, {"consent", "undo"})' => In(q, {"consent", "undo"}) /\ q # r
      /\ \A q \in Call : In(q, AccountPc \ {"consent", "undo"})'
                          => In(q, AccountPc \ {"consent", "undo"})
      /\ \A q \in Call : In(q, {"revoke", "propagate"})' <=> In(q, {"revoke", "propagate"})
      /\ \A q \in Call : In(q, {"apply"})' => In(q, {"apply"})
      /\ \A q \in Call : In(q, {"erase"})' => In(q, {"erase"})
      /\ \A q \in Call : In(q, {"flip"})' => In(q, {"flip"})
      /\ \A q \in Call : \/ In(q, {"revoke", "propagate"}) \/ In(q, {"apply"})
                          \/ In(q, {"erase"}) \/ In(q, {"flip"})
                          => In(q, AccountPc \ {"consent", "undo"}) /\ In(q, AccountPc)
      /\ \A q \in Call : In(q, {"revoke", "propagate"}) \/ In(q, {"apply"}) => In(q, ChangePc)
      /\ \A q \in Call : In(q, {"consent", "undo"}) => In(q, AccountPc)
  BY <1>0, <1>1, Pcs DEF In
<1>3. Who(r) \in Account /\ Who(r) \notin answered
  BY <1>0, Pcs DEF Quiet, Registering, Fields, In
<1>4. /\ email'[Who(r)] = NoEmail
      /\ \A u \in Account \ {Who(r)} : email'[u] = email[u]
      /\ email' \in [Account -> Address \cup {NoEmail}]
  BY <1>0, <1>3 DEF Quiet, Rows
<1>5. Rows'
  BY <1>0, <1>3, <1>4 DEF Quiet, Rows
<1>6. Solo'
  BY <1>2 DEF Quiet, Solo
<1>7. Registering'
  <2>1. \A q \in Call \ {r} : In(q, {"consent", "undo"}) => Who(q) # Who(r) /\ Who(q) \in Account
    BY <1>0, <1>2 DEF Quiet, Registering, In, Fields
  <2>2. \A q \in Call : In(q, {"consent", "undo"})' =>
          Who(q) \notin answered /\ Old(q) \in Email /\ email'[Who(q)] = Old(q)
    BY <1>2, <1>4, <2>1 DEF Quiet, Registering
  <2>3. \A q, p \in Call :
          In(q, {"consent", "undo"})' /\ In(p, {"consent", "undo"})' /\ Who(q) = Who(p)
            => q = p
    BY <1>2 DEF Quiet, Registering
  <2>4. \A q \in Call : In(q, AccountPc \ {"consent", "undo"})' => Who(q) \in answered
    BY <1>2 DEF Quiet, Registering
  <2> QED  BY <1>0, <1>1, <1>2, <2>2, <2>3, <2>4 DEF Registering
<1>8. \A q \in Call : In(q, AccountPc \ {"consent", "undo"}) =>
        Who(q) # Who(r) /\ Who(q) \in Account
  BY <1>3 DEF Quiet, Registering, Rows
<1>9. Changing'
  <2>1. \A q \in Call : In(q, AccountPc) => Old(q) # NoEmail
    BY Addresses DEF Quiet, Fields
  <2>2. \A q \in Call : In(q, ChangePc) => In(q, AccountPc \ {"consent", "undo"}) /\ In(q, AccountPc)
    BY Pcs DEF In
  <2>3. \A q \in Call : In(q, {"apply"})' => email'[Who(q)] = Old(q)
    BY <1>2, <1>4, <1>8 DEF Quiet, Changing
  <2>4. \A q \in Call : In(q, {"revoke", "propagate"})' =>
          /\ email'[Who(q)] = New(q)
          /\ Old(q) = New(q) \/ \A v \in Account : email'[v] # Old(q)
    BY <1>2, <1>4, <1>8, <2>1 DEF Quiet, Changing
  <2> QED  BY <1>1, <1>2, <2>2, <2>3, <2>4 DEF Changing
<1>10. Deleting'
  <2>1. \A q \in Call : In(q, {"erase"})' =>
          \/ email'[Who(q)] = Old(q)
          \/ /\ email'[Who(q)] = Anonymized(Who(q))
             /\ copy[Anonymized(Who(q))] # NoOwner
    BY <1>2, <1>4, <1>8 DEF Quiet, Deleting
  <2>2. \A q \in Call : In(q, {"flip"})' =>
          copy[Anonymized(Who(q))] # NoOwner /\ LeavesNoCopy(Who(q))
    BY <1>2 DEF Quiet, Deleting
  <2> QED  BY <1>0, <1>1, <1>2, <2>1, <2>2 DEF Deleting, LeavesNoCopy
<1>11. CopiesAreFound'
  <2>1. \A a \in Address : copy[a] # NoOwner => copy[a] \in Account
    BY DEF Quiet, Rows
  <2> QED  BY <1>0, <1>1, <1>2, <1>4, <2>1, Addresses DEF Quiet, CopiesAreFound
<1>12. HasCopy'
  <2>1. \A u \in answered : u \in Account \ {Who(r)}
    BY <1>3 DEF Quiet, Rows
  <2> QED  BY <1>0, <1>1, <1>2, <1>4, <2>1 DEF Quiet, HasCopy
<1>13. FreshHasNoCopy'
  BY <1>0, <1>1 DEF Quiet, FreshHasNoCopy
<1> QED  BY <1>1, <1>5, <1>6, <1>7, <1>9, <1>10, <1>11, <1>12, <1>13 DEF Quiet

\* The row gets the new address.
LEMMA ApplyStep ==
  ASSUME Quiet, NEW r \in Call, ApplyEmail(r) PROVE Quiet'
<1> DEFINE u == Who(r)
<1>0. /\ In(r, {"apply"}) /\ In(r, ChangePc) /\ In(r, AccountPc) /\ copy' = copy /\ answered' = answered
      /\ \/ Continue(r, "done") /\ email' = email
         \/ /\ Continue(r, "revoke") /\ email' = [email EXCEPT ![u] = New(r)]
            /\ (\A v \in Account : email[v] # New(r)) \/ email[u] = New(r)
  BY Pcs DEF ApplyEmail, InPc, In, Finish, Who, New, Taken
<1>1. CASE Continue(r, "done") /\ email' = email
  <2>1. In(r, {"apply", "consent", "undo", "erase", "flip", "role"})
    BY <1>0 DEF In
  <2> QED  BY <1>0, <1>1, <2>1, MoveOn
<1>2. CASE /\ Continue(r, "revoke") /\ email' = [email EXCEPT ![u] = New(r)]
           /\ (\A v \in Account : email[v] # New(r)) \/ email[u] = New(r)
  <2>1. /\ Fields'
        /\ call'[r].pc = "revoke"
        /\ \A q \in Call : Who(q)' = Who(q)
        /\ \A q \in Call : In(q, AccountPc) => Old(q)' = Old(q)
        /\ \A q \in Call : In(q, ChangePc) => New(q)' = New(q)
        /\ \A q \in Call \ {r} : call'[q] = call[q]
        /\ \A v \in Account : Fresh(v)' => Fresh(v)
    <3>1. ~In(r, {"new"})
      BY <1>0 DEF In
    <3> QED  BY <1>0, <1>2, <3>1, CallsGoOn DEF Quiet
  <2>2. /\ \A q \in Call \ {r} : ~In(q, AccountPc) /\ ~In(q, AccountPc)'
        /\ \A q \in Call : In(q, {"revoke", "propagate"})' => q = r
        /\ \A q \in Call : ~In(q, {"revoke", "propagate"})
        /\ In(r, {"revoke", "propagate"})'
        /\ In(r, AccountPc \ {"consent", "undo"})
        /\ \A q \in Call : /\ ~In(q, {"consent", "undo"})' /\ ~In(q, {"apply"})'
                           /\ ~In(q, {"erase"})' /\ ~In(q, {"flip"})'
    <3>1. \A q \in Call \ {r} : ~In(q, AccountPc)
      BY <1>0 DEF Quiet, Solo
    <3> QED  BY <1>0, <2>1, <3>1, Pcs DEF In
  <2>3. /\ u \in Account /\ u \in answered /\ New(r) \in Email /\ email[u] = Old(r)
        /\ Old(r) \in Address
    BY <1>0, <2>2, Addresses DEF Quiet, Fields, Registering, Changing
  <2> HIDE DEF u
  <2>4. /\ email'[u] = New(r) /\ \A v \in Account \ {u} : email'[v] = email[v]
        /\ email' \in [Account -> Address \cup {NoEmail}]
    BY <1>2, <2>3, Addresses DEF Quiet, Rows
  <2>5. Rows'
    BY <1>0, <1>2, <2>3, <2>4, Addresses DEF Quiet, Rows
  <2>6. Solo'
    <3>1. \A q \in Call : In(q, AccountPc)' => q = r
      BY <2>2
    <3>2. \A q \in Call : In(q, ChangePc)' => In(q, AccountPc)'
      BY Pcs DEF In
    <3> QED  BY <3>1, <3>2 DEF Solo
  <2>7. Registering'
    BY <1>0, <2>1, <2>2, <2>3 DEF Quiet, Registering, In, u
  <2>8. Changing'
    <3>1. Old(r) = New(r) \/ \A v \in Account : email'[v] # Old(r)
      BY <2>3, <2>4, Addresses DEF Quiet, Rows
    <3> QED  BY <1>0, <2>1, <2>2, <2>4, <3>1 DEF Changing, u
  <2>9. Deleting'
    BY <2>2 DEF Deleting
  <2>10. CopiesAreFound'
    <3>1. ASSUME NEW a \in Email, copy[a] # NoOwner, email'[copy[a]] \notin {a, NoEmail}
          PROVE  Who(r) = copy[a] /\ Old(r) = a
      <4>1. copy[a] \in Account /\ email[copy[a]] \in {a, NoEmail}
        BY <2>2, <3>1, Addresses DEF Quiet, CopiesAreFound, Rows
      <4>2. copy[a] = u
        BY <2>4, <3>1, <4>1
      <4> QED  BY <2>3, <4>1, <4>2 DEF Quiet, Rows, u
    <3>2. \A v \in Account : LET w == copy[Anonymized(v)]
                             IN  w \in {NoOwner, v} \/ email'[w] = NoEmail
      <4>1. \A v \in Account : copy[Anonymized(v)] \in Account \cup {NoOwner}
        BY Addresses DEF Quiet, Rows
      <4> QED  BY <2>3, <2>4, <4>1 DEF Quiet, CopiesAreFound, Rows
    <3> QED  BY <1>0, <2>1, <2>2, <3>1, <3>2 DEF CopiesAreFound
  <2>11. HasCopy'
    <3>1. \A v \in answered : v \in Account
      BY DEF Quiet, Rows
    <3> QED  BY <1>0, <2>1, <2>2, <2>3, <2>4, <3>1 DEF Quiet, HasCopy, u
  <2>12. FreshHasNoCopy'
    BY <1>0, <2>1 DEF Quiet, FreshHasNoCopy
  <2> QED  BY <2>1, <2>5, <2>6, <2>7, <2>8, <2>9, <2>10, <2>11, <2>12 DEF Quiet
<1> QED  BY <1>0, <1>1, <1>2

\* The document of one address gets another one.
LEMMA MovedCopy ==
  ASSUME Rows, NEW from \in Address, NEW to \in Address, ~Clashes(from, to),
         copy' = Readdressed(from, to)
  PROVE  /\ copy' \in [Address -> Account \cup {NoOwner}]
         /\ \/ copy' = copy /\ (from = to \/ copy[from] = NoOwner)
            \/ /\ from # to /\ copy[from] # NoOwner /\ copy[to] = NoOwner
               /\ copy'[to] = copy[from] /\ copy'[from] = NoOwner
               /\ \A a \in Address \ {from, to} : copy'[a] = copy[a]
  BY DEF Rows, Clashes, Readdressed

\* The document follows the row.
LEMMA PropagateStep ==
  ASSUME Quiet, NEW r \in Call, PropagateEmail(r) PROVE Quiet'
<1> DEFINE u == Who(r)
<1>0. /\ In(r, {"propagate"}) /\ In(r, ChangePc) /\ In(r, AccountPc)
      /\ In(r, {"revoke", "propagate"}) /\ In(r, AccountPc \ {"consent", "undo"})
      /\ email' = email /\ answered' = answered
      /\ Continue(r, "done")
      /\ ~Clashes(Old(r), New(r)) /\ copy' = Readdressed(Old(r), New(r))
  BY Pcs DEF PropagateEmail, InPc, In, Finish, Old, New, rowVars
<1>1. /\ Fields'
      /\ call'[r].pc = "done"
      /\ \A q \in Call \ {r} : call'[q] = call[q]
      /\ \A v \in Account : Fresh(v)' => Fresh(v)
  <2>1. ~In(r, {"new"}) /\ "done" \notin AccountPc /\ "done" \notin ChangePc
    BY <1>0, Pcs DEF In
  <2> QED  BY <1>0, <2>1, CallsGoOn DEF Quiet
<1>2. /\ \A q \in Call : ~In(q, AccountPc)'
      /\ \A q \in Call : In(q, {"revoke", "propagate"}) => q = r
  <2>1. \A q \in Call \ {r} : ~In(q, AccountPc)
    BY <1>0 DEF Quiet, Solo
  <2> QED  BY <1>1, <2>1, Pcs DEF In
<1>3. /\ u \in Account /\ u \in answered /\ New(r) \in Email /\ email[u] = New(r)
      /\ Old(r) \in Email \cup {Anonymized(u)}
      /\ Old(r) \in Address /\ New(r) \in Address
      /\ Old(r) = New(r) \/ \A v \in Account : email[v] # Old(r)
  BY <1>0, Addresses DEF Quiet, Fields, Registering, Changing
<1> HIDE DEF u
<1>4. /\ copy' \in [Address -> Account \cup {NoOwner}]
      /\ \/ copy' = copy /\ (Old(r) = New(r) \/ copy[Old(r)] = NoOwner)
         \/ /\ Old(r) # New(r) /\ copy[Old(r)] # NoOwner /\ copy[New(r)] = NoOwner
            /\ copy'[New(r)] = copy[Old(r)] /\ copy'[Old(r)] = NoOwner
            /\ \A a \in Address \ {Old(r), New(r)} : copy'[a] = copy[a]
  BY <1>0, <1>3, MovedCopy DEF Quiet
<1>5. Rows'
  BY <1>0, <1>4 DEF Quiet, Rows
<1>6. Solo' /\ Registering' /\ Changing' /\ Deleting'
  <2>1. /\ \A q \in Call : ~In(q, ChangePc)' /\ ~In(q, {"consent", "undo"})'
        /\ \A q \in Call : ~In(q, AccountPc \ {"consent", "undo"})'
        /\ \A q \in Call : ~In(q, {"apply"})' /\ ~In(q, {"revoke", "propagate"})'
        /\ \A q \in Call : ~In(q, {"erase"})' /\ ~In(q, {"flip"})'
    BY <1>2, Pcs DEF In
  <2> QED  BY <2>1 DEF Solo, Registering, Changing, Deleting
<1>7. CopiesAreFound'
  <2>1. ASSUME NEW a \in Email, copy'[a] # NoOwner
        PROVE  email[copy'[a]] \in {a, NoEmail}
    <3>1. a \in Address
      BY Addresses
    <3>2. ASSUME copy'[a] = copy[a], a # Old(r) \/ Old(r) = New(r)
          PROVE  email[copy'[a]] \in {a, NoEmail}
      <4>1. \/ email[copy[a]] \in {a, NoEmail}
            \/ \E q \in Call : In(q, {"revoke", "propagate"}) /\ Who(q) = copy[a] /\ Old(q) = a
        BY <2>1, <3>2 DEF Quiet, CopiesAreFound
      <4> QED  BY <1>2, <1>3, <3>2, <4>1 DEF u
    <3>3. ASSUME a = New(r), Old(r) # New(r), copy'[a] = copy[Old(r)], copy[Old(r)] # NoOwner
          PROVE  email[copy'[a]] \in {a, NoEmail}
      <4>1. copy[Old(r)] \in Account
        BY <1>3, <3>3 DEF Quiet, Rows
      <4>2. CASE Old(r) \in Email
        <5>1. \/ email[copy[Old(r)]] \in {Old(r), NoEmail}
              \/ \E q \in Call : /\ In(q, {"revoke", "propagate"})
                                 /\ Who(q) = copy[Old(r)] /\ Old(q) = Old(r)
          BY <3>3, <4>2 DEF Quiet, CopiesAreFound
        <5> QED  BY <1>2, <1>3, <3>3, <4>1, <5>1 DEF u
      <4>3. CASE Old(r) = Anonymized(u)
        BY <1>3, <3>3, <4>3 DEF Quiet, CopiesAreFound
      <4> QED  BY <1>3, <4>2, <4>3
    <3> QED  BY <1>3, <1>4, <2>1, <3>1, <3>2, <3>3
  <2>2. ASSUME NEW v \in Account
        PROVE  copy'[Anonymized(v)] \in {NoOwner, copy[Anonymized(v)]}
    BY <1>3, <1>4, Addresses
  <2> QED  BY <1>0, <2>1, <2>2 DEF Quiet, CopiesAreFound
<1>8. HasCopy'
  <2>1. ASSUME NEW v \in answered
        PROVE  copy'[Anonymized(v)] # NoOwner \/ copy'[email[v]] # NoOwner
    <3>1. /\ v \in Account /\ email[v] \in Address
          /\ Anonymized(v) \in Address /\ Anonymized(v) # New(r)
          /\ Anonymized(v) = Old(r) => v = u
      BY <1>3, Addresses DEF Quiet, Rows
    <3>2. CASE copy[Old(r)] = NoOwner /\ copy' = copy
      BY <1>2, <3>2 DEF Quiet, HasCopy
    <3>3. CASE Old(r) = New(r) /\ copy' = copy
      <4>1. \/ copy[Anonymized(v)] # NoOwner
            \/ copy[email[v]] # NoOwner
            \/ v = u /\ copy[New(r)] # NoOwner
        BY <1>2, <3>3 DEF Quiet, HasCopy, u
      <4> QED  BY <1>3, <3>3, <4>1
    <3>4. CASE /\ Old(r) # New(r) /\ copy[Old(r)] # NoOwner
               /\ copy'[New(r)] = copy[Old(r)]
               /\ \A a \in Address \ {Old(r), New(r)} : copy'[a] = copy[a]
      <4>1. CASE v = u
        BY <1>3, <3>4, <4>1
      <4>2. CASE v # u
        <5>1. email[v] # Old(r) /\ Anonymized(v) # Old(r)
          BY <1>3, <3>1, <3>4, <4>2
        <5>2. copy[Anonymized(v)] # NoOwner \/ copy[email[v]] # NoOwner
          BY <1>2, <4>2 DEF Quiet, HasCopy, u
        <5> QED  BY <3>1, <3>4, <5>1, <5>2
      <4> QED  BY <4>1, <4>2
    <3> QED  BY <1>4, <3>2, <3>3, <3>4
  <2> QED  BY <1>0, <2>1 DEF HasCopy
<1>9. FreshHasNoCopy'
  BY <1>1, <1>3, <1>4 DEF Quiet, FreshHasNoCopy
<1> QED  BY <1>1, <1>5, <1>6, <1>7, <1>8, <1>9 DEF Quiet

\* A deletion moves the document away from the addresses of people.
LEMMA EraseStep ==
  ASSUME Quiet, NEW r \in Call, EraseCopy(r) PROVE Quiet'
<1> DEFINE u == Who(r)
<1>0. /\ In(r, {"erase"}) /\ In(r, AccountPc) /\ In(r, AccountPc \ {"consent", "undo"})
      /\ email' = email /\ answered' = answered
      /\ Continue(r, "flip")
      /\ ~Clashes(Old(r), Anonymized(u)) /\ copy' = Readdressed(Old(r), Anonymized(u))
  BY Pcs DEF EraseCopy, InPc, In, Who, Old, rowVars
<1>1. /\ Fields'
      /\ call'[r].pc = "flip"
      /\ \A q \in Call : Who(q)' = Who(q)
      /\ \A q \in Call : In(q, AccountPc) => Old(q)' = Old(q)
      /\ \A q \in Call \ {r} : call'[q] = call[q]
      /\ \A v \in Account : Fresh(v)' => Fresh(v)
  <2>1. ~In(r, {"new"}) /\ "flip" \in AccountPc /\ "flip" \notin ChangePc
    BY <1>0, Pcs DEF In
  <2> QED  BY <1>0, <2>1, CallsGoOn DEF Quiet
<1>2. /\ \A q \in Call : In(q, AccountPc)' => In(q, AccountPc)
      /\ \A q \in Call : ~In(q, ChangePc) /\ ~In(q, ChangePc)'
      /\ \A q \in Call : ~In(q, {"revoke", "propagate"}) /\ ~In(q, {"revoke", "propagate"})'
      /\ \A q \in Call : ~In(q, {"apply"})'
      /\ \A q \in Call : In(q, {"consent", "undo"})' => In(q, {"consent", "undo"})
      /\ \A q \in Call : In(q, AccountPc \ {"consent", "undo"})'
                          => In(q, AccountPc \ {"consent", "undo"})
      /\ \A q \in Call : In(q, {"erase"})' => In(q, {"erase"}) /\ In(q, AccountPc)
      /\ \A q \in Call : In(q, {"flip"})' => (In(q, {"flip"}) /\ In(q, AccountPc)) \/ q = r
      /\ \A q \in Call : In(q, {"consent", "undo"}) => In(q, AccountPc)
  <2>1. \A q \in Call : ~In(q, ChangePc)
    BY <1>0, Pcs DEF Quiet, Solo, In
  <2> QED  BY <1>0, <1>1, <2>1, Pcs DEF In
<1>3. /\ u \in Account /\ u \in answered
      /\ Old(r) \in Email \cup {Anonymized(u)}
      /\ Old(r) \in Address /\ Anonymized(u) \in Address
      /\ email[u] # NoEmail
      /\ \/ email[u] = Old(r)
         \/ email[u] = Anonymized(u) /\ copy[Anonymized(u)] # NoOwner
  BY <1>0, Addresses DEF Quiet, Fields, Registering, Deleting, Rows
<1> HIDE DEF u
<1>4. /\ copy' \in [Address -> Account \cup {NoOwner}]
      /\ \/ copy' = copy /\ (Old(r) = Anonymized(u) \/ copy[Old(r)] = NoOwner)
         \/ /\ Old(r) # Anonymized(u) /\ copy[Old(r)] # NoOwner
            /\ copy[Anonymized(u)] = NoOwner
            /\ copy'[Anonymized(u)] = copy[Old(r)] /\ copy'[Old(r)] = NoOwner
            /\ \A a \in Address \ {Old(r), Anonymized(u)} : copy'[a] = copy[a]
  BY <1>0, <1>3, MovedCopy DEF Quiet
<1>5. Rows'
  BY <1>0, <1>4 DEF Quiet, Rows
<1>6. Solo' /\ Changing'
  BY <1>2 DEF Solo, Changing
<1>7. Registering'
  BY <1>0, <1>1, <1>2 DEF Quiet, Registering
<1>8. \A a \in Email : copy'[a] \in {copy[a], NoOwner}
  BY <1>3, <1>4, Addresses
<1>9. \A v \in Account : copy[Anonymized(v)] # NoOwner => copy'[Anonymized(v)] # NoOwner
  BY <1>3, <1>4, Addresses
<1>10. copy'[Anonymized(u)] # NoOwner
  <2>1. copy[Anonymized(u)] # NoOwner \/ copy[email[u]] # NoOwner
    BY <1>2, <1>3 DEF Quiet, HasCopy
  <2> QED  BY <1>3, <1>4, <2>1
<1>11. \A a \in Email : copy'[a] # u
  <2>1. ASSUME NEW a \in Email, copy'[a] = u PROVE FALSE
    <3>1. copy[a] = u /\ u # NoOwner
      BY <1>3, <1>8, <2>1, Addresses
    <3>2. email[u] = a
      BY <1>2, <1>3, <3>1 DEF Quiet, CopiesAreFound
    <3>3. a = Old(r) /\ a # Anonymized(u)
      BY <1>3, <3>2, Addresses
    <3> QED  BY <1>4, <2>1, <3>1, <3>3
  <2> QED  BY <2>1
<1>12. Deleting'
  <2>1. \A q \in Call : In(q, AccountPc) => Who(q) \in Account
    BY DEF Quiet, Fields
  <2>2. \A q \in Call : In(q, {"erase"}) =>
          \/ email[Who(q)] = Old(q)
          \/ /\ email[Who(q)] = Anonymized(Who(q))
             /\ copy[Anonymized(Who(q))] # NoOwner
    BY DEF Quiet, Deleting
  <2>3. \A q \in Call : In(q, {"flip"}) /\ In(q, AccountPc) =>
          /\ copy'[Anonymized(Who(q))] # NoOwner
          /\ \A a \in Email : copy'[a] # Who(q)
    BY <1>8, <1>9, <2>1, Addresses DEF Quiet, Deleting, LeavesNoCopy
  <2>4. \A q \in Call : In(q, {"erase"})' =>
          \/ email'[Who(q)'] = Old(q)'
          \/ /\ email'[Who(q)'] = Anonymized(Who(q)')
             /\ copy'[Anonymized(Who(q)')] # NoOwner
    BY <1>0, <1>1, <1>2, <1>9, <2>1, <2>2
  <2>5. \A q \in Call : In(q, {"flip"})' =>
          /\ copy'[Anonymized(Who(q)')] # NoOwner
          /\ \A a \in Email : copy'[a] # Who(q)'
    BY <1>1, <1>2, <1>10, <1>11, <2>3 DEF u
  <2> QED  BY <2>4, <2>5 DEF Deleting, LeavesNoCopy
<1>13. CopiesAreFound'
  <2>1. \A a \in Email : copy'[a] # NoOwner => email[copy'[a]] \in {a, NoEmail}
    BY <1>2, <1>8 DEF Quiet, CopiesAreFound
  <2>2. ASSUME NEW v \in Account
        PROVE  copy'[Anonymized(v)] \in {NoOwner, v} \/ email[copy'[Anonymized(v)]] = NoEmail
    <3>1. CASE copy'[Anonymized(v)] = copy[Anonymized(v)]
      BY <3>1 DEF Quiet, CopiesAreFound
    <3>2. CASE copy'[Anonymized(v)] # copy[Anonymized(v)]
      <4>1. /\ v = u /\ Old(r) # Anonymized(u) /\ copy[Old(r)] # NoOwner
            /\ copy[Anonymized(u)] = NoOwner /\ copy'[Anonymized(u)] = copy[Old(r)]
        BY <1>3, <1>4, <3>2, Addresses
      <4>2. /\ Old(r) \in Email /\ email[u] = Old(r) /\ copy[Old(r)] \in Account
        BY <1>3, <4>1 DEF Quiet, Rows
      <4>3. email[copy[Old(r)]] \in {Old(r), NoEmail}
        BY <1>2, <4>1, <4>2 DEF Quiet, CopiesAreFound
      <4> QED  BY <1>3, <4>1, <4>2, <4>3, Addresses DEF Quiet, Rows
    <3> QED  BY <3>1, <3>2
  <2> QED  BY <1>0, <2>1, <2>2 DEF CopiesAreFound
<1>14. HasCopy'
  <2>1. ASSUME NEW v \in answered
        PROVE  copy'[Anonymized(v)] # NoOwner \/ copy'[email[v]] # NoOwner
    <3>1. /\ v \in Account /\ email[v] \in Address /\ email[v] # NoEmail
      BY DEF Quiet, Rows
    <3>2. copy[Anonymized(v)] # NoOwner \/ copy[email[v]] # NoOwner
      BY <1>2 DEF Quiet, HasCopy
    <3>3. CASE v = u
      BY <1>10, <3>3
    <3>4. CASE v # u /\ copy[email[v]] # NoOwner
      <4>1. CASE email[v] # Old(r)
        BY <1>3, <1>4, <3>1, <3>4, <4>1
      <4>2. CASE email[v] = Old(r)
        <5>1. email[u] # Old(r)
          BY <1>3, <3>1, <3>4, <4>2 DEF Quiet, Rows
        <5>2. copy' = copy
          BY <1>3, <1>4, <5>1
        <5> QED  BY <3>4, <5>2
      <4> QED  BY <4>1, <4>2
    <3> QED  BY <1>9, <3>1, <3>2, <3>3, <3>4
  <2> QED  BY <1>0, <2>1 DEF HasCopy
<1>15. FreshHasNoCopy'
  BY <1>1, <1>3, <1>4, Addresses DEF Quiet, FreshHasNoCopy
<1> QED  BY <1>1, <1>5, <1>6, <1>7, <1>12, <1>13, <1>14, <1>15 DEF Quiet

\* The row is anonymised: no copy is left for it.
LEMMA FlipStep ==
  ASSUME Quiet, NEW r \in Call, FlipRow(r) PROVE Quiet'
<1> DEFINE u == Who(r)
<1>0. /\ In(r, {"flip"}) /\ In(r, AccountPc) /\ In(r, AccountPc \ {"consent", "undo"})
      /\ copy' = copy /\ answered' = answered
      /\ Continue(r, "done")
      /\ email' = [email EXCEPT ![u] = Anonymized(u)]
  BY Pcs DEF FlipRow, InPc, In, Who, Finish
<1>1. /\ Fields'
      /\ call'[r].pc = "done"
      /\ \A q \in Call : Who(q)' = Who(q)
      /\ \A q \in Call : In(q, AccountPc) => Old(q)' = Old(q)
      /\ \A q \in Call \ {r} : call'[q] = call[q]
      /\ \A v \in Account : Fresh(v)' => Fresh(v)
  <2>1. ~In(r, {"new"}) /\ "done" \notin AccountPc /\ "done" \notin ChangePc
    BY <1>0, Pcs DEF In
  <2> QED  BY <1>0, <2>1, CallsGoOn DEF Quiet
<1>2. /\ \A q \in Call : In(q, AccountPc)' => In(q, AccountPc)
      /\ \A q \in Call : ~In(q, ChangePc) /\ ~In(q, ChangePc)'
      /\ \A q \in Call : ~In(q, {"revoke", "propagate"}) /\ ~In(q, {"revoke", "propagate"})'
      /\ \A q \in Call : ~In(q, {"apply"})'
      /\ \A q \in Call : In(q, {"consent", "undo"})' => In(q, {"consent", "undo"})
      /\ \A q \in Call : In(q, AccountPc \ {"consent", "undo"})'
                          => In(q, AccountPc \ {"consent", "undo"})
      /\ \A q \in Call : In(q, {"erase"})' => In(q, {"erase"})
      /\ \A q \in Call : In(q, {"flip"})' => In(q, {"flip"})
      /\ \A q \in Call : In(q, {"consent", "undo"}) => In(q, AccountPc)
      /\ \A q \in Call : In(q, {"erase"}) \/ In(q, {"flip"}) => In(q, AccountPc)
  <2>1. \A q \in Call : ~In(q, ChangePc)
    BY <1>0, Pcs DEF Quiet, Solo, In
  <2> QED  BY <1>0, <1>1, <2>1, Pcs DEF In
<1>3. /\ u \in Account /\ u \in answered
      /\ copy[Anonymized(u)] # NoOwner /\ \A a \in Email : copy[a] # u
  BY <1>0 DEF Quiet, Fields, Registering, Deleting, LeavesNoCopy
<1> HIDE DEF u
<1>4. /\ email'[u] = Anonymized(u)
      /\ \A v \in Account \ {u} : email'[v] = email[v]
      /\ email' \in [Account -> Address \cup {NoEmail}]
  BY <1>0, <1>3, Addresses DEF Quiet, Rows
<1>5. Rows'
  <2>1. \A v, w \in Account : email'[v] = email'[w] => v = w \/ email'[v] = NoEmail
    BY <1>3, <1>4, Addresses DEF Quiet, Rows
  <2> QED  BY <1>0, <1>3, <1>4, <2>1, Addresses DEF Quiet, Rows
<1>6. Solo' /\ Changing'
  BY <1>2 DEF Solo, Changing
<1>7. Registering'
  <2>1. \A q \in Call : In(q, {"consent", "undo"}) => Who(q) # u /\ Who(q) \in Account
    BY <1>2, <1>3 DEF Quiet, Registering, Fields
  <2>2. \A q \in Call : In(q, {"consent", "undo"}) =>
          Who(q) \notin answered /\ Old(q) \in Email /\ email'[Who(q)] = Old(q)
    BY <1>4, <2>1 DEF Quiet, Registering
  <2>3. /\ \A q, p \in Call :
             In(q, {"consent", "undo"}) /\ In(p, {"consent", "undo"}) /\ Who(q) = Who(p)
               => q = p
        /\ \A q \in Call : In(q, AccountPc \ {"consent", "undo"}) => Who(q) \in answered
    BY DEF Quiet, Registering
  <2> QED  BY <1>0, <1>1, <1>2, <2>2, <2>3 DEF Registering
<1>8. Deleting'
  <2>1. \A q \in Call : In(q, {"erase"}) =>
          \/ email'[Who(q)] = Old(q)
          \/ /\ email'[Who(q)] = Anonymized(Who(q))
             /\ copy[Anonymized(Who(q))] # NoOwner
    <3>1. \A q \in Call : In(q, AccountPc) => Who(q) \in Account
      BY DEF Quiet, Fields
    <3> QED  BY <1>2, <1>3, <1>4, <3>1 DEF Quiet, Deleting
  <2>2. \A q \in Call : In(q, {"flip"}) =>
          copy[Anonymized(Who(q))] # NoOwner /\ \A a \in Email : copy[a] # Who(q)
    BY DEF Quiet, Deleting, LeavesNoCopy
  <2> QED  BY <1>0, <1>1, <1>2, <2>1, <2>2 DEF Deleting, LeavesNoCopy
<1>9. CopiesAreFound'
  <2>1. \A a \in Email : copy[a] # NoOwner => email'[copy[a]] \in {a, NoEmail}
    <3>1. \A a \in Email : copy[a] # NoOwner => copy[a] \in Account \ {u}
      BY <1>3, Addresses DEF Quiet, Rows
    <3> QED  BY <1>2, <1>4, <3>1 DEF Quiet, CopiesAreFound
  <2>2. \A v \in Account : copy[Anonymized(v)] \in {NoOwner, v} \/ email'[copy[Anonymized(v)]] = NoEmail
    <3>1. \A v \in Account : copy[Anonymized(v)] \in Account \cup {NoOwner}
      BY Addresses DEF Quiet, Rows
    <3>2. email[u] # NoEmail
      BY <1>3 DEF Quiet, Rows
    <3> QED  BY <1>4, <3>1, <3>2 DEF Quiet, CopiesAreFound
  <2> QED  BY <1>0, <2>1, <2>2 DEF CopiesAreFound
<1>10. HasCopy'
  <2>1. \A v \in answered : v \in Account
    BY DEF Quiet, Rows
  <2>2. \A v \in answered : copy[Anonymized(v)] # NoOwner \/ copy[email'[v]] # NoOwner
    BY <1>2, <1>3, <1>4, <2>1 DEF Quiet, HasCopy
  <2> QED  BY <1>0, <2>2 DEF HasCopy
<1>11. FreshHasNoCopy'
  BY <1>0, <1>1 DEF Quiet, FreshHasNoCopy
<1> QED  BY <1>1, <1>5, <1>6, <1>7, <1>8, <1>9, <1>10, <1>11 DEF Quiet

\* A call about an answered account, or about a role, begins: only the call
\* changes.
LEMMA CallBegins ==
  ASSUME Quiet, NEW r \in Call, NEW task, call' = [call EXCEPT ![r] = task],
         call[r].pc = "new", "pc" \in DOMAIN task, "who" \in DOMAIN task,
         task.who \in Account,
         UNCHANGED <<email, copy, answered>>,
         \/ task.pc = "role"
         \/ /\ task.pc \in {"apply", "erase"} /\ task.who \in answered
            /\ "old" \in DOMAIN task /\ task.old = email[task.who]
            /\ task.pc = "apply" => "new" \in DOMAIN task /\ task.new \in Email
            /\ \A q \in Call : ~In(q, ChangePc)
            /\ task.pc = "apply" => \A q \in Call : ~In(q, AccountPc)
  PROVE  Quiet'
<1>1. /\ DOMAIN call' = Call
      /\ \A q \in Call \ {r} : call'[q] = call[q]
      /\ call'[r] = task
  BY Begun DEF Quiet
<1>2. /\ \A q \in Call \ {r} : Who(q)' = Who(q) /\ Old(q)' = Old(q) /\ New(q)' = New(q)
      /\ Who(r)' = task.who /\ Old(r)' = task.old
  BY <1>1 DEF Who, Old, New
<1>3. task.pc # "role" => task.old \in Email \cup {Anonymized(task.who)}
  BY DEF Quiet, Rows
<1>4. Rows'
  BY DEF Quiet, Rows
<1>5. Fields'
  BY <1>1, <1>3, Pcs DEF Quiet, Fields, In, Who, Old, New
<1>6. Solo'
  BY <1>1, Pcs DEF Quiet, Solo, In
<1>7. /\ \A q \in Call : In(q, {"consent", "undo"})' => In(q, {"consent", "undo"}) /\ q # r
      /\ \A q \in Call \ {r} : In(q, AccountPc \ {"consent", "undo"})'
                                => In(q, AccountPc \ {"consent", "undo"})
      /\ In(r, AccountPc)' => task.who \in answered /\ task.old = email[task.who]
      /\ \A q \in Call : In(q, AccountPc \ {"consent", "undo"})' => In(q, AccountPc)'
      /\ \A q \in Call : In(q, {"revoke", "propagate"})' <=> In(q, {"revoke", "propagate"}) /\ q # r
      /\ \A q \in Call : In(q, {"revoke", "propagate"}) => q # r
      /\ \A q \in Call \ {r} : In(q, {"apply"})' => In(q, {"apply"})
      /\ \A q \in Call \ {r} : In(q, {"erase"})' => In(q, {"erase"})
      /\ \A q \in Call : In(q, {"flip"})' => In(q, {"flip"}) /\ q # r
      /\ \A q \in Call : In(q, {"apply"})' \/ In(q, {"erase"})' => In(q, AccountPc)'
  BY <1>1, Pcs DEF In
<1>8. Registering'
  BY <1>2, <1>7 DEF Quiet, Registering
<1>9. Changing'
  BY <1>2, <1>7 DEF Quiet, Changing
<1>10. Deleting'
  BY <1>2, <1>7 DEF Quiet, Deleting, LeavesNoCopy
<1>11. CopiesAreFound'
  BY <1>2, <1>7 DEF Quiet, CopiesAreFound
<1>12. HasCopy'
  BY <1>2, <1>7 DEF Quiet, HasCopy
<1>13. FreshHasNoCopy'
  BY <1>1 DEF Quiet, FreshHasNoCopy, Fresh, In, Who
<1> QED  BY <1>4, <1>5, <1>6, <1>8, <1>9, <1>10, <1>11, <1>12, <1>13 DEF Quiet

LEMMA BeginChange ==
  ASSUME Quiet, NEW r \in Call, NEW u \in Account, NEW a \in Email,
         ~disturbed', ReadEmail(r, u, a)
  PROVE  Quiet'
<1> DEFINE task == [pc |-> "apply", who |-> u, old |-> email[u], new |-> a]
<1>1. /\ {"pc", "who", "old", "new"} \subseteq DOMAIN task
      /\ task.pc = "apply" /\ task.who = u /\ task.old = email[u] /\ task.new = a
  OBVIOUS
<1>2. /\ BeginCall(r, task) /\ u \in answered
      /\ UNCHANGED <<email, copy, answered>>
  BY DEF ReadEmail, SignedIn, rowVars
<1> HIDE DEF task
<1>3. call' = [call EXCEPT ![r] = task] /\ call[r].pc = "new"
  BY <1>2 DEF BeginCall, InPc
<1>4. /\ \A q \in Call : ~In(q, ChangePc)
      /\ \A q \in Call : ~In(q, AccountPc)
  BY <1>1, <1>2, BegunAlone
<1> QED  BY <1>1, <1>2, <1>3, <1>4, CallBegins

LEMMA BeginDelete ==
  ASSUME Quiet, NEW r \in Call, NEW u \in Account, ~disturbed',
         ReadToDelete(r, u)
  PROVE  Quiet'
<1> DEFINE task == [pc |-> "erase", who |-> u, old |-> email[u]]
<1>1. /\ {"pc", "who", "old"} \subseteq DOMAIN task
      /\ task.pc = "erase" /\ task.who = u /\ task.old = email[u]
  OBVIOUS
<1>2. /\ BeginCall(r, task) /\ u \in answered
      /\ UNCHANGED <<email, copy, answered>>
  BY DEF ReadToDelete, SignedIn, rowVars
<1> HIDE DEF task
<1>3. call' = [call EXCEPT ![r] = task] /\ call[r].pc = "new"
  BY <1>2 DEF BeginCall, InPc
<1>4. \A q \in Call : ~In(q, ChangePc)
  BY <1>1, <1>2, BegunAlone
<1> QED  BY <1>1, <1>2, <1>3, <1>4, CallBegins

LEMMA BeginRole ==
  ASSUME Quiet, NEW r \in Call, NEW u \in Account, NEW wanted \in GrantedRole,
         ReadRole(r, u, wanted)
  PROVE  Quiet'
<1> DEFINE task == [pc |-> "role", who |-> u, wanted |-> wanted, role |-> role[u],
                   previous |-> previousRole[u]]
<1>1. /\ {"pc", "who"} \subseteq DOMAIN task
      /\ task.pc = "role" /\ task.who = u
  OBVIOUS
<1>2. /\ call' = [call EXCEPT ![r] = task] /\ call[r].pc = "new"
      /\ UNCHANGED <<email, copy, answered>>
  BY DEF ReadRole, rowVars, InPc
<1> HIDE DEF task
<1> QED  BY <1>1, <1>2, CallBegins

LEMMA EraseStart == AccountsInit => EraseInv
<1> SUFFICES ASSUME AccountsInit PROVE Quiet
  BY DEF EraseInv
<1> DEFINE fresh == [pc |-> "new"]
<1>1. /\ call = [r \in Call |-> fresh] /\ "pc" \in DOMAIN fresh /\ fresh.pc = "new"
      /\ email \in [Account -> Email \cup {NoEmail}]
      /\ \A u, v \in Account : email[u] = email[v] => u = v \/ email[u] = NoEmail
      /\ answered = {u \in Account : email[u] # NoEmail}
  BY DEF AccountsInit
<1> HIDE DEF fresh
<1>2. /\ DOMAIN call = Call
      /\ \A r \in Call : /\ call[r].pc = "new" /\ "pc" \in DOMAIN call[r]
                         /\ \A pcs \in SUBSET (AccountPc) : ~In(r, pcs)
  BY <1>1, Pcs DEF In
<1>3. /\ \A r \in Call : ~In(r, AccountPc) /\ ~In(r, ChangePc) /\ In(r, {"new"})
      /\ \A r \in Call : ~In(r, {"consent", "undo"}) /\ ~In(r, AccountPc \ {"consent", "undo"})
      /\ \A r \in Call : ~In(r, {"apply"}) /\ ~In(r, {"revoke", "propagate"})
      /\ \A r \in Call : ~In(r, {"erase"}) /\ ~In(r, {"flip"})
  BY <1>2, Pcs DEF In
<1>4. /\ copy \in [Address -> Account \cup {NoOwner}]
      /\ \A a \in Address : copy[a] # NoOwner => copy[a] \in Account /\ email[copy[a]] = a
      /\ \A a \in Address, u \in Account : email[u] = a => copy[a] # NoOwner
  <2>1. \A a \in Address : Taken(a) => \E u \in Account : email[u] = a
    BY DEF Taken
  <2>2. \A a \in Address : Taken(a) =>
          /\ (CHOOSE u \in Account : email[u] = a) \in Account
          /\ email[CHOOSE u \in Account : email[u] = a] = a
    BY <2>1
  <2>3. copy = [a \in Address |->
                 IF Taken(a) THEN CHOOSE u \in Account : email[u] = a ELSE NoOwner]
    BY DEF AccountsInit
  <2> QED  BY <2>2, <2>3, Addresses DEF Taken
<1>5. \A u \in Account : copy[Anonymized(u)] = NoOwner
  BY <1>1, <1>4, Addresses
<1>6. Rows
  BY <1>1, <1>4, Addresses DEF Rows
<1>7. Fields
  BY <1>2, <1>3 DEF Fields
<1>8. Solo /\ Registering /\ Changing /\ Deleting
  BY <1>3 DEF Solo, Registering, Changing, Deleting
<1>9. CopiesAreFound
  BY <1>4, <1>5, Addresses DEF CopiesAreFound
<1>10. HasCopy
  BY <1>1, <1>4, Addresses DEF HasCopy
<1>11. FreshHasNoCopy
  BY <1>1, <1>4, AddressConstants DEF FreshHasNoCopy, Fresh
<1> QED  BY <1>6, <1>7, <1>8, <1>9, <1>10, <1>11 DEF Quiet

LEMMA EraseInvStep ==
  ASSUME EraseInv, [AccountsNext]_accountVars PROVE EraseInv'
<1> SUFFICES ASSUME ~disturbed' PROVE Quiet'
  BY DEF EraseInv
<1>1. Quiet
  <2>1. CASE UNCHANGED accountVars
    BY <2>1 DEF accountVars, EraseInv
  <2>2. CASE AccountsNext
    <3>1. ~disturbed
      BY <2>2 DEF AccountsNext, Register, ReadEmail, RecordConsent, LoseConsent,
         UndoRegister, ApplyEmail, RevokeToken, PropagateEmail, LosePropagation,
         ReadToDelete, EraseCopy, FlipRow, StopCall, ReadRole, WriteRole, BeginCall
    <3> QED  BY <3>1 DEF EraseInv
  <2> QED  BY <2>1, <2>2
<1>2. ASSUME NEW r \in Call, RecordConsent(r) \/ LoseConsent(r) PROVE Quiet'
  BY <1>1, <1>2, ConsentStep DEF RecordConsent, LoseConsent, Finish, InPc, In, Who,
     rowVars
<1>3. ASSUME NEW r \in Call, RevokeToken(r) PROVE Quiet'
  BY <1>1, <1>3, MoveOn DEF RevokeToken, InPc, In, rowVars
<1>4. ASSUME NEW r \in Call, StopCall(r) PROVE Quiet'
  <2>1. call[r].pc \notin {"revoke", "propagate"}
    BY <1>4 DEF StopCall
  <2>2. In(r, {"apply", "consent", "undo", "erase", "flip", "role"})
    BY <1>4, <2>1, Pcs DEF StopCall, In
  <2>3. Continue(r, "done") /\ UNCHANGED <<email, copy, answered>>
    BY <1>4 DEF StopCall, Finish, rowVars
  <2> QED  BY <1>1, <2>2, <2>3, MoveOn
<1>5. ASSUME NEW r \in Call, WriteRole(r) PROVE Quiet'
  <2>1. Continue(r, "done") /\ UNCHANGED <<email, copy, answered>>
    BY <1>5 DEF WriteRole, Finish
  <2>2. In(r, {"apply", "consent", "undo", "erase", "flip", "role"})
    BY <1>5 DEF WriteRole, InPc, In
  <2> QED  BY <1>1, <2>1, <2>2, MoveOn
<1>6. ASSUME NEW r \in Call, LosePropagation(r) PROVE Quiet'
  BY <1>6 DEF LosePropagation
<1>7. ASSUME NEW r \in Call, NEW u \in Account, NEW a \in Email,
             Register(r, u, a) \/ ReadEmail(r, u, a)
      PROVE  Quiet'
  BY <1>1, <1>7, RegisterStep, BeginChange
<1>8. ASSUME NEW r \in Call, NEW u \in Account, ReadToDelete(r, u) PROVE Quiet'
  BY <1>1, <1>8, BeginDelete
<1>9. ASSUME NEW r \in Call, NEW u \in Account, NEW wanted \in GrantedRole,
             ReadRole(r, u, wanted)
      PROVE  Quiet'
  BY <1>1, <1>9, BeginRole
<1>10. CASE UNCHANGED accountVars
  <2>1. UNCHANGED <<email, copy, answered, call>>
    BY <1>10 DEF accountVars
  <2> QED  BY <1>1, <2>1 DEF Quiet, Rows, Fields, Solo, Registering, Changing,
           Deleting, CopiesAreFound, HasCopy, FreshHasNoCopy, Fresh, In, Who,
           Old, New, LeavesNoCopy
<1> QED  BY <1>1, <1>2, <1>3, <1>4, <1>5, <1>6, <1>7, <1>8, <1>9, <1>10, UndoStep,
         ApplyStep, PropagateStep, EraseStep, FlipStep DEF AccountsNext

\* A deleted account leaves no copy with its address and secrets, whatever
\* fails, stops or overlaps, for every number of accounts, addresses and
\* requests: unless a change of e-mail was disturbed.
THEOREM DeletionsAreComplete == AccountsSpec => []DeletionSurvivesFaults
<1>1. EraseInv /\ [AccountsNext]_accountVars => EraseInv'
  BY EraseInvStep
<1>2. EraseInv => DeletionSurvivesFaults
  <2> SUFFICES ASSUME Quiet, NEW u \in Account, email[u] = Anonymized(u),
                      NEW a \in Email, copy[a] = u
               PROVE  FALSE
    BY DEF EraseInv, DeletionSurvivesFaults, LeavesNoCopy
  <2>1. copy[a] # NoOwner /\ email[u] \notin {a, NoEmail}
    BY Addresses
  <2>2. PICK r \in Call : In(r, {"revoke", "propagate"}) /\ Who(r) = u
    BY <2>1 DEF Quiet, CopiesAreFound
  <2>3. email[u] = New(r) /\ In(r, ChangePc)
    BY <2>2, Pcs DEF Quiet, Changing, In
  <2>4. New(r) \in Email
    BY <2>3 DEF Quiet, Fields
  <2> QED  BY <2>3, <2>4, Addresses
<1> QED  BY EraseStart, <1>1, <1>2, PTL DEF AccountsSpec

-----------------------------------------------------------------------------
(* Contract documents                                                        *)

\* Stages after which a request publishes no file.
Past == {"reclaim", "stamped", "link", "stream", "done", "purge", "dropDoc",
         "dropContract"}

\* What the local variables of a request hold at each stage.
RequestShape ==
  /\ DOMAIN request = PdfRequest
  /\ \A r \in PdfRequest :
       /\ "pc" \in DOMAIN request[r]
       /\ request[r].pc \in Past \cup Working \cup {"new"}
       /\ request[r].pc \in Working \cup {"reclaim"} =>
            "does" \in DOMAIN request[r] /\ request[r].does \in Does
       /\ request[r].pc \in {"write", "update", "reclaim"} =>
            {"superseded", "original"} \subseteq DOMAIN request[r]

DocShape == doc # NoDoc => doc \in Doc /\ Len(doc.auditLog) > 0

\* A request that knows a version to supersede found the document, and that
\* version was published before its own.
KnowsVersion(r) ==
  request[r].superseded # NoFile =>
    /\ doc # NoDoc
    /\ request[r].original = doc.auditLog[1].file
    /\ request[r].superseded \in PdfRequest
    /\ request[request[r].superseded].pc \in Past

FilesInv ==
  /\ doc # NoDoc => /\ doc.current \in files
                    /\ doc.auditLog[1].file \in files
                    /\ request[doc.current].pc \in Past
  /\ \A r \in PdfRequest :
       /\ At(r, "update") => r \in files
       /\ request[r].pc \in {"write", "update", "reclaim"} => KnowsVersion(r)
       /\ At(r, "reclaim") /\ request[r].superseded # NoFile =>
            doc.current # request[r].superseded

PdfInv ==
  /\ RequestShape
  /\ DocShape
  /\ \A r \in PdfRequest :
       request[r].pc \in {"dropDoc", "dropContract"} => purged
  /\ ~purged => FilesInv

\* A step that moves one request, and leaves the document and the files.
LEMMA RequestMoves ==
  ASSUME PdfInv, NEW r \in PdfRequest, NEW task,
         request' = [request EXCEPT ![r] = task],
         "pc" \in DOMAIN task,
         task.pc \in Past \cup Working \cup {"new"},
         task.pc \in Working \cup {"reclaim"} =>
           "does" \in DOMAIN task /\ task.does \in Does,
         task.pc \in {"dropDoc", "dropContract"} => purged',
         purged => purged',
         task.pc \notin {"write", "update", "reclaim"},
         request[r].pc \in Past => task.pc \in Past,
         UNCHANGED <<doc, files>>
  PROVE  PdfInv'
  <1>1. RequestShape'
    BY DEF PdfInv, RequestShape
  <1>2. DocShape'
    BY DEF PdfInv, DocShape
  <1>3. (\A q \in PdfRequest : request[q].pc \in {"dropDoc", "dropContract"}
                               => purged)'
    BY DEF PdfInv, RequestShape
  <1>4. ASSUME ~purged' PROVE FilesInv'
    BY <1>4 DEF PdfInv, RequestShape, DocShape, FilesInv, KnowsVersion, At, Past
  <1> QED BY <1>1, <1>2, <1>3, <1>4 DEF PdfInv

\* The steps that only move a request: early stages, failures, stops.
LEMMA QuietSteps ==
  ASSUME PdfInv, NEW r \in PdfRequest,
         \/ SaveContract(r)
         \/ \E s \in Signatory : RecordSignature(r, s)
         \/ ReadBase(r)
         \/ StampBase(r)
         \/ LinkFile(r)
         \/ FailCall(r)
         \/ SkipPurge(r)
         \/ DropContract(r)
         \/ StopRequest(r)
  PROVE  PdfInv'
  <1> USE DEF Past, Working, Stored, Does
  <1>s. /\ DOMAIN request = PdfRequest
        /\ "pc" \in DOMAIN request[r]
        /\ request[r].pc \in Past \cup Working \cup {"new"}
        /\ request[r].pc \in Working \cup {"reclaim"} =>
             "does" \in DOMAIN request[r] /\ request[r].does \in Does
        /\ request[r].pc \in {"dropDoc", "dropContract"} => purged
    BY DEF PdfInv, RequestShape
  <1>1. CASE SaveContract(r)
    <2> DEFINE task == [pc |-> "lookup", does |-> "create", shows |-> {}]
    <2>1. request' = [request EXCEPT ![r] = task] /\ request[r].pc = "new"
          /\ UNCHANGED <<doc, files, purged>>
      BY <1>1 DEF SaveContract, Begin, At
    <2>2. /\ "pc" \in DOMAIN task
          /\ task.pc \in (Past \cup Working \cup {"new"}) \ {"dropDoc", "dropContract", "write", "update", "reclaim"}
          /\ "does" \in DOMAIN task /\ task.does \in Does
      OBVIOUS
    <2> HIDE DEF task
    <2> QED BY <2>1, <2>2, RequestMoves
  <1>2. ASSUME NEW s \in Signatory, RecordSignature(r, s) PROVE PdfInv'
    <2> DEFINE task == [pc |-> "base", does |-> "sign", shows |-> {s}]
    <2>1. request' = [request EXCEPT ![r] = task] /\ request[r].pc = "new"
          /\ UNCHANGED <<doc, files, purged>>
      BY <1>2 DEF RecordSignature, Begin, At
    <2>2. /\ "pc" \in DOMAIN task
          /\ task.pc \in (Past \cup Working \cup {"new"}) \ {"dropDoc", "dropContract", "write", "update", "reclaim"}
          /\ "does" \in DOMAIN task /\ task.does \in Does
      OBVIOUS
    <2> HIDE DEF task
    <2> QED BY <2>1, <2>2, RequestMoves
  <1>3. CASE ReadBase(r)
    <2> DEFINE task == IF doc = NoDoc THEN [pc |-> "done", does |-> "sign"]
                      ELSE [pc |-> "open", does |-> "sign",
                            shows |-> request[r].shows, base |-> CurrentFile]
    <2>1. request' = [request EXCEPT ![r] = task] /\ request[r].pc = "base"
          /\ UNCHANGED <<doc, files, purged>>
      BY <1>3 DEF ReadBase, At
    <2>2. /\ "pc" \in DOMAIN task
          /\ task.pc \in (Past \cup Working \cup {"new"}) \ {"dropDoc", "dropContract", "write", "update", "reclaim"}
          /\ "does" \in DOMAIN task /\ task.does \in Does
      OBVIOUS
    <2> HIDE DEF task
    <2> QED BY <2>1, <2>2, RequestMoves
  <1>4. CASE StampBase(r)
    <2> DEFINE task == [pc |-> "lookup", does |-> "sign",
                       shows |-> request[r].shows \cup stamps[request[r].base]]
    <2>1. request' = [request EXCEPT ![r] = task] /\ request[r].pc = "open"
          /\ UNCHANGED <<doc, files, purged>>
      BY <1>4 DEF StampBase, At
    <2>2. /\ "pc" \in DOMAIN task
          /\ task.pc \in (Past \cup Working \cup {"new"}) \ {"dropDoc", "dropContract", "write", "update", "reclaim"}
          /\ "does" \in DOMAIN task /\ task.does \in Does
      OBVIOUS
    <2> HIDE DEF task
    <2> QED BY <2>1, <2>2, RequestMoves
  <1>5. ASSUME NEW pc \in Past \ {"reclaim"}, Go(r, pc),
               UNCHANGED <<doc, files>>, purged => purged',
               pc \in {"dropDoc", "dropContract"} => purged'
        PROVE  PdfInv'
    <2> DEFINE task == [request[r] EXCEPT !.pc = pc]
    <2>1. request' = [request EXCEPT ![r] = task]
      BY <1>5 DEF Go
    <2>2. task.pc = pc /\ "pc" \in DOMAIN task
      BY <1>s
    <2> HIDE DEF task
    <2> QED BY <1>5, <2>1, <2>2, RequestMoves
  <1>6. CASE LinkFile(r)
    BY <1>5, <1>6 DEF LinkFile
  <1>7. CASE FailCall(r)
    BY <1>5, <1>7 DEF FailCall, Failing
  <1>8. CASE SkipPurge(r)
    BY <1>5, <1>8 DEF SkipPurge
  <1>9. CASE DropContract(r)
    BY <1>5, <1>9 DEF DropContract
  <1>10. CASE StopRequest(r)
    BY <1>5, <1>10 DEF StopRequest
  <1> QED
    BY <1>1, <1>2, <1>3, <1>4, <1>6, <1>7, <1>8, <1>9, <1>10

\* The document keeps its shape, its current file and its first entry when an
\* entry is appended.
LEMMA AppendKeepsFirst ==
  ASSUME NEW S, NEW log \in Seq(S), Len(log) > 0, NEW entry \in S
  PROVE  /\ Append(log, entry) \in Seq(S)
         /\ Len(Append(log, entry)) > 0
         /\ Append(log, entry)[1] = log[1]
  OBVIOUS

LEMMA ViewKeepsDoc ==
  ASSUME DocShape, doc' = LogView
  PROVE  /\ DocShape'
         /\ doc = NoDoc <=> doc' = NoDoc
         /\ doc # NoDoc => /\ doc'.current = doc.current
                           /\ doc'.auditLog[1] = doc.auditLog[1]
  <1>1. CASE doc = NoDoc
    BY <1>1 DEF LogView, DocShape
  <1>2. CASE doc # NoDoc
    <2> DEFINE entry == [action |-> "viewed", file |-> NoFile]
    <2>1. entry \in Entry
      BY DEF Entry, Does
    <2>2. /\ doc \in Doc /\ doc.auditLog \in Seq(Entry) /\ Len(doc.auditLog) > 0
      BY <1>2 DEF DocShape, Doc
    <2>3. doc' = [doc EXCEPT !.auditLog = Append(doc.auditLog, entry)]
      BY <1>2 DEF LogView
    <2> HIDE DEF entry
    <2>4. /\ Append(doc.auditLog, entry) \in Seq(Entry)
          /\ Len(Append(doc.auditLog, entry)) > 0
          /\ Append(doc.auditLog, entry)[1] = doc.auditLog[1]
      BY <2>1, <2>2, AppendKeepsFirst
    <2>5. /\ doc' \in Doc /\ doc'.current = doc.current
          /\ doc'.auditLog = Append(doc.auditLog, entry)
      BY <2>2, <2>3, <2>4 DEF Doc
    <2> QED BY <1>2, <2>4, <2>5, PdfConstants DEF DocShape
  <1> QED BY <1>1, <1>2

-----------------------------------------------------------------------------
LEMMA PdfInvView ==
  ASSUME PdfInv, NEW r \in PdfRequest, ViewPdf(r) PROVE PdfInv'
  <1>s. /\ DOMAIN request = PdfRequest /\ "pc" \in DOMAIN request[r]
    BY DEF PdfInv, RequestShape
  <1>1. CASE doc = NoDoc
    <2> DEFINE task == [pc |-> "lookup", does |-> "generate", shows |-> {}]
    <2>1. request' = [request EXCEPT ![r] = task] /\ request[r].pc = "new"
          /\ UNCHANGED <<doc, files, purged>>
      BY <1>1 DEF ViewPdf, Begin, At
    <2>2. /\ "pc" \in DOMAIN task /\ task.pc = "lookup"
          /\ "does" \in DOMAIN task /\ task.does \in Does
      BY DEF Does
    <2> HIDE DEF task
    <2> QED BY <2>1, <2>2, RequestMoves DEF Past, Working, Stored
  <1>2. CASE doc # NoDoc
    <2> DEFINE task == [request[r] EXCEPT !.pc = "done"]
    <2>1. /\ request' = [request EXCEPT ![r] = task] /\ task.pc = "done"
          /\ request[r].pc = "new" /\ "pc" \in DOMAIN task
          /\ doc' \in {doc, LogView} /\ UNCHANGED <<files, purged>>
      BY <1>2, <1>s DEF ViewPdf, Go, At
    <2> HIDE DEF task
    <2>2. /\ DocShape' /\ doc' # NoDoc
          /\ doc'.current = doc.current /\ doc'.auditLog[1] = doc.auditLog[1]
      BY <1>2, <2>1, ViewKeepsDoc DEF PdfInv, DocShape
    <2>3. RequestShape'
      BY <2>1 DEF PdfInv, RequestShape, Past, Working, Stored
    <2>4. ASSUME ~purged PROVE FilesInv'
      <3>1. FilesInv
        BY <2>4 DEF PdfInv
      <3> QED
        BY <1>2, <2>1, <2>2, <3>1
        DEF PdfInv, RequestShape, DocShape, Doc, FilesInv, KnowsVersion, At, Past
    <2>5. (\A q \in PdfRequest : request[q].pc \in {"dropDoc", "dropContract"}
                                 => purged)'
      BY <2>1 DEF PdfInv, RequestShape
    <2> QED BY <2>1, <2>2, <2>3, <2>4, <2>5 DEF PdfInv
  <1> QED BY <1>1, <1>2

LEMMA PdfInvStream ==
  ASSUME PdfInv, NEW r \in PdfRequest, StreamRebuilt(r) PROVE PdfInv'
  <1> DEFINE task == [request[r] EXCEPT !.pc = "done"]
  <1>1. /\ request' = [request EXCEPT ![r] = task] /\ task.pc = "done"
        /\ "pc" \in DOMAIN task /\ doc' = LogView /\ UNCHANGED <<files, purged>>
    BY DEF StreamRebuilt, Go, PdfInv, RequestShape
  <1> HIDE DEF task
  <1>2. /\ DocShape'
        /\ \/ doc' = doc
           \/ /\ doc # NoDoc /\ doc' # NoDoc
              /\ doc'.current = doc.current
              /\ doc'.auditLog[1] = doc.auditLog[1]
    BY <1>1, ViewKeepsDoc DEF PdfInv, LogView
  <1>3. RequestShape'
    BY <1>1 DEF PdfInv, RequestShape, Past, Working, Stored
  <1>4. ASSUME ~purged PROVE FilesInv'
    <2>1. FilesInv
      BY <1>4 DEF PdfInv
    <2> QED
      BY <1>1, <1>2, <2>1
      DEF PdfInv, RequestShape, DocShape, Doc, FilesInv, KnowsVersion, At, Past
  <1>5. (\A q \in PdfRequest : request[q].pc \in {"dropDoc", "dropContract"}
                               => purged)'
    BY <1>1 DEF PdfInv, RequestShape
  <1> QED BY <1>1, <1>2, <1>3, <1>4, <1>5 DEF PdfInv

LEMMA PdfInvLookUp ==
  ASSUME PdfInv, NEW r \in PdfRequest, LookUp(r) PROVE PdfInv'
  <1> DEFINE task == [pc |-> "write", does |-> request[r].does,
                     shows |-> request[r].shows,
                     superseded |-> IF doc = NoDoc THEN NoFile ELSE doc.current,
                     original |-> IF doc = NoDoc THEN NoFile
                                  ELSE doc.auditLog[1].file]
  <1>1. /\ request' = [request EXCEPT ![r] = task] /\ request[r].pc = "lookup"
        /\ UNCHANGED <<doc, files, purged>>
    BY DEF LookUp, At
  <1>2. /\ task.pc = "write" /\ task.does = request[r].does
        /\ {"pc", "does", "superseded", "original"} \subseteq DOMAIN task
        /\ task.superseded # NoFile => /\ doc # NoDoc
                                      /\ task.superseded = doc.current
                                      /\ task.original = doc.auditLog[1].file
    OBVIOUS
  <1> HIDE DEF task
  <1>3. RequestShape'
    BY <1>1, <1>2 DEF PdfInv, RequestShape, Past, Working, Stored
  <1>4. ASSUME ~purged PROVE FilesInv'
    <2>1. FilesInv
      BY <1>4 DEF PdfInv
    <2> QED
      BY <1>1, <1>2, <2>1
      DEF PdfInv, RequestShape, DocShape, Doc, FilesInv, KnowsVersion, At, Past
  <1>5. (\A q \in PdfRequest : request[q].pc \in {"dropDoc", "dropContract"}
                               => purged)'
    BY <1>1, <1>2 DEF PdfInv, RequestShape
  <1> QED BY <1>1, <1>3, <1>4, <1>5 DEF PdfInv, DocShape

LEMMA PdfInvWrite ==
  ASSUME PdfInv, NEW r \in PdfRequest, WriteFile(r) PROVE PdfInv'
  <1> DEFINE task == [request[r] EXCEPT !.pc = "update"]
  <1>1. /\ request' = [request EXCEPT ![r] = task] /\ request[r].pc = "write"
        /\ files' = files \cup {r} /\ UNCHANGED <<doc, purged>>
    BY DEF WriteFile, At, Go
  <1>2. /\ task.pc = "update" /\ task.does = request[r].does
        /\ {"pc", "does", "superseded", "original"} \subseteq DOMAIN task
        /\ task.superseded = request[r].superseded
        /\ task.original = request[r].original
    BY <1>1 DEF PdfInv, RequestShape, Working, Stored
  <1> HIDE DEF task
  <1>3. RequestShape'
    BY <1>1, <1>2 DEF PdfInv, RequestShape, Past, Working, Stored
  <1>4. ASSUME ~purged PROVE FilesInv'
    <2>1. FilesInv
      BY <1>4 DEF PdfInv
    <2> QED
      BY <1>1, <1>2, <2>1
      DEF PdfInv, RequestShape, DocShape, Doc, FilesInv, KnowsVersion, At, Past
  <1>5. (\A q \in PdfRequest : request[q].pc \in {"dropDoc", "dropContract"}
                               => purged)'
    BY <1>1, <1>2 DEF PdfInv, RequestShape
  <1> QED BY <1>1, <1>3, <1>4, <1>5 DEF PdfInv, DocShape

\* The document that names the new file, and still the original one.
LEMMA PublishedDoc ==
  ASSUME PdfInv, NEW r \in PdfRequest, At(r, "update"), Publish(r)
  PROVE  /\ DocShape' /\ doc' # NoDoc /\ doc'.current = r
         /\ doc = NoDoc => doc'.auditLog[1].file = r
         /\ doc # NoDoc => doc'.auditLog[1] = doc.auditLog[1]
  <1> DEFINE entry == [action |-> request[r].does, file |-> r]
             log == IF doc = NoDoc THEN <<entry>> ELSE Append(doc.auditLog, entry)
  <1>1. entry \in Entry /\ entry.file = r
    BY DEF PdfInv, RequestShape, At, Working, Stored, Entry
  <1>2. doc' = [current |-> r, auditLog |-> log]
    BY DEF Publish
  <1> HIDE DEF entry
  <1>3. /\ log \in Seq(Entry) /\ Len(log) > 0
        /\ doc = NoDoc => log[1] = entry
        /\ doc # NoDoc => log[1] = doc.auditLog[1]
    <2>1. CASE doc = NoDoc
      BY <1>1, <2>1
    <2>2. CASE doc # NoDoc
      <3>1. doc.auditLog \in Seq(Entry) /\ Len(doc.auditLog) > 0
        BY <2>2 DEF PdfInv, DocShape, Doc
      <3> QED BY <1>1, <2>2, <3>1, AppendKeepsFirst
    <2> QED BY <2>1, <2>2
  <1> HIDE DEF log
  <1>4. doc' \in Doc /\ doc'.current = r /\ doc'.auditLog = log
    BY <1>2, <1>3 DEF Doc
  <1> QED
    BY <1>1, <1>3, <1>4, PdfConstants DEF DocShape

\* A request publishes its file: the document names it, the versions that
\* others know stay what they were.
LEMMA PublishKeepsFiles ==
  ASSUME PdfInv, NEW r \in PdfRequest, At(r, "update"), Publish(r),
         NEW task, request' = [request EXCEPT ![r] = task],
         {"pc", "does", "superseded", "original"} \subseteq DOMAIN task,
         task.does = request[r].does,
         task.superseded = request[r].superseded,
         task.original = request[r].original,
         task.pc \in {"reclaim", "purge", "done"},
         UNCHANGED <<files, purged>>
  PROVE  PdfInv'
  <1>5. /\ DocShape' /\ doc' # NoDoc /\ doc'.current = r
        /\ doc = NoDoc => doc'.auditLog[1].file = r
        /\ doc # NoDoc => doc'.auditLog[1] = doc.auditLog[1]
    BY PublishedDoc
  <1>6. RequestShape'
    BY DEF PdfInv, RequestShape, Past, Working, Stored, At
  <1>7. (\A q \in PdfRequest : request[q].pc \in {"dropDoc", "dropContract"}
                               => purged)'
    BY DEF PdfInv, RequestShape
  <1>8. ASSUME ~purged PROVE FilesInv'
    <2>1. FilesInv /\ RequestShape
      BY <1>8 DEF PdfInv
    <2>2. r \in files
      BY <2>1 DEF FilesInv
    <2>3. \A q \in PdfRequest : request'[q] = IF q = r THEN task ELSE request[q]
      BY <2>1 DEF RequestShape
    <2>4. \A q \in PdfRequest : request[q].pc \in Past => request'[q].pc \in Past
      BY <2>3 DEF At, Past
    <2>5. /\ doc'.current \in files' /\ doc'.auditLog[1].file \in files'
          /\ request'[doc'.current].pc \in Past
      BY <1>5, <2>1, <2>2, <2>3 DEF FilesInv, Past
    <2>6. ASSUME NEW q \in PdfRequest,
                 request'[q].pc \in {"write", "update", "reclaim"}
          PROVE  /\ KnowsVersion(q)'
                 /\ request'[q].superseded # NoFile =>
                      r # request'[q].superseded
      <3>1. /\ request[q].pc \in {"write", "update", "reclaim"}
            /\ request'[q].superseded = request[q].superseded
            /\ request'[q].original = request[q].original
        BY <2>3, <2>6 DEF At
      <3>2. KnowsVersion(q)
        BY <2>1, <3>1 DEF FilesInv
      <3>3. CASE request[q].superseded # NoFile
        <4>1. /\ doc # NoDoc /\ request[q].original = doc.auditLog[1].file
              /\ request[q].superseded \in PdfRequest
              /\ request[request[q].superseded].pc \in Past
          BY <3>2, <3>3 DEF KnowsVersion
        <4>2. r # request[q].superseded
          BY <4>1 DEF At, Past
        <4>3. doc'.auditLog[1] = doc.auditLog[1]
          BY <1>5, <4>1
        <4> QED BY <1>5, <2>4, <3>1, <4>1, <4>2, <4>3 DEF KnowsVersion
      <3> QED BY <3>1, <3>3 DEF KnowsVersion
    <2>7. ASSUME NEW q \in PdfRequest, At(q, "update")' PROVE q \in files'
      <3>1. At(q, "update")
        BY <2>3, <2>7 DEF At
      <3> QED BY <2>1, <3>1 DEF FilesInv
    <2> QED BY <1>5, <2>5, <2>6, <2>7 DEF FilesInv, At
  <1> QED BY <1>5, <1>6, <1>7, <1>8 DEF PdfInv

LEMMA PdfInvUpdate ==
  ASSUME PdfInv, NEW r \in PdfRequest, UpdateDoc(r) \/ LoseUpdate(r)
  PROVE  PdfInv'
  <1>1. PICK pc \in {"reclaim", "purge", "done"} : Go(r, pc)
    BY DEF UpdateDoc, LoseUpdate, Failing
  <1>2. /\ At(r, "update") /\ Publish(r) /\ UNCHANGED <<files, purged>>
    BY DEF UpdateDoc, LoseUpdate
  <1> DEFINE task == [request[r] EXCEPT !.pc = pc]
  <1>3. {"pc", "does", "superseded", "original"} \subseteq DOMAIN request[r]
    BY <1>2 DEF PdfInv, RequestShape, At, Working, Stored
  <1>4. /\ {"pc", "does", "superseded", "original"} \subseteq DOMAIN task
        /\ task.does = request[r].does /\ task.superseded = request[r].superseded
        /\ task.original = request[r].original /\ task.pc = pc
    BY <1>3
  <1>5. request' = [request EXCEPT ![r] = task]
    BY <1>1 DEF Go
  <1> HIDE DEF task
  <1> QED BY <1>1, <1>2, <1>4, <1>5, PublishKeepsFiles

LEMMA PdfInvReclaim ==
  ASSUME PdfInv, NEW r \in PdfRequest, Reclaim(r) PROVE PdfInv'
  <1>1. PICK pc \in {"stamped", "link", "stream"} : Go(r, pc)
    BY DEF Reclaim, PdfInv, RequestShape, At, Does
  <1>2. PICK gone \in SUBSET Superseded(r) : files' = files \ gone
    BY DEF Reclaim
  <1>3. At(r, "reclaim") /\ UNCHANGED <<doc, purged>>
    BY DEF Reclaim
  <1> DEFINE task == [request[r] EXCEPT !.pc = pc]
  <1>4. request' = [request EXCEPT ![r] = task] /\ task.pc = pc
        /\ "pc" \in DOMAIN task
    BY <1>1 DEF Go, PdfInv, RequestShape
  <1> HIDE DEF task
  <1>5. RequestShape'
    BY <1>4 DEF PdfInv, RequestShape, Past, Working, Stored
  <1>6. (\A q \in PdfRequest : request[q].pc \in {"dropDoc", "dropContract"}
                               => purged)'
    BY <1>3, <1>4 DEF PdfInv, RequestShape
  <1>7. ASSUME ~purged PROVE FilesInv'
    <2>1. FilesInv /\ RequestShape
      BY <1>7 DEF PdfInv
    <2>2. KnowsVersion(r)
      BY <1>3, <2>1 DEF FilesInv, At
    <2>3. ASSUME NEW x \in gone
          PROVE  /\ doc # NoDoc /\ x # doc.current
                 /\ x # doc.auditLog[1].file /\ request[x].pc \in Past
      <3>1. x = request[r].superseded /\ x # NoFile /\ x # request[r].original
        BY <1>2 DEF Superseded
      <3> QED BY <1>3, <2>1, <2>2, <3>1 DEF KnowsVersion, FilesInv
    <2>4. \A q \in PdfRequest : request'[q] = IF q = r THEN task ELSE request[q]
      BY <1>4, <2>1 DEF RequestShape
    <2>5. \A q \in PdfRequest : At(q, "update")' => q \in files'
      BY <1>2, <1>4, <2>1, <2>3, <2>4 DEF FilesInv, At, Past
    <2>6. \A q \in PdfRequest : KnowsVersion(q) /\ q # r => KnowsVersion(q)'
      BY <1>3, <1>4, <2>4
      DEF KnowsVersion, Past, At
    <2> QED
      BY <1>2, <1>3, <1>4, <2>1, <2>3, <2>4, <2>5, <2>6
      DEF FilesInv, At, Past, PdfInv, DocShape, Doc
  <1> QED BY <1>3, <1>5, <1>6, <1>7 DEF PdfInv, DocShape

LEMMA PdfInvPurge ==
  ASSUME PdfInv, NEW r \in PdfRequest, PurgeFiles(r) \/ DropDoc(r) PROVE PdfInv'
  <1>1. PICK pc \in {"dropDoc", "dropContract"} : Go(r, pc)
    BY DEF PurgeFiles, DropDoc
  <1>2. purged'
    BY DEF PurgeFiles, DropDoc, PdfInv, At
  <1>3. doc' = doc \/ doc' = NoDoc
    BY DEF PurgeFiles, DropDoc
  <1> QED
    BY <1>1, <1>2, <1>3 DEF PdfInv, RequestShape, DocShape, Go, Past, Working, Stored

LEMMA PdfInvStep == PdfInv /\ [PdfNext]_pdfVars => PdfInv'
  <1> SUFFICES ASSUME PdfInv, [PdfNext]_pdfVars PROVE PdfInv'
    OBVIOUS
  <1>1. ASSUME UNCHANGED pdfVars PROVE PdfInv'
    BY <1>1 DEF pdfVars, PdfInv, RequestShape, DocShape, FilesInv, KnowsVersion, At
  <1>2. ASSUME NEW r \in PdfRequest,
               \/ SaveContract(r)
               \/ \E s \in Signatory : RecordSignature(r, s)
               \/ ViewPdf(r)
               \/ ReadBase(r)
               \/ StampBase(r)
               \/ LookUp(r)
               \/ WriteFile(r)
               \/ UpdateDoc(r)
               \/ Reclaim(r)
               \/ LinkFile(r)
               \/ StreamRebuilt(r)
               \/ FailCall(r)
               \/ LoseUpdate(r)
               \/ PurgeFiles(r)
               \/ DropDoc(r)
               \/ SkipPurge(r)
               \/ DropContract(r)
               \/ StopRequest(r)
        PROVE  PdfInv'
    BY <1>2, QuietSteps, PdfInvView, PdfInvLookUp, PdfInvWrite, PdfInvUpdate,
       PdfInvReclaim, PdfInvStream, PdfInvPurge
  <1> QED BY <1>1, <1>2 DEF PdfNext

\* Whatever stores overlap, fail or stop, the document of a contract that no
\* failed import purges names stored files, for any number of requests.
THEOREM CurrentFilesAreStored == PdfSpec => []CurrentFileIsStored
  <1>1. PdfInit => PdfInv
    BY DEF PdfInit, PdfInv, RequestShape, DocShape, FilesInv, At, Working,
       Stored, Past
  <1>2. PdfInv => CurrentFileIsStored
    BY DEF PdfInv, FilesInv, CurrentFileIsStored
  <1> QED
    BY <1>1, <1>2, PdfInvStep, PTL DEF PdfSpec

-----------------------------------------------------------------------------
(* Stamps                                                                    *)

\* A file that becomes current with these signatures drops none.
Covers(shown) == doc # NoDoc => stamps[doc.current] \subseteq shown

\* What a request that nothing else overtakes has in hand at each stage.
Shown(r) ==
  /\ At(r, "open") => doc # NoDoc /\ request[r].base = doc.current
  /\ request[r].pc \in {"lookup", "write"} => Covers(request[r].shows)
  /\ At(r, "update") => Covers(stamps[r])
  /\ request[r].pc \in {"reclaim", "stamped"} =>
       doc # NoDoc /\ stamps[r] \subseteq stamps[doc.current]

Alone ==
  \A r, q \in PdfRequest :
    request[r].pc \in Working /\ request[q].pc \in Working => r = q

Undisturbed == ~overlapped /\ ~purged

StampInv ==
  /\ DOMAIN stamps = PdfRequest
  /\ contract = "absent" => doc = NoDoc /\ \A r \in PdfRequest : At(r, "new")
  /\ Undisturbed => Alone /\ \A r \in PdfRequest : Shown(r)

\* The current version stays: its own stage is all that a request changes.
LEMMA ShownElsewhere ==
  ASSUME DOMAIN request = PdfRequest, NEW r \in PdfRequest, NEW task,
         request' = [request EXCEPT ![r] = task], UNCHANGED stamps,
         doc = NoDoc <=> doc' = NoDoc,
         doc # NoDoc => doc'.current = doc.current
  PROVE  /\ request'[r] = task
         /\ \A q \in PdfRequest \ {r} : request'[q] = request[q] /\ (Shown(q) => Shown(q)')
         /\ \A shown : Covers(shown)' <=> Covers(shown)
  <1>1. request'[r] = task /\ \A q \in PdfRequest \ {r} : request'[q] = request[q]
    OBVIOUS
  <1>2. \A shown : (doc' # NoDoc => stamps'[doc'.current] \subseteq shown) <=>
                   (doc # NoDoc => stamps[doc.current] \subseteq shown)
    OBVIOUS
  <1>3. ASSUME NEW q \in PdfRequest \ {r}, Shown(q) PROVE Shown(q)'
    BY <1>1, <1>3 DEF Shown, Covers, At
  <1> QED
    BY <1>1, <1>2, <1>3 DEF Covers

\* A request begins to work on the PDF: where another one does, they overlap.
LEMMA StampBegins ==
  ASSUME PdfInv, StampInv, NEW r \in PdfRequest, NEW task, Begin(r, task),
         task.pc \in {"lookup", "base"}, task.pc = "lookup" => doc = NoDoc,
         contract' # "absent", UNCHANGED <<doc, stamps, purged>>
  PROVE  StampInv'
  <1>1. /\ request' = [request EXCEPT ![r] = task]
        /\ ~overlapped' => ~overlapped /\ \A q \in PdfRequest : request[q].pc \notin Working
    BY DEF Begin
  <1>2. DOMAIN request = PdfRequest
    BY DEF PdfInv, RequestShape
  <1>3. /\ request'[r] = task
        /\ \A q \in PdfRequest \ {r} : request'[q] = request[q] /\ (Shown(q) => Shown(q)')
    BY <1>1, <1>2, ShownElsewhere
  <1>4. ASSUME Undisturbed' PROVE Alone' /\ \A q \in PdfRequest : Shown(q)'
    <2>1. Undisturbed
      BY <1>1, <1>4 DEF Undisturbed
    <2>2. \A q \in PdfRequest : Shown(q)
      BY <2>1 DEF StampInv
    <2>3. Shown(r)'
      BY <1>3 DEF Shown, Covers, At
    <2>4. Alone'
      BY <1>1, <1>3, <1>4 DEF Alone, Undisturbed
    <2> QED
      BY <1>3, <2>2, <2>3, <2>4
  <1> QED
    BY <1>4 DEF StampInv

\* A request goes on, and the current version stays.
LEMMA StampMoves ==
  ASSUME PdfInv, StampInv, NEW r \in PdfRequest, NEW task,
         request' = [request EXCEPT ![r] = task],
         request[r].pc # "new" \/ contract # "absent",
         task.pc \in Working => request[r].pc \in Working,
         Undisturbed /\ Alone /\ Shown(r) /\ Undisturbed' =>
           /\ task.pc = "open" => doc # NoDoc /\ task.base = doc.current
           /\ task.pc \in {"lookup", "write"} => Covers(task.shows)
           /\ task.pc # "update"
           /\ task.pc \in {"reclaim", "stamped"} => request[r].pc \in {"reclaim", "stamped"},
         doc = NoDoc <=> doc' = NoDoc, doc # NoDoc => doc'.current = doc.current,
         contract' = "absent" => contract = "absent",
         purged => purged', overlapped => overlapped', UNCHANGED stamps
  PROVE  StampInv'
  <1>1. DOMAIN request = PdfRequest
    BY DEF PdfInv, RequestShape
  <1>2. /\ request'[r] = task
        /\ \A q \in PdfRequest \ {r} : request'[q] = request[q] /\ (Shown(q) => Shown(q)')
        /\ \A shown : Covers(shown)' <=> Covers(shown)
    BY <1>1, ShownElsewhere
  <1>3. contract' # "absent"
    BY DEF StampInv, At
  <1>4. ASSUME Undisturbed' PROVE Alone' /\ \A q \in PdfRequest : Shown(q)'
    <2>1. Undisturbed /\ Alone /\ \A q \in PdfRequest : Shown(q)
      BY <1>4 DEF StampInv, Undisturbed
    <2>2. Alone'
      BY <1>2, <2>1 DEF Alone
    <2>3. Shown(r)'
      <3>1. /\ task.pc = "open" => doc' # NoDoc /\ task.base = doc'.current
            /\ task.pc \in {"lookup", "write"} => Covers(task.shows)'
            /\ task.pc # "update"
            /\ task.pc \in {"reclaim", "stamped"} =>
                 doc' # NoDoc /\ stamps'[r] \subseteq stamps'[doc'.current]
        BY <1>2, <1>4, <2>1 DEF Shown, Covers
      <3> QED
        BY <1>2, <3>1 DEF Shown, Covers, At
    <2> QED
      BY <1>2, <2>1, <2>2, <2>3
  <1> QED
    BY <1>3, <1>4 DEF StampInv

LEMMA StampPurged ==
  ASSUME StampInv, purged', contract' # "absent", UNCHANGED stamps PROVE StampInv'
  BY DEF StampInv, Undisturbed

\* The file is written: it shows what the request has in hand.
LEMMA StampWrites ==
  ASSUME PdfInv, StampInv, NEW r \in PdfRequest, WriteFile(r) PROVE StampInv'
  <1> DEFINE task == [request[r] EXCEPT !.pc = "update"]
  <1>1. /\ request[r].pc = "write" /\ request' = [request EXCEPT ![r] = task]
        /\ stamps' = [stamps EXCEPT ![r] = request[r].shows]
        /\ UNCHANGED <<contract, doc, purged, overlapped>>
    BY DEF WriteFile, At, Go
  <1>2. DOMAIN request = PdfRequest /\ task.pc = "update" /\ DOMAIN stamps = PdfRequest
    BY DEF PdfInv, RequestShape, StampInv
  <1> HIDE DEF task
  <1>3. /\ request'[r].pc = "update" /\ \A q \in PdfRequest \ {r} : request'[q] = request[q]
        /\ DOMAIN stamps' = PdfRequest /\ stamps'[r] = request[r].shows
        /\ \A q \in PdfRequest \ {r} : stamps'[q] = stamps[q]
    BY <1>1, <1>2
  <1>4. contract # "absent"
    BY <1>1 DEF StampInv, At
  <1>5. ASSUME Undisturbed PROVE Alone' /\ \A q \in PdfRequest : Shown(q)'
    <2>1. Alone /\ \A q \in PdfRequest : Shown(q)
      BY <1>5 DEF StampInv
    <2>2. doc # NoDoc => doc.current \in PdfRequest \ {r}
      BY <1>1, <1>5 DEF PdfInv, FilesInv, DocShape, Doc, Undisturbed, Past
    <2>3. Alone'
      BY <1>1, <1>3, <2>1 DEF Alone, Working, Stored
    <2>4. Shown(r)'
      BY <1>1, <1>3, <2>1, <2>2 DEF Shown, Covers, At
    <2>5. ASSUME NEW q \in PdfRequest \ {r} PROVE Shown(q)'
      BY <1>1, <1>3, <2>1, <2>2 DEF Shown, Covers, At
    <2> QED
      BY <2>3, <2>4, <2>5
  <1> QED
    BY <1>1, <1>3, <1>4, <1>5 DEF StampInv, Undisturbed

\* The file becomes current: it shows what the current one did, and what every
\* answered stamp had put on that.
LEMMA StampPublishes ==
  ASSUME PdfInv, StampInv, NEW r \in PdfRequest, UpdateDoc(r) \/ LoseUpdate(r)
  PROVE  StampInv'
  <1>1. PICK pc \in {"reclaim", "purge", "done"} : Go(r, pc)
    BY DEF UpdateDoc, LoseUpdate, Failing
  <1>2. /\ request[r].pc = "update" /\ Publish(r)
        /\ UNCHANGED <<contract, stamps, purged, overlapped>>
    BY DEF UpdateDoc, LoseUpdate, At
  <1> DEFINE task == [request[r] EXCEPT !.pc = pc]
  <1>3. /\ request' = [request EXCEPT ![r] = task] /\ DOMAIN request = PdfRequest
        /\ task.pc = pc
    BY <1>1 DEF Go, PdfInv, RequestShape
  <1> HIDE DEF task
  <1>4. /\ request'[r].pc = pc /\ \A q \in PdfRequest \ {r} : request'[q] = request[q]
    BY <1>3
  <1>5. contract # "absent"
    BY <1>2 DEF StampInv, At
  <1>6. doc' # NoDoc /\ doc'.current = r
    BY <1>2, PublishedDoc DEF At
  <1>7. ASSUME Undisturbed PROVE Alone' /\ \A q \in PdfRequest : Shown(q)'
    <2>1. Alone /\ \A q \in PdfRequest : Shown(q)
      BY <1>7 DEF StampInv
    <2>2. Covers(stamps[r])
      BY <1>2, <2>1 DEF Shown, At
    <2>3. Alone'
      BY <1>2, <1>4, <2>1 DEF Alone, Working, Stored
    <2>4. Shown(r)'
      BY <1>2, <1>4, <1>6 DEF Shown, Covers, At
    <2>5. ASSUME NEW q \in PdfRequest \ {r} PROVE Shown(q)'
      <3>1. request[q].pc \notin Working
        BY <1>2, <2>1 DEF Alone, Working, Stored
      <3>2. request'[q].pc \in {"reclaim", "stamped"} =>
              doc # NoDoc /\ stamps[q] \subseteq stamps[doc.current]
        BY <1>4, <2>1 DEF Shown
      <3> QED
        BY <1>2, <1>4, <1>6, <2>2, <3>1, <3>2
           DEF Shown, Covers, At, Working, Stored
    <2> QED
      BY <2>3, <2>4, <2>5
  <1> QED
    BY <1>2, <1>5, <1>7 DEF StampInv, Undisturbed

LEMMA StampSteps ==
  ASSUME PdfInv, StampInv, NEW r \in PdfRequest,
         \/ SaveContract(r)
         \/ \E s \in Signatory : RecordSignature(r, s)
         \/ ViewPdf(r)
  PROVE  StampInv'
  <1>1. CASE SaveContract(r)
    BY <1>1, StampBegins DEF SaveContract, StampInv
  <1>2. ASSUME NEW s \in Signatory, RecordSignature(r, s) PROVE StampInv'
    BY <1>2, StampBegins DEF RecordSignature
  <1>3. CASE ViewPdf(r) /\ doc = NoDoc
    BY <1>3, StampBegins DEF ViewPdf
  <1>4. CASE ViewPdf(r) /\ doc # NoDoc
    <2> DEFINE task == [request[r] EXCEPT !.pc = "done"]
    <2>1. /\ request' = [request EXCEPT ![r] = task] /\ task.pc = "done"
          /\ doc' \in {doc, LogView} /\ contract' = contract /\ contract # "absent"
          /\ UNCHANGED <<stamps, purged, overlapped>>
      BY <1>4 DEF ViewPdf, Go, PdfInv, RequestShape
    <2> HIDE DEF task
    <2>2. (doc = NoDoc <=> doc' = NoDoc) /\ (doc # NoDoc => doc'.current = doc.current)
      BY <1>4, <2>1, ViewKeepsDoc DEF PdfInv
    <2> QED
      BY <2>1, <2>2, StampMoves DEF Working, Stored
  <1> QED
    BY <1>1, <1>2, <1>3, <1>4

LEMMA StampOnward ==
  ASSUME PdfInv, StampInv, NEW r \in PdfRequest,
         \/ ReadBase(r)
         \/ StampBase(r)
         \/ LookUp(r)
         \/ Reclaim(r)
         \/ LinkFile(r)
         \/ StreamRebuilt(r)
         \/ FailCall(r)
         \/ StopRequest(r)
  PROVE  StampInv'
  <1> USE DEF Working, Stored
  <1>1. CASE ReadBase(r)
    <2> DEFINE task == IF doc = NoDoc THEN [pc |-> "done", does |-> "sign"]
                      ELSE [pc |-> "open", does |-> "sign",
                            shows |-> request[r].shows, base |-> CurrentFile]
    <2>1. request' = [request EXCEPT ![r] = task] /\ request[r].pc = "base"
          /\ UNCHANGED <<contract, doc, stamps, purged, overlapped>>
      BY <1>1 DEF ReadBase, At
    <2>2. \/ task.pc = "done"
          \/ task.pc = "open" /\ doc # NoDoc /\ task.base = doc.current
      BY DEF CurrentFile
    <2> HIDE DEF task
    <2> QED
      BY <2>1, <2>2, StampMoves
  <1>2. CASE StampBase(r)
    <2> DEFINE task == [pc |-> "lookup", does |-> "sign",
                       shows |-> request[r].shows \cup stamps[request[r].base]]
    <2>1. request' = [request EXCEPT ![r] = task] /\ request[r].pc = "open"
          /\ UNCHANGED <<contract, doc, stamps, purged, overlapped>>
      BY <1>2 DEF StampBase, At
    <2>2. task.pc = "lookup" /\ (Shown(r) => Covers(task.shows))
      BY <2>1 DEF Shown, Covers, At
    <2> HIDE DEF task
    <2> QED
      BY <2>1, <2>2, StampMoves
  <1>3. CASE LookUp(r)
    <2> DEFINE task == [pc |-> "write", does |-> request[r].does,
                       shows |-> request[r].shows,
                       superseded |-> IF doc = NoDoc THEN NoFile ELSE doc.current,
                       original |-> IF doc = NoDoc THEN NoFile
                                    ELSE doc.auditLog[1].file]
    <2>1. request' = [request EXCEPT ![r] = task] /\ request[r].pc = "lookup"
          /\ UNCHANGED <<contract, doc, stamps, purged, overlapped>>
      BY <1>3 DEF LookUp, At
    <2>2. task.pc = "write" /\ task.shows = request[r].shows
      OBVIOUS
    <2>3. Shown(r) => Covers(task.shows)
      BY <2>1, <2>2 DEF Shown
    <2> HIDE DEF task
    <2> QED
      BY <2>1, <2>2, <2>3, StampMoves
  \* The other steps change the stage only.
  <1>4. ASSUME NEW pc \in Past, Go(r, pc), request[r].pc # "new",
               pc \in {"reclaim", "stamped"} => request[r].pc \in {"reclaim", "stamped"},
               doc = NoDoc <=> doc' = NoDoc, doc # NoDoc => doc'.current = doc.current,
               UNCHANGED <<contract, stamps, purged, overlapped>>
        PROVE  StampInv'
    <2> DEFINE task == [request[r] EXCEPT !.pc = pc]
    <2>1. request' = [request EXCEPT ![r] = task] /\ task.pc = pc
      BY <1>4 DEF Go, PdfInv, RequestShape
    <2> HIDE DEF task
    <2>2. task.pc \notin Working
      BY <2>1 DEF Past
    <2> QED
      BY <1>4, <2>1, <2>2, StampMoves
  <1>5. CASE Reclaim(r)
    <2>1. PICK pc \in {"stamped", "link", "stream"} : Go(r, pc)
      BY <1>5 DEF Reclaim, PdfInv, RequestShape, At, Does
    <2> QED
      BY <1>4, <1>5, <2>1 DEF Reclaim, At, Past
  <1>6. CASE LinkFile(r)
    BY <1>4, <1>6 DEF LinkFile, At, Past
  <1>7. CASE StreamRebuilt(r)
    <2>1. (doc = NoDoc <=> doc' = NoDoc) /\ (doc # NoDoc => doc'.current = doc.current)
      BY <1>7, ViewKeepsDoc DEF PdfInv, StreamRebuilt
    <2> QED
      BY <1>4, <1>7, <2>1 DEF StreamRebuilt, At, Past
  <1>8. CASE FailCall(r)
    BY <1>4, <1>8 DEF FailCall, Failing, Past
  <1>9. CASE StopRequest(r)
    BY <1>4, <1>9 DEF StopRequest, Past
  <1> QED
    BY <1>1, <1>2, <1>3, <1>5, <1>6, <1>7, <1>8, <1>9

LEMMA StampUndone ==
  ASSUME PdfInv, StampInv, NEW r \in PdfRequest,
         PurgeFiles(r) \/ DropDoc(r) \/ SkipPurge(r) \/ DropContract(r)
  PROVE  StampInv'
  <1>1. request[r].pc \in {"purge", "dropDoc", "dropContract"} /\ stamps' = stamps
    BY DEF PurgeFiles, DropDoc, SkipPurge, DropContract, At
  <1>2. contract # "absent" /\ contract' \in {contract, "dropped"}
    BY <1>1 DEF StampInv, At, PurgeFiles, DropDoc, SkipPurge, DropContract
  <1>3. purged'
    BY DEF PurgeFiles, DropDoc, SkipPurge, DropContract, PdfInv, At
  <1> QED
    BY <1>1, <1>2, <1>3, StampPurged

LEMMA StampInvStep == PdfInv /\ StampInv /\ [PdfNext]_pdfVars => StampInv'
  <1> SUFFICES ASSUME PdfInv, StampInv, [PdfNext]_pdfVars PROVE StampInv'
    OBVIOUS
  <1>1. CASE UNCHANGED pdfVars
    BY <1>1 DEF pdfVars, StampInv, Undisturbed, Alone, Shown, Covers, At
  <1>2. CASE PdfNext
    BY <1>2, StampSteps, StampOnward, StampWrites, StampPublishes, StampUndone DEF PdfNext
  <1> QED BY <1>1, <1>2

\* No signature that was answered for disappears from the current PDF: where
\* one request at a time works on it, every version that follows is stamped on
\* the one before, whatever fails or stops in between, for any number of
\* signatories and requests (stampSignedPdf, contracts.service.ts:588-635).
THEOREM AnsweredStampsStay == PdfSpec => []StampsAreKept
  <1>1. PdfInit => PdfInv /\ StampInv
    BY DEF PdfInit, PdfInv, RequestShape, DocShape, FilesInv, At, Working,
       Stored, Past, StampInv, Undisturbed, Alone, Shown, Covers
  <1>2. StampInv => StampsAreKept
    BY DEF StampInv, Undisturbed, Shown, StampsAreKept, At
  <1> QED
    BY <1>1, <1>2, PdfInvStep, StampInvStep, PTL DEF PdfSpec
=============================================================================
