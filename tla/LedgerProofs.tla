---------------------------- MODULE LedgerProofs -----------------------------
(* What the operations of PointsLedger do to the sums of its rows.  Each     *)
(* keeps LedgerReconciles, but for a reservation over a row that is there:   *)
(* the modules that interleave the operations show that there is none.       *)
EXTENDS PointsLedger, SumProofs, TLAPS

LEMMA ReconcilesInit ==
  ASSUME IsFiniteSet(User), IsFiniteSet(Contract), LedgerInit
  PROVE  LedgerReconciles
<1>1. ASSUME NEW S, IsFiniteSet(S) PROVE Total([x \in S |-> 0]) = 0
  <2> DEFINE zero == [x \in S |-> 0]
  <2>1. zero \in [S -> Int] /\ {} \in SUBSET S /\ (\A x \in S \ {} : zero[x] = 0)
    OBVIOUS
  <2>2. [x \in {} |-> zero[x]] \in [{} -> Int]
    OBVIOUS
  <2> HIDE DEF zero
  <2>3. Total(zero) = Total([x \in {} |-> zero[x]])
    BY <1>1, <2>1, TotalOfSupport
  <2>4. Total(zero) = 0
    BY <2>2, <2>3, TotalEmpty
  <2> QED
    BY <2>4 DEF zero
<1>2. ASSUME NEW u \in User PROVE Earned(u) = 0
  <2>1. [c \in Contract |-> Share(c, u)] = [c \in Contract |-> 0]
    BY DEF LedgerInit, NoRow, Share, Completed
  <2> QED
    BY <1>1, <2>1 DEF Earned
<1>3. Total(balance) = 0
  BY <1>1 DEF LedgerInit
<1> QED
  BY <1>2, <1>3 DEF LedgerReconciles, LedgerInit

\* A payment moves points and makes none, also where somebody pays himself.
LEMMA MovedTotal ==
  ASSUME IsFiniteSet(User), NEW f \in [User -> Int], NEW u \in User, NEW v \in User, NEW n \in Nat
  PROVE  Total(Moved(f, u, v, n)) = Total(f)
<1> DEFINE mid == [w \in User |-> f[w] - (IF w = u THEN n ELSE 0)]
           out == Moved(f, u, v, n)
<1>1. mid \in [User -> Int] /\ out \in [User -> Int]
  BY DEF Moved
<1>2. /\ mid[u] = f[u] - n /\ \A w \in User \ {u} : mid[w] = f[w]
      /\ out[v] = mid[v] + n /\ \A w \in User \ {v} : out[w] = mid[w]
  BY DEF Moved
<1>3. Total(f) \in Int
  BY TotalInt
<1> HIDE DEF mid, out
<1>4. Total(mid) = Total(f) + (mid[u] - f[u])
  <2>1. \A w \in User \ {u} : mid[w] = f[w]
    BY <1>2
  <2>2. ASSUME NEW g \in [User -> Int], \A w \in User \ {u} : g[w] = f[w]
        PROVE  Total(g) = Total(f) + (g[u] - f[u])
    BY <2>2, TotalUpdate
  <2> QED
    BY <1>1, <2>1, <2>2
<1>5. Total(out) = Total(mid) + (out[v] - mid[v])
  BY <1>1, <1>2, TotalUpdate
<1>6. f[u] \in Int /\ mid[v] \in Int /\ mid[u] \in Int
  BY <1>1
<1>7. Total(out) = Total(f)
  BY <1>2, <1>3, <1>4, <1>5, <1>6
<1> QED
  BY <1>7 DEF out

\* A row brings its payer and its payee a number of points.
LEMMA ShareInt ==
  ASSUME LedgerTypeOK, NEW c \in Contract, NEW u
  PROVE  Share(c, u) \in Int
<1>1. CASE Completed(c)
  <2>1. payment[c].amount \in Nat
    BY <1>1 DEF LedgerTypeOK, Completed, PaymentRow, NoRow
  <2> QED
    BY <1>1, <2>1 DEF Share
<1> QED
  BY <1>1 DEF Share

\* Rows that are neither completed nor become so leave the sums as they are.
LEMMA SharesKept ==
  ASSUME LedgerReconciles, UNCHANGED <<balance, transferred>>,
         \A c \in Contract : \/ payment'[c] = payment[c]
                             \/ ~Completed(c) /\ ~Completed(c)'
  PROVE  LedgerReconciles'
<1>1. ASSUME NEW u \in User PROVE Earned(u)' = Earned(u)
  <2>1. \A c \in Contract : Share(c, u)' = Share(c, u)
    BY DEF Share, Completed
  <2>2. [c \in Contract |-> Share(c, u)'] = [c \in Contract |-> Share(c, u)]
    BY <2>1
  <2> QED
    BY <2>2 DEF Earned
<1> QED
  BY <1>1 DEF LedgerReconciles

LEMMA TransferReconciles ==
  ASSUME IsFiniteSet(User), IsFiniteSet(Contract), LedgerTypeOK, LedgerReconciles,
         NEW u \in User, NEW v \in User, NEW n \in Nat, Transfer(u, v, n)
  PROVE  LedgerReconciles'
<1>1. balance' = Moved(balance, u, v, n) /\ transferred' = Moved(transferred, u, v, n)
  BY DEF Transfer
<1>2. Total(balance') = 0
  BY <1>1, MovedTotal DEF LedgerTypeOK, LedgerReconciles
<1>3. ASSUME NEW w \in User PROVE balance'[w] = transferred'[w] + Earned(w)'
  <2>1. Earned(w)' = Earned(w)
    BY DEF Transfer, Earned, Share, Completed
  <2>2. balance[w] - transferred[w] = balance'[w] - transferred'[w]
    BY <1>1 DEF LedgerTypeOK, Moved
  <2>3. balance[w] \in Int /\ transferred[w] \in Int /\ balance'[w] \in Int /\ transferred'[w] \in Int
    BY <1>1 DEF LedgerTypeOK, Moved
  <2>4. balance[w] = transferred[w] + Earned(w)
    BY DEF LedgerReconciles
  <2>5. Earned(w) \in Int
    <3> DEFINE shares == [c \in Contract |-> Share(c, w)]
    <3>1. \A c \in Contract : Share(c, w) \in Int
      BY ShareInt
    <3>2. shares \in [Contract -> Int]
      BY <3>1
    <3> HIDE DEF shares
    <3>3. Total(shares) \in Int
      BY <3>2, TotalInt
    <3> QED
      BY <3>3 DEF Earned, shares
  <2> QED
    BY <2>1, <2>2, <2>3, <2>4, <2>5
<1> QED
  BY <1>2, <1>3 DEF LedgerReconciles

LEMMA SettleReconciles ==
  ASSUME IsFiniteSet(User), IsFiniteSet(Contract), LedgerTypeOK, LedgerReconciles,
         NEW c \in Contract, Settle(c)
  PROVE  LedgerReconciles'
<1> DEFINE payer == payment[c].payer
           payee == payment[c].payee
           amount == payment[c].amount
<1>1. payer \in User /\ payee \in User /\ amount \in Nat
  BY DEF Settle, Settleable, LedgerTypeOK, PaymentRow, NoRow
<1>2. /\ balance' = Moved(balance, payer, payee, amount)
      /\ transferred' = transferred
  BY DEF Settle
<1>3. Total(balance') = 0
  BY <1>1, <1>2, MovedTotal DEF LedgerTypeOK, LedgerReconciles
<1>4. /\ ~Completed(c) /\ Completed(c)'
      /\ payment'[c].payer = payer /\ payment'[c].payee = payee /\ payment'[c].amount = amount
      /\ \A d \in Contract \ {c} : payment'[d] = payment[d]
  BY DEF Settle, Settleable, Completed, LedgerTypeOK, PaymentRow, NoRow
<1>5. ASSUME NEW w \in User PROVE balance'[w] = transferred'[w] + Earned(w)'
  <2> DEFINE gain == (IF payee = w THEN amount ELSE 0) - (IF payer = w THEN amount ELSE 0)
             before == [d \in Contract |-> Share(d, w)]
             after == [d \in Contract |-> Share(d, w)']
  <2>1. before \in [Contract -> Int]
    BY ShareInt
  <2>2. gain \in Int
    BY <1>1
  <2>3. before[c] = 0 /\ after[c] = gain
    BY <1>4 DEF Share
  <2>4. \A d \in Contract \ {c} : after[d] = before[d]
    BY <1>4 DEF Share, Completed
  <2>5. Earned(w) = Total(before) /\ Earned(w)' = Total(after)
    BY DEF Earned
  <2>6. balance'[w] = balance[w] + gain
    BY <1>1, <1>2 DEF LedgerTypeOK, Moved
  <2>7. after \in [Contract -> Int]
    <3>1. \A d \in Contract : after[d] \in Int
      BY <2>1, <2>2, <2>3, <2>4
    <3> QED
      BY <3>1
  <2> HIDE DEF before, after, gain
  <2>8. Total(after) = Total(before) + (after[c] - before[c])
    BY <2>1, <2>4, <2>7, TotalUpdate
  <2>9. Total(before) \in Int
    BY <2>1, TotalInt
  <2>10. balance[w] = transferred[w] + Total(before) /\ balance[w] \in Int /\ transferred[w] \in Int
    BY <2>5 DEF LedgerReconciles, LedgerTypeOK
  <2> QED
    BY <1>2, <2>2, <2>3, <2>5, <2>6, <2>8, <2>9, <2>10
<1> QED
  BY <1>3, <1>5 DEF LedgerReconciles

LEMMA VoidReconciles ==
  ASSUME LedgerTypeOK, LedgerReconciles, NEW c \in Contract, Void(c)
  PROVE  LedgerReconciles'
<1>1. \A d \in Contract : payment'[d] = payment[d] \/ (~Completed(d) /\ ~Completed(d)')
  BY DEF Void, Completed, LedgerTypeOK, PaymentRow, NoRow
<1> QED
  BY <1>1, SharesKept DEF Void

LEMMA ReserveReconciles ==
  ASSUME LedgerTypeOK, LedgerReconciles, NEW c, payment[c].status = "none",
         NEW u, NEW v, NEW n, Reserve(c, u, v, n)
  PROVE  LedgerReconciles'
<1>1. \A d \in Contract : payment'[d] = payment[d] \/ (~Completed(d) /\ ~Completed(d)')
  BY DEF Reserve, Completed, LedgerTypeOK
<1> QED
  BY <1>1, SharesKept DEF Reserve
=============================================================================
