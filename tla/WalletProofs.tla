---------------------------- MODULE WalletProofs ----------------------------
(***************************************************************************)
(* Proofs about the wallet: its type invariant and the safety invariants,  *)
(* for every set of amounts and every number of holds and ledger rows.     *)
(* The first section has the facts about rounding and about sums of rows.  *)
(***************************************************************************)
EXTENDS Wallet, TLAPS, WellFoundedInduction, SequenceTheorems

-----------------------------------------------------------------------------
(* Rounding and sums.  The sums need induction over the number of rows: it *)
(* is done by taking the least row at which a claim fails.                 *)

\* A stored amount is not rounded again.
LEMMA StoredWhole ==
    ASSUME NEW a \in Int
    PROVE  Stored(Exact(a)) = a
  BY SMT DEF Stored, Exact, Scale

\* A stored amount is an integer.
LEMMA StoredInt ==
    ASSUME NEW x \in Int
    PROVE  Stored(x) \in Int
  BY SMT DEF Stored, Scale

\* Adding a stored amount commutes with rounding, unless the other summand is
\* a half-unit.
LEMMA StoredShift ==
    ASSUME NEW b \in Int, NEW x \in Int, ~IsTie(x)
    PROVE  Stored(Exact(b) + x) = b + Stored(x)
  BY SMT DEF Stored, Exact, Scale, IsTie

\* Between amounts that are not negative it always does: half-units go up on
\* both sides.
LEMMA StoredShiftNat ==
    ASSUME NEW b \in Nat, NEW x \in Nat
    PROVE  Stored(Exact(b) + x) = b + Stored(x)
  BY SMT DEF Stored, Exact, Scale, IsTie

\* Rounding keeps the order.
LEMMA StoredMonotone ==
    ASSUME NEW x \in Int, NEW y \in Int, x <= y
    PROVE  Stored(x) <= Stored(y)
  BY SMT DEF Stored, Scale

\* The least-number principle for a set of natural numbers.
LEMMA LeastElement ==
    ASSUME NEW S \in SUBSET Nat, S # {}
    PROVE  \E m \in S : \A k \in S : m <= k
<1>1. IsWellFoundedOn(OpToRel(<, Nat), Nat)
  BY NatLessThanWellFounded
<1>2. PICK m \in S : \A k \in S : ~(<<k, m>> \in OpToRel(<, Nat))
  BY <1>1, WFMin
<1>3. \A k \in S : ~(k < m)
  BY <1>2 DEF OpToRel
<1> QED
  BY <1>3

\* RunningSum(f, n, g): g holds the running totals of f over 0..n.
RunningSum(f, n, g) ==
    g = [i \in 0..n |-> IF i = 0 THEN 0 ELSE g[i - 1] + f[i]]

\* Every f has running totals up to any n, so the CHOOSE inside Total has a
\* value to find (by the least n that would have none).
LEMMA RunningExists ==
    ASSUME NEW f, NEW n \in Nat
    PROVE  \E g : RunningSum(f, n, g)
<1> DEFINE Bad == {k \in Nat : ~ \E g : RunningSum(f, k, g)}
<1>1. SUFFICES ASSUME Bad # {} PROVE FALSE
  OBVIOUS
<1>2. PICK m \in Bad : \A k \in Bad : m <= k
  BY <1>1, LeastElement
<1>3. m # 0
  <2> DEFINE g0 == [i \in 0..0 |-> 0]
  <2>1. RunningSum(f, 0, g0)
    BY DEF RunningSum
  <2> QED
    BY <2>1
<1>4. PICK g : RunningSum(f, m - 1, g)
  <2>1. m - 1 \in Nat /\ ~(m <= m - 1)
    BY <1>3
  <2> QED
    BY <2>1, <1>2
<1>5. m \in Nat
  OBVIOUS
<1> DEFINE h == [i \in 0..m |-> IF i = m THEN g[m - 1] + f[m] ELSE g[i]]
<1>6. RunningSum(f, m, h)
  <2>1. \A i \in 0..m : h[i] = IF i = 0 THEN 0 ELSE h[i - 1] + f[i]
    <3> SUFFICES ASSUME NEW i \in 0..m
                 PROVE  h[i] = IF i = 0 THEN 0 ELSE h[i - 1] + f[i]
      OBVIOUS
    <3>1. CASE i = m
      <4>1. h[m - 1] = g[m - 1]
        BY <1>3, <1>5
      <4> QED
        BY <4>1, <3>1, <1>3, <1>5
    <3>2. CASE i # m
      <4>1. i \in 0..(m - 1)
        BY <3>2, <1>5
      <4>2. g[i] = IF i = 0 THEN 0 ELSE g[i - 1] + f[i]
        BY <4>1, <1>4 DEF RunningSum
      <4>3. i # 0 => h[i - 1] = g[i - 1]
        BY <4>1, <1>5
      <4> QED
        BY <4>2, <4>3, <3>2
    <3> QED
      BY <3>1, <3>2
  <2>2. h = [i \in 0..m |-> h[i]]
    OBVIOUS
  <2> HIDE DEF h
  <2> QED
    BY <2>1, <2>2 DEF RunningSum
<1> QED
  BY <1>6, <1>5

\* What running totals are at each index.
LEMMA RunningValue ==
    ASSUME NEW f, NEW g, NEW n \in Nat, NEW i \in 0..n, RunningSum(f, n, g)
    PROVE  g[i] = IF i = 0 THEN 0 ELSE g[i - 1] + f[i]
  BY DEF RunningSum

\* RunningSum totals are determined by the rows they sum: two of them agree at m
\* when their rows agree up to m (by the least index where they differ).
LEMMA RunningUnique ==
    ASSUME NEW f1, NEW f2, NEW g, NEW h, NEW m \in Nat, NEW n \in Nat,
           m <= n, RunningSum(f1, m, g), RunningSum(f2, n, h),
           \A i \in 1..m : f1[i] = f2[i]
    PROVE  g[m] = h[m]
<1> DEFINE Bad == {i \in 0..m : g[i] # h[i]}
<1>1. SUFFICES ASSUME Bad # {} PROVE FALSE
  OBVIOUS
<1>2. PICK i \in Bad : \A j \in Bad : i <= j
  <2>1. Bad \in SUBSET Nat
    OBVIOUS
  <2> QED
    BY <1>1, <2>1, LeastElement
<1>3. i \in 0..m /\ i \in 0..n /\ g[i] # h[i]
  OBVIOUS
<1>4. CASE i = 0
  <2>1. g[i] = 0
    BY <1>3, <1>4, RunningValue
  <2>2. h[i] = 0
    BY <1>3, <1>4, RunningValue
  <2> QED
    BY <2>1, <2>2, <1>3
<1>5. CASE i # 0
  <2>1. i - 1 \in 0..m /\ i \in 1..m /\ ~(i <= i - 1)
    BY <1>5, <1>3
  <2>2. g[i - 1] = h[i - 1]
    BY <2>1, <1>2
  <2>3. g[i] = g[i - 1] + f1[i] /\ h[i] = h[i - 1] + f2[i]
    BY <1>3, <1>5, RunningValue
  <2> QED
    BY <2>1, <2>2, <2>3, <1>3
<1> QED
  BY <1>4, <1>5

\* Total is the last of the running totals, whichever of them one has at hand.
LEMMA TotalIsRunning ==
    ASSUME NEW f, NEW g, NEW n \in Nat, RunningSum(f, n, g)
    PROVE  Total(f, n) = g[n]
<1> DEFINE u == CHOOSE t : t = [i \in 0..n |-> IF i = 0 THEN 0 ELSE t[i - 1] + f[i]]
<1>1. Total(f, n) = u[n]
  BY DEF Total
<1>2. RunningSum(f, n, u)
  BY DEF RunningSum
<1> HIDE DEF u
<1>3. n <= n /\ n \in 0..n /\ \A i \in 1..n : f[i] = f[i]
  OBVIOUS
<1>4. u[n] = g[n]
  BY <1>2, <1>3, RunningUnique
<1> QED
  BY <1>1, <1>4

\* The sum of no rows.
LEMMA TotalZero ==
    ASSUME NEW f
    PROVE  Total(f, 0) = 0
<1>1. PICK g : RunningSum(f, 0, g)
  BY RunningExists
<1> QED
  BY <1>1, TotalIsRunning, RunningValue

\* One more row.
LEMMA TotalStep ==
    ASSUME NEW f, NEW n \in Nat \ {0}
    PROVE  Total(f, n) = Total(f, n - 1) + f[n]
<1>1. PICK g : RunningSum(f, n, g)
  BY RunningExists
<1>2. PICK h : RunningSum(f, n - 1, h)
  BY RunningExists
<1>3. h[n - 1] = g[n - 1]
  <2>1. /\ n \in Nat /\ n - 1 \in Nat /\ n - 1 <= n /\ n - 1 \in 0..(n - 1)
        /\ \A i \in 1..(n - 1) : f[i] = f[i]
    OBVIOUS
  <2> QED
    BY <2>1, <1>1, <1>2, RunningUnique
<1>4. g[n] = g[n - 1] + f[n]
  BY <1>1, RunningValue
<1> QED
  BY <1>1, <1>2, <1>3, <1>4, TotalIsRunning

\* Only the rows counted matter.
LEMMA TotalSame ==
    ASSUME NEW f1, NEW f2, NEW n \in Nat, \A i \in 1..n : f1[i] = f2[i]
    PROVE  Total(f1, n) = Total(f2, n)
<1>1. PICK g : RunningSum(f1, n, g)
  BY RunningExists
<1>2. PICK h : RunningSum(f2, n, h)
  BY RunningExists
<1>3. g[n] = h[n]
  <2>1. n <= n /\ n \in 0..n
    OBVIOUS
  <2> QED
    BY <2>1, <1>1, <1>2, RunningUnique
<1> QED
  BY <1>1, <1>2, <1>3, TotalIsRunning

\* A sum of integers is an integer.
LEMMA TotalInt ==
    ASSUME NEW f, NEW n \in Nat, \A i \in 1..n : f[i] \in Int
    PROVE  Total(f, n) \in Int
<1> DEFINE Bad == {k \in 0..n : Total(f, k) \notin Int}
<1>1. SUFFICES ASSUME Bad # {} PROVE FALSE
  OBVIOUS
<1>2. PICK k \in Bad : \A j \in Bad : k <= j
  <2>1. Bad \in SUBSET Nat
    OBVIOUS
  <2> QED
    BY <1>1, <2>1, LeastElement
<1>3. k # 0
  BY TotalZero
<1>4. k \in 1..n /\ k - 1 \in 0..n /\ ~(k <= k - 1)
  BY <1>3
<1>5. Total(f, k - 1) \in Int
  BY <1>2, <1>4
<1>6. Total(f, k) = Total(f, k - 1) + f[k]
  BY <1>4, TotalStep
<1> QED
  BY <1>4, <1>5, <1>6

\* Changing one row moves the sum by the difference.
LEMMA TotalChange ==
    ASSUME NEW f1, NEW f2, NEW n \in Nat, NEW r \in 1..n,
           \A i \in 1..n : f1[i] \in Int /\ f2[i] \in Int,
           \A i \in 1..n : i # r => f1[i] = f2[i]
    PROVE  Total(f2, n) = Total(f1, n) - f1[r] + f2[r]
<1> DEFINE Bad == {k \in r..n : Total(f2, k) # Total(f1, k) - f1[r] + f2[r]}
<1>1. SUFFICES ASSUME Bad # {} PROVE FALSE
  OBVIOUS
<1>2. PICK k \in Bad : \A j \in Bad : k <= j
  <2>1. Bad \in SUBSET Nat
    OBVIOUS
  <2> QED
    BY <1>1, <2>1, LeastElement
<1>3. k \in 1..n /\ k \in r..n /\ k - 1 \in Nat
  OBVIOUS
<1>4. /\ Total(f1, k) = Total(f1, k - 1) + f1[k]
      /\ Total(f2, k) = Total(f2, k - 1) + f2[k]
  BY <1>3, TotalStep
<1>5. Total(f1, k - 1) \in Int /\ Total(f2, k - 1) \in Int
  BY <1>3, TotalInt
<1>6. f1[k] \in Int /\ f2[k] \in Int /\ f1[r] \in Int /\ f2[r] \in Int
  BY <1>3
<1>7. CASE k = r
  <2>1. Total(f1, k - 1) = Total(f2, k - 1)
    BY <1>3, <1>7, TotalSame
  <2> QED
    BY <2>1, <1>4, <1>5, <1>6, <1>7
<1>8. CASE k # r
  <2>1. f1[k] = f2[k]
    BY <1>3, <1>8
  <2>2. k - 1 \in r..n /\ ~(k <= k - 1)
    BY <1>3, <1>8
  <2>3. Total(f2, k - 1) = Total(f1, k - 1) - f1[r] + f2[r]
    BY <2>2, <1>2
  <2> QED
    BY <2>1, <2>3, <1>4, <1>5, <1>6
<1> QED
  BY <1>7, <1>8

-----------------------------------------------------------------------------
(* Rounding, on the wallet's terms.                                        *)

\* A stored amount keeps the sign of the exact one.
LEMMA StoredNat ==
    ASSUME NEW x \in Nat
    PROVE  Stored(x) \in Nat
  BY SMT DEF Stored, Scale

\* Rounding is symmetric around zero.
LEMMA StoredAbs ==
    ASSUME NEW x \in Int
    PROVE  Stored(Abs(x)) = Abs(Stored(x))
  BY SMT DEF Stored, Scale, Abs

\* A charge never costs the balance more than its ledger row says.
LEMMA StoredDebit ==
    ASSUME NEW b \in Int, NEW c \in Nat
    PROVE  Stored(Exact(b) - c) >= b + Stored(-c)
  BY SMT DEF Stored, Exact, Scale

\* An entry whose ledger row is no debit does not lower the balance.
LEMMA StoredNoLoss ==
    ASSUME NEW b \in Int, NEW x \in Int, Stored(x) >= 0
    PROVE  Stored(Exact(b) + x) >= b
  BY SMT DEF Stored, Exact, Scale

\* Exact amounts are integers.
LEMMA ExactInt ==
    ASSUME NEW b \in Int
    PROVE  Exact(b) \in Int
  BY SMT DEF Exact, Scale

\* The exact value of an amount that is not negative is not negative.
LEMMA ExactNat ==
    ASSUME NEW b \in Nat
    PROVE  Exact(b) \in Nat
  BY SMT DEF Exact, Scale

-----------------------------------------------------------------------------
(* Sums of amounts that are not negative.                                  *)

\* Such a sum is not negative.
LEMMA TotalNat ==
    ASSUME NEW f, NEW n \in Nat, \A i \in 1..n : f[i] \in Nat
    PROVE  Total(f, n) \in Nat
<1> DEFINE Bad == {k \in 0..n : Total(f, k) \notin Nat}
<1>1. SUFFICES ASSUME Bad # {} PROVE FALSE
  OBVIOUS
<1>2. PICK k \in Bad : \A j \in Bad : k <= j
  <2>1. Bad \in SUBSET Nat
    OBVIOUS
  <2> QED
    BY <1>1, <2>1, LeastElement
<1>3. k # 0
  BY TotalZero
<1>4. k \in 1..n /\ k - 1 \in 0..n /\ ~(k <= k - 1)
  BY <1>3
<1>5. Total(f, k - 1) \in Nat
  BY <1>2, <1>4
<1>6. Total(f, k) = Total(f, k - 1) + f[k]
  BY <1>4, TotalStep
<1> QED
  BY <1>4, <1>5, <1>6

\* A sum of larger terms is no smaller.
LEMMA TotalMonotone ==
    ASSUME NEW f, NEW g, NEW n \in Nat,
           \A i \in 1..n : f[i] \in Int /\ g[i] \in Int /\ f[i] <= g[i]
    PROVE  Total(f, n) <= Total(g, n)
<1> DEFINE Bad == {k \in 0..n : ~(Total(f, k) <= Total(g, k))}
<1>1. SUFFICES ASSUME Bad # {} PROVE FALSE
  <2>1. n \in 0..n
    OBVIOUS
  <2> QED BY <2>1
<1>2. PICK k \in Bad : \A j \in Bad : k <= j
  <2>1. Bad \in SUBSET Nat
    OBVIOUS
  <2> QED BY <1>1, <2>1, LeastElement
<1>3. k # 0
  BY TotalZero
<1>4. k \in 1..n /\ k - 1 \in 0..n /\ k - 1 \in Nat /\ ~(k <= k - 1)
  BY <1>3
<1>5. Total(f, k) = Total(f, k - 1) + f[k] /\ Total(g, k) = Total(g, k - 1) + g[k]
  BY <1>4, TotalStep
<1>6. Total(f, k - 1) \in Int /\ Total(g, k - 1) \in Int
  BY <1>4, TotalInt
<1>7. Total(f, k - 1) <= Total(g, k - 1)
  BY <1>2, <1>4
<1>8. f[k] \in Int /\ g[k] \in Int /\ f[k] <= g[k]
  BY <1>4
<1> QED BY <1>5, <1>6, <1>7, <1>8, <1>2

\* Such a sum is no less than any of its terms.
LEMMA TotalCovers ==
    ASSUME NEW f, NEW n \in Nat, NEW r \in 1..n, \A i \in 1..n : f[i] \in Nat
    PROVE  f[r] <= Total(f, n)
<1> DEFINE g == [i \in 1..n |-> IF i = r THEN 0 ELSE f[i]]
<1>1. Total(g, n) = Total(f, n) - f[r] + g[r]
  <2>1. \A i \in 1..n : f[i] \in Int /\ g[i] \in Int
    OBVIOUS
  <2>2. \A i \in 1..n : i # r => f[i] = g[i]
    OBVIOUS
  <2> HIDE DEF g
  <2> QED
    BY <2>1, <2>2, TotalChange
<1>2. Total(g, n) \in Nat
  <2>1. \A i \in 1..n : g[i] \in Nat
    OBVIOUS
  <2> HIDE DEF g
  <2> QED
    BY <2>1, TotalNat
<1>3. Total(f, n) \in Nat
  BY TotalNat
<1>4. f[r] \in Nat /\ g[r] = 0
  OBVIOUS
<1> HIDE DEF g
<1> QED
  BY <1>1, <1>2, <1>3, <1>4

-----------------------------------------------------------------------------
(* The helpers of the model.                                               *)

\* What applyTransaction leaves in the wallet row.
LEMMA AppliedRow ==
    ASSUME NEW w \in WalletRow, NEW type \in LedgerTypes, NEW amount \in Int
    PROVE  /\ Applied(w, type, amount) \in WalletRow
           /\ Applied(w, type, amount).balance = Stored(Exact(w.balance) + amount)
           /\ Applied(w, type, amount).reserved = w.reserved
<1> DEFINE added(column) == IF AggregateOf(type) = column
                            THEN Stored(Exact(w[column]) + AggregateDelta(type, amount))
                            ELSE w[column]
           row == [w EXCEPT !.balance = Stored(Exact(w.balance) + amount),
                 !.totalPurchased = added("totalPurchased"),
                 !.totalConsumed = added("totalConsumed"),
                 !.totalRefunded = added("totalRefunded"),
                 !.totalAdjusted = added("totalAdjusted"),
                 !.status = IF ShouldSuspend(w, amount) THEN "SUSPENDED" ELSE w.status]
<1>1. Applied(w, type, amount) = row
  BY DEF Applied
<1>2. Stored(Exact(w.balance) + amount) \in Int
  BY ExactInt, StoredInt DEF WalletRow
<1>3. Abs(amount) \in Nat
  BY DEF Abs
<1>4. \A t \in Nat : Stored(Exact(t) + Abs(amount)) \in Nat
  <2> SUFFICES ASSUME NEW t \in Nat PROVE Stored(Exact(t) + Abs(amount)) \in Nat
    OBVIOUS
  <2>1. Exact(t) \in Nat
    BY ExactNat
  <2>2. Exact(t) + Abs(amount) \in Nat
    BY <2>1, <1>3
  <2> QED
    BY <2>2, StoredNat
<1>5. \A column \in {"totalPurchased", "totalConsumed", "totalRefunded"} :
         added(column) \in Nat
  BY <1>4 DEF AggregateDelta, WalletRow
<1>6. added("totalAdjusted") \in Int
  <2>1. AggregateDelta(type, amount) \in Int
    BY <1>3 DEF AggregateDelta
  <2>2. Exact(w.totalAdjusted) \in Int
    BY ExactInt DEF WalletRow
  <2> QED
    BY <2>1, <2>2, StoredInt DEF WalletRow
<1> HIDE DEF added
<1>7. row \in WalletRow
  BY <1>2, <1>5, <1>6 DEF WalletRow, WalletStatuses
<1>8. row.balance = Stored(Exact(w.balance) + amount) /\ row.reserved = w.reserved
  BY DEF WalletRow
<1> QED
  BY <1>1, <1>7, <1>8

\* Giving a hold back changes the reserved column only.
LEMMA FreedRow ==
    ASSUME NEW w \in WalletRow, NEW amount \in Nat
    PROVE  /\ Freed(w, amount) \in WalletRow
           /\ Freed(w, amount) = [w EXCEPT !.reserved = Freed(w, amount).reserved]
           /\ Freed(w, amount).balance = w.balance
           /\ amount <= w.reserved => Freed(w, amount).reserved = w.reserved - amount
  BY DEF Freed, WalletRow

\* A ledger row is well-typed and takes its snapshots from the wallet row.
LEMMA LedgerRowFields ==
    ASSUME NEW w \in WalletRow, NEW type \in LedgerTypes, NEW amount \in Int,
           NEW ref \in Nat
    PROVE  /\ LedgerRow(w, type, amount, ref) \in LedgerEntry
           /\ LedgerRow(w, type, amount, ref).type = type
           /\ LedgerRow(w, type, amount, ref).amount = Stored(amount)
           /\ LedgerRow(w, type, amount, ref).before = w.balance
           /\ LedgerRow(w, type, amount, ref).after = Stored(Exact(w.balance) + amount)
           /\ LedgerRow(w, type, amount, ref).ref = ref
<1>1. Stored(Exact(w.balance) + amount) \in Int /\ w.balance \in Int /\ Stored(amount) \in Int
  BY ExactInt, StoredInt DEF WalletRow
<1> QED
  BY <1>1 DEF LedgerRow, LedgerEntry

\* The ledger with one more row.
LEMMA OneMoreRow ==
    ASSUME NEW row \in LedgerEntry, ledger \in Seq(LedgerEntry),
           ledger' = Append(ledger, row)
    PROVE  /\ ledger' \in Seq(LedgerEntry)
           /\ Len(ledger) \in Nat
           /\ Len(ledger') = Len(ledger) + 1
           /\ \A i \in 1..Len(ledger) : ledger'[i] = ledger[i]
           /\ ledger'[Len(ledger) + 1] = row
  BY AppendProperties, LenProperties

\* The holds with one of them ended.
LEMMA EndedHolds ==
    ASSUME holds \in Seq(Hold), NEW h \in 1..Len(holds), NEW status \in HoldStatuses
    PROVE  /\ Ended(h, status) \in Seq(Hold)
           /\ Len(Ended(h, status)) = Len(holds)
           /\ \A k \in 1..Len(holds) :
                 /\ Ended(h, status)[k].amount = holds[k].amount
                 /\ Ended(h, status)[k].status = IF k = h THEN status ELSE holds[k].status
<1> DEFINE new == [holds[h] EXCEPT !.status = status, !.overdue = FALSE]
<1>1. \A k \in 1..Len(holds) : holds[k] \in Hold
  BY ElementOfSeq
<1>2. new \in Hold /\ new.amount = holds[h].amount /\ new.status = status
  BY <1>1 DEF Hold
<1>3. Ended(h, status) = [holds EXCEPT ![h] = new]
  BY DEF Ended
<1> HIDE DEF new
<1> QED
  BY <1>2, <1>3, ExceptSeq

\* Ending an ACTIVE hold takes its amount out of what is held, which covers it.
LEMMA HeldWithoutOne ==
    ASSUME holds \in Seq(Hold), NEW h \in 1..Len(holds), holds[h].status = "ACTIVE",
           NEW status \in HoldStatuses \ {"ACTIVE"}, holds' = Ended(h, status)
    PROVE  HeldTotal' = HeldTotal - holds[h].amount /\ holds[h].amount <= HeldTotal
<1> DEFINE n == Len(holds)
           f == [k \in 1..n |-> HeldNow(k)]
           g == [k \in 1..n |-> HeldNow(k)']
<1>1. n \in Nat /\ \A k \in 1..n : holds[k] \in Hold
  BY LenProperties, ElementOfSeq
<1>2. Len(holds') = n
  BY EndedHolds
<1>3. \A k \in 1..n : /\ holds'[k].amount = holds[k].amount
                      /\ holds'[k].status = IF k = h THEN status ELSE holds[k].status
  BY EndedHolds
<1>4. HeldTotal = Total(f, n) /\ HeldTotal' = Total(g, n)
  BY <1>2 DEF HeldTotal
<1>5. \A k \in 1..n : f[k] \in Nat /\ g[k] \in Nat
  BY <1>1, <1>3 DEF HeldNow, Hold
<1>6. \A k \in 1..n : k # h => f[k] = g[k]
  BY <1>3 DEF HeldNow
<1>7. f[h] = holds[h].amount /\ g[h] = 0
  BY <1>3 DEF HeldNow
<1> HIDE DEF f, g, n
<1>8. h \in 1..n
  BY DEF n
<1>9. Total(g, n) = Total(f, n) - f[h] + g[h]
  <2>1. \A k \in 1..n : f[k] \in Int /\ g[k] \in Int
    BY <1>5
  <2> QED
    BY <1>1, <1>6, <1>8, <2>1, TotalChange
<1>10. f[h] <= Total(f, n) /\ Total(f, n) \in Nat
  BY <1>1, <1>5, <1>8, TotalCovers, TotalNat
<1> QED
  BY <1>4, <1>5, <1>7, <1>8, <1>9, <1>10

\* What is held does not change when no hold changes its status or its amount.
LEMMA HeldAsBefore ==
    ASSUME holds \in Seq(Hold), Len(holds') = Len(holds),
           \A k \in 1..Len(holds) : /\ holds'[k].amount = holds[k].amount
                                    /\ holds'[k].status = holds[k].status
    PROVE  HeldTotal' = HeldTotal
<1>1. Len(holds) \in Nat
  BY LenProperties
<1>2. [k \in 1..Len(holds) |-> HeldNow(k)'] = [k \in 1..Len(holds) |-> HeldNow(k)]
  BY DEF HeldNow
<1> QED
  BY <1>1, <1>2 DEF HeldTotal

\* A new hold adds its amount.
LEMMA HeldWithOneMore ==
    ASSUME holds \in Seq(Hold), NEW hold \in Hold, hold.status = "ACTIVE",
           holds' = Append(holds, hold)
    PROVE  HeldTotal' = HeldTotal + hold.amount
<1> DEFINE n == Len(holds)
           f == [k \in 1..n |-> HeldNow(k)]
           g == [k \in 1..(n + 1) |-> HeldNow(k)']
<1>1. n \in Nat
  BY LenProperties
<1>2. /\ Len(holds') = n + 1
      /\ \A k \in 1..n : holds'[k] = holds[k]
      /\ holds'[n + 1] = hold
  BY AppendProperties, LenProperties
<1>3. HeldTotal = Total(f, n) /\ HeldTotal' = Total(g, n + 1)
  BY <1>2 DEF HeldTotal
<1>4. \A k \in 1..n : g[k] = f[k]
  BY <1>1, <1>2 DEF HeldNow
<1>5. g[n + 1] = hold.amount
  BY <1>1, <1>2 DEF HeldNow
<1> HIDE DEF f, g, n
<1>6. Total(g, n + 1) = Total(g, (n + 1) - 1) + g[n + 1]
  BY <1>1, TotalStep
<1>7. (n + 1) - 1 = n
  BY <1>1
<1>8. Total(g, n) = Total(f, n)
  BY <1>1, <1>4, TotalSame
<1> QED
  BY <1>3, <1>5, <1>6, <1>7, <1>8

-----------------------------------------------------------------------------
(* How each part of the invariant survives a change of the rows.           *)

\* One more row, whose snapshots are the balances before and after, prolongs
\* the chain.
LEMMA ChainGrows ==
    ASSUME TypeOK, LedgerChains, NEW row \in LedgerEntry,
           ledger' = Append(ledger, row),
           row.before = wallet.balance, row.after = wallet'.balance
    PROVE  LedgerChains'
<1> DEFINE n == Len(ledger)
<1>1. /\ n \in Nat
      /\ Len(ledger') = n + 1
      /\ \A i \in 1..n : ledger'[i] = ledger[i]
      /\ ledger'[n + 1] = row
      /\ ledger = <<>> => n = 0
      /\ ledger # <<>> => n # 0
  BY OneMoreRow, EmptySeq DEF TypeOK
<1>2. \A i \in 1..n : ledger[i].before = IF i = 1 THEN 0 ELSE ledger[i - 1].after
  BY DEF LedgerChains
<1>3. wallet.balance = IF n = 0 THEN 0 ELSE ledger[n].after
  BY <1>1 DEF LedgerChains
<1> HIDE DEF n
<1>4. ledger' # <<>>
  BY <1>1
<1>5. ASSUME NEW i \in 1..(n + 1)
      PROVE  ledger'[i].before = IF i = 1 THEN 0 ELSE ledger'[i - 1].after
  <2>1. CASE i = n + 1
    <3>1. n # 0 => ledger'[n] = ledger[n]
      BY <1>1
    <3>2. i - 1 = n /\ (i = 1 <=> n = 0)
      BY <2>1, <1>1
    <3> QED
      BY <2>1, <3>1, <3>2, <1>1, <1>3
  <2>2. CASE i # n + 1
    <3>1. i \in 1..n
      BY <2>2, <1>1
    <3>2. i # 1 => i - 1 \in 1..n
      BY <3>1, <1>1
    <3> QED
      BY <3>1, <3>2, <1>1, <1>2
  <2> QED
    BY <2>1, <2>2
<1> QED
  BY <1>1, <1>4, <1>5 DEF LedgerChains

\* The chain of an untouched ledger still ends at an untouched balance.
LEMMA ChainStays ==
    ASSUME LedgerChains, ledger' = ledger, wallet'.balance = wallet.balance
    PROVE  LedgerChains'
  BY DEF LedgerChains

\* Rows keep their place: the ledger only grows, and so do the holds.
Grows == /\ Len(ledger) \in Nat /\ Len(ledger') \in Nat /\ Len(ledger) <= Len(ledger')
         /\ \A i \in 1..Len(ledger) : ledger'[i] = ledger[i]
         /\ Len(holds) \in Nat /\ Len(holds') \in Nat /\ Len(holds) <= Len(holds')
         /\ \A k \in 1..Len(holds) :
               /\ holds'[k].amount = holds[k].amount
               /\ holds[k].status = "FINALIZED" => holds'[k].status = "FINALIZED"

\* A row that is no charge does not disturb the charges.
LEMMA ChargesStay ==
    ASSUME OneChargePerHold, Grows,
           \A i \in 1..Len(ledger') : i \notin 1..Len(ledger)
               => ledger'[i].type # "USAGE_CHARGE"
    PROVE  OneChargePerHold'
<1> SUFFICES ASSUME NEW i \in 1..Len(ledger'), ledger'[i].type = "USAGE_CHARGE"
             PROVE  /\ ledger'[i].ref \in 1..Len(holds')
                    /\ holds'[ledger'[i].ref].status = "FINALIZED"
                    /\ \A j \in 1..Len(ledger') :
                          ledger'[j].type = "USAGE_CHARGE" /\ ledger'[j].ref = ledger'[i].ref
                              => i = j
  BY DEF OneChargePerHold
<1>1. i \in 1..Len(ledger) /\ ledger'[i] = ledger[i]
  BY DEF Grows
<1>2. /\ ledger[i].ref \in 1..Len(holds)
      /\ holds[ledger[i].ref].status = "FINALIZED"
      /\ \A j \in 1..Len(ledger) :
            ledger[j].type = "USAGE_CHARGE" /\ ledger[j].ref = ledger[i].ref => i = j
  BY <1>1 DEF OneChargePerHold
<1>3. ledger[i].ref \in 1..Len(holds') /\ holds'[ledger[i].ref].status = "FINALIZED"
  BY <1>2, SMTT(30) DEF Grows
<1>4. ASSUME NEW j \in 1..Len(ledger'), ledger'[j].type = "USAGE_CHARGE",
             ledger'[j].ref = ledger[i].ref
      PROVE  i = j
  <2>1. j \in 1..Len(ledger) /\ ledger'[j] = ledger[j]
    BY <1>4 DEF Grows
  <2> QED
    BY <2>1, <1>4, <1>2
<1> QED
  BY <1>1, <1>3, <1>4

\* The row that charges a hold is the only one: the hold was ACTIVE, so no
\* earlier row points at it.
LEMMA NewChargeIsAlone ==
    ASSUME OneChargePerHold, Len(ledger) \in Nat, NEW h \in 1..Len(holds), NEW row,
           holds[h].status = "ACTIVE", row.type = "USAGE_CHARGE", row.ref = h,
           Len(ledger') = Len(ledger) + 1, ledger'[Len(ledger) + 1] = row,
           \A i \in 1..Len(ledger) : ledger'[i] = ledger[i],
           Len(holds') = Len(holds),
           \A k \in 1..Len(holds) :
              holds'[k].status = IF k = h THEN "FINALIZED" ELSE holds[k].status
    PROVE  OneChargePerHold'
<1> DEFINE IsCharge(i) == ledger'[i].type = "USAGE_CHARGE"
<1>1. \A i \in 1..Len(ledger') : i \in 1..Len(ledger) \/ i = Len(ledger) + 1
  OBVIOUS
<1>2. ASSUME NEW i \in 1..Len(ledger), IsCharge(i)
      PROVE  /\ ledger'[i] = ledger[i]
             /\ ledger[i].ref \in 1..Len(holds)
             /\ holds[ledger[i].ref].status = "FINALIZED"
             /\ ledger[i].ref # h
             /\ \A j \in 1..Len(ledger) :
                   IsCharge(j) /\ ledger'[j].ref = ledger[i].ref => i = j
  BY <1>2 DEF OneChargePerHold
<1>3. ASSUME NEW i \in 1..Len(ledger'), IsCharge(i)
      PROVE  /\ ledger'[i].ref \in 1..Len(holds')
             /\ holds'[ledger'[i].ref].status = "FINALIZED"
  BY <1>1, <1>2, <1>3
<1>4. ASSUME NEW i \in 1..Len(ledger'), IsCharge(i), NEW j \in 1..Len(ledger'), IsCharge(j),
             ledger'[j].ref = ledger'[i].ref
      PROVE  i = j
  BY <1>1, <1>2, <1>4
<1> QED
  BY <1>3, <1>4 DEF OneChargePerHold

\* A cause of an overspend stays a cause.
LEMMA CausesStay ==
    ASSUME OneChargePerHold, Grows, NEW i \in 1..Len(ledger), Overdraws(i)
    PROVE  \E j \in 1..Len(ledger') : Overdraws(j)'
<1>1. i \in 1..Len(ledger') /\ ledger'[i] = ledger[i]
  BY DEF Grows
<1>2. ledger[i].type = "USAGE_CHARGE" =>
        holds'[ledger[i].ref].amount = holds[ledger[i].ref].amount
  BY DEF OneChargePerHold, Grows
<1>3. Overdraws(i)'
  BY <1>1, <1>2 DEF Overdraws
<1> QED
  BY <1>1, <1>3

-----------------------------------------------------------------------------
(* The inductive invariant, and one lemma per operation.                   *)

\* Each part needs the typing of the rows; the overspend claim needs to know
\* that charges point at holds, and the sum of the holds that a hold is covered
\* by the reserved column.
WalletInv ==
    /\ TypeOK
    /\ ReservedIsHeld
    /\ LedgerChains
    /\ OneChargePerHold
    /\ OverspendHasACause

\* The types of the rows, spelled out.
LEMMA Typing ==
    ASSUME TypeOK
    PROVE  /\ wallet.balance \in Int /\ wallet.reserved \in Nat
           /\ Len(holds) \in Nat /\ Len(ledger) \in Nat
           /\ \A k \in 1..Len(holds) : holds[k] \in Hold /\ holds[k].amount \in Nat
           /\ \A i \in 1..Len(ledger) : ledger[i] \in LedgerEntry
<1>1. wallet \in WalletRow /\ holds \in Seq(Hold) /\ ledger \in Seq(LedgerEntry)
  BY DEF TypeOK
<1>2. wallet.balance \in Int /\ wallet.reserved \in Nat
  BY <1>1 DEF WalletRow
<1>3. Len(holds) \in Nat /\ Len(ledger) \in Nat
  BY <1>1, LenProperties
<1>4. \A k \in 1..Len(holds) : holds[k] \in Hold
  BY <1>1, ElementOfSeq
<1>5. \A i \in 1..Len(ledger) : ledger[i] \in LedgerEntry
  BY <1>1, ElementOfSeq
<1>6. \A hold \in Hold : hold.amount \in Nat
  BY DEF Hold
<1> QED
  BY <1>2, <1>3, <1>4, <1>5, <1>6

\* postTransaction, with any entry that is no usage charge.
LEMMA PostPreserves ==
    ASSUME WalletInv, NEW type \in LedgerTypes \ {"USAGE_CHARGE"}, NEW amount \in Int,
           NEW allowNegative, NEW ref \in Nat,
           PostTransaction(type, amount, allowNegative, ref)
    PROVE  WalletInv'
<1> DEFINE row == LedgerRow(wallet, type, amount, ref)
<1>1. /\ wallet' = Applied(wallet, type, amount)
      /\ ledger' = Append(ledger, row)
      /\ holds' = holds
  BY DEF PostTransaction
<1>2. wallet \in WalletRow /\ holds \in Seq(Hold) /\ ledger \in Seq(LedgerEntry)
  BY DEF WalletInv, TypeOK
<1>3. /\ wallet' \in WalletRow
      /\ wallet'.balance = Stored(Exact(wallet.balance) + amount)
      /\ wallet'.reserved = wallet.reserved
  BY <1>1, <1>2, AppliedRow
<1>4. /\ row \in LedgerEntry /\ row.type = type /\ row.amount = Stored(amount)
      /\ row.before = wallet.balance
      /\ row.after = Stored(Exact(wallet.balance) + amount)
  BY <1>2, LedgerRowFields
<1> HIDE DEF row
<1>5. /\ ledger' \in Seq(LedgerEntry) /\ Len(ledger') = Len(ledger) + 1
      /\ \A i \in 1..Len(ledger) : ledger'[i] = ledger[i]
      /\ ledger'[Len(ledger) + 1] = row
  BY <1>1, <1>2, <1>4, OneMoreRow
<1>6. TypeOK'
  BY <1>1, <1>2, <1>3, <1>5 DEF TypeOK
<1>7. ReservedIsHeld'
  BY <1>1, <1>3 DEF WalletInv, ReservedIsHeld, HeldTotal, HeldNow
<1>8. LedgerChains'
  BY <1>1, <1>3, <1>4, ChainGrows DEF WalletInv
<1>9. Len(ledger) \in Nat /\ Len(holds) \in Nat /\ wallet.balance \in Int
  BY Typing DEF WalletInv
<1>10. Grows
  BY <1>1, <1>5, <1>9 DEF Grows
<1>11. OneChargePerHold'
  <2>1. \A i \in 1..Len(ledger') : i \notin 1..Len(ledger) => i = Len(ledger) + 1
    BY <1>5, <1>9
  <2>2. \A i \in 1..Len(ledger') : i \notin 1..Len(ledger)
               => ledger'[i].type # "USAGE_CHARGE"
    BY <2>1, <1>4, <1>5
  <2> QED
    BY <2>2, <1>10, ChargesStay DEF WalletInv
<1>12. OverspendHasACause'
  <2> SUFFICES ASSUME wallet'.balance < wallet'.reserved
               PROVE  \E i \in 1..Len(ledger') : Overdraws(i)'
    BY DEF OverspendHasACause
  <2>1. CASE wallet.balance < wallet.reserved
    <3>1. PICK i \in 1..Len(ledger) : Overdraws(i)
      BY <2>1 DEF WalletInv, OverspendHasACause
    <3> QED
      BY <3>1, <1>10, CausesStay DEF WalletInv
  <2>2. CASE ~(wallet.balance < wallet.reserved)
    <3>1. ~(Stored(amount) >= 0)
      <4>1. wallet.reserved \in Nat /\ wallet'.balance \in Int
        BY <1>3, Typing DEF WalletInv, WalletRow
      <4>2. Stored(amount) >= 0 => wallet'.balance >= wallet.balance
        BY <1>3, <1>9, StoredNoLoss
      <4> QED
        BY <2>2, <4>1, <4>2, <1>3, <1>9
    <3>2. Stored(amount) \in Int
      BY StoredInt
    <3>3. PICK n \in 1..Len(ledger') : ledger'[n] = row
      BY <1>5, <1>9
    <3>4. Overdraws(n)'
      BY <1>4, <3>1, <3>2, <3>3 DEF Overdraws
    <3> QED
      BY <3>4
  <2> QED
    BY <2>1, <2>2
<1> QED
  BY <1>6, <1>7, <1>8, <1>11, <1>12 DEF WalletInv

\* What an operation on the holds alone must establish: it leaves the ledger
\* and the balance, so the chain and the charges follow, and the overspend
\* claim only needs to hold of the new reserved column.
LEMMA HoldsOnly ==
    ASSUME WalletInv, ledger' = ledger, holds' \in Seq(Hold), wallet' \in WalletRow,
           wallet'.balance = wallet.balance, Grows, ReservedIsHeld',
           wallet'.balance < wallet'.reserved => wallet.balance < wallet.reserved
    PROVE  WalletInv'
<1>1. TypeOK'
  BY DEF WalletInv, TypeOK
<1>2. LedgerChains'
  BY ChainStays DEF WalletInv
<1>3. OneChargePerHold'
  BY ChargesStay DEF WalletInv
<1>4. OverspendHasACause'
  <2> SUFFICES ASSUME wallet'.balance < wallet'.reserved
               PROVE  \E i \in 1..Len(ledger') : Overdraws(i)'
    BY DEF OverspendHasACause
  <2>1. PICK i \in 1..Len(ledger) : Overdraws(i)
    BY DEF WalletInv, OverspendHasACause
  <2> QED
    BY <2>1, CausesStay DEF WalletInv
<1> QED
  BY <1>1, <1>2, <1>3, <1>4 DEF WalletInv

\* reserveCredits: the check of the available balance, made before the estimate
\* is rounded, still covers the rounded hold.
LEMMA ReservePreserves ==
    ASSUME WalletInv, NEW amount \in Nat, ReserveCredits(amount)
    PROVE  WalletInv'
<1> DEFINE hold == [amount |-> Stored(amount), status |-> "ACTIVE", overdue |-> FALSE]
<1>1. /\ amount <= Exact(wallet.balance - wallet.reserved)
      /\ holds' = Append(holds, hold)
      /\ wallet' = [wallet EXCEPT !.reserved = Stored(Exact(wallet.reserved) + amount)]
      /\ ledger' = ledger
  BY DEF ReserveCredits
<1>2. wallet \in WalletRow /\ holds \in Seq(Hold)
  BY DEF WalletInv, TypeOK
<1>3. /\ wallet.balance \in Int /\ wallet.reserved \in Nat
      /\ Len(holds) \in Nat /\ Len(ledger) \in Nat
  BY Typing DEF WalletInv
<1>4. Stored(amount) \in Nat
  BY StoredNat
<1>5. hold \in Hold /\ hold.status = "ACTIVE" /\ hold.amount = Stored(amount)
  BY <1>4 DEF Hold, HoldStatuses
<1> HIDE DEF hold
<1>6. Stored(Exact(wallet.reserved) + amount) = wallet.reserved + Stored(amount)
  BY <1>3, StoredShiftNat
<1>7. /\ wallet' \in WalletRow /\ wallet'.balance = wallet.balance
      /\ wallet'.reserved = wallet.reserved + Stored(amount)
  <2>1. \A r \in Nat : /\ [wallet EXCEPT !.reserved = r] \in WalletRow
                       /\ [wallet EXCEPT !.reserved = r].balance = wallet.balance
                       /\ [wallet EXCEPT !.reserved = r].reserved = r
    BY <1>2 DEF WalletRow
  <2>2. wallet.reserved + Stored(amount) \in Nat
    BY <1>3, <1>4
  <2> QED
    BY <1>1, <1>6, <2>1, <2>2
<1>8. /\ holds' \in Seq(Hold) /\ Len(holds') = Len(holds) + 1
      /\ \A k \in 1..Len(holds) : holds'[k] = holds[k]
  BY <1>1, <1>2, <1>5, AppendProperties, LenProperties
<1>9. ReservedIsHeld'
  <2>1. HeldTotal' = HeldTotal + Stored(amount)
    BY <1>1, <1>2, <1>5, HeldWithOneMore
  <2> QED
    BY <2>1, <1>7 DEF WalletInv, ReservedIsHeld
<1>10. Grows
  BY <1>1, <1>3, <1>8 DEF Grows
<1>11. ~(wallet'.balance < wallet'.reserved)
  <2>1. wallet.balance - wallet.reserved \in Int
    BY <1>3
  <2>2. Exact(wallet.balance - wallet.reserved) \in Int
    BY <2>1, ExactInt
  <2>3. Stored(amount) <= Stored(Exact(wallet.balance - wallet.reserved))
    BY <1>1, <2>2, StoredMonotone
  <2>4. Stored(Exact(wallet.balance - wallet.reserved)) = wallet.balance - wallet.reserved
    BY <2>1, StoredWhole
  <2> QED
    BY <2>3, <2>4, <1>3, <1>4, <1>7
<1> QED
  BY <1>1, <1>7, <1>8, <1>9, <1>10, <1>11, HoldsOnly

\* What ending an ACTIVE hold does to the holds and the reserved column,
\* whether or not it is charged.
LEMMA EndingAHold ==
    ASSUME WalletInv, NEW h \in 1..Len(holds), holds[h].status = "ACTIVE",
           NEW status \in HoldStatuses \ {"ACTIVE"}, holds' = Ended(h, status)
    PROVE  /\ holds' \in Seq(Hold)
           /\ Len(holds') = Len(holds)
           /\ \A k \in 1..Len(holds) :
                 /\ holds'[k].amount = holds[k].amount
                 /\ holds'[k].status = IF k = h THEN status ELSE holds[k].status
           /\ Freed(wallet, holds[h].amount) \in WalletRow
           /\ Freed(wallet, holds[h].amount).balance = wallet.balance
           /\ Freed(wallet, holds[h].amount).reserved = wallet.reserved - holds[h].amount
           /\ HeldTotal' = Freed(wallet, holds[h].amount).reserved
<1>1. wallet \in WalletRow /\ holds \in Seq(Hold)
  BY DEF WalletInv, TypeOK
<1>2. holds[h].amount \in Nat
  BY Typing DEF WalletInv
<1>3. /\ HeldTotal' = HeldTotal - holds[h].amount
      /\ holds[h].amount <= HeldTotal
  BY <1>1, HeldWithoutOne
<1>4. wallet.reserved = HeldTotal
  BY DEF WalletInv, ReservedIsHeld
<1>5. /\ Freed(wallet, holds[h].amount) \in WalletRow
      /\ Freed(wallet, holds[h].amount).balance = wallet.balance
      /\ Freed(wallet, holds[h].amount).reserved = wallet.reserved - holds[h].amount
  BY <1>1, <1>2, <1>3, <1>4, FreedRow
<1>6. /\ holds' \in Seq(Hold)
      /\ Len(holds') = Len(holds)
      /\ \A k \in 1..Len(holds) :
            /\ holds'[k].amount = holds[k].amount
            /\ holds'[k].status = IF k = h THEN status ELSE holds[k].status
  BY <1>1, EndedHolds
<1> QED
  BY <1>3, <1>4, <1>5, <1>6

\* A hold ends without a charge: settled for nothing, released or expired.
LEMMA EndPreserves ==
    ASSUME WalletInv, NEW h \in 1..Len(holds), holds[h].status = "ACTIVE",
           NEW status \in HoldStatuses \ {"ACTIVE"}, holds' = Ended(h, status),
           wallet' = Freed(wallet, holds[h].amount), ledger' = ledger
    PROVE  WalletInv'
<1>1. /\ holds' \in Seq(Hold)
      /\ Len(holds') = Len(holds)
      /\ \A k \in 1..Len(holds) :
            /\ holds'[k].amount = holds[k].amount
            /\ holds'[k].status = IF k = h THEN status ELSE holds[k].status
      /\ wallet' \in WalletRow
      /\ wallet'.balance = wallet.balance
      /\ wallet'.reserved = wallet.reserved - holds[h].amount
      /\ HeldTotal' = wallet'.reserved
  BY EndingAHold
<1>2. /\ wallet.balance \in Int /\ wallet.reserved \in Nat /\ holds[h].amount \in Nat
      /\ Len(holds) \in Nat /\ Len(ledger) \in Nat
  BY Typing DEF WalletInv
<1>3. ReservedIsHeld'
  BY <1>1 DEF ReservedIsHeld
<1>4. Grows
  BY <1>1, <1>2 DEF Grows
<1>5. wallet'.balance < wallet'.reserved => wallet.balance < wallet.reserved
  BY <1>1, <1>2
<1> QED
  BY <1>1, <1>3, <1>4, <1>5, HoldsOnly

\* finalizeReservation with a charge: the hold is given back and one row, which
\* points at it, debits the balance.
LEMMA ChargePreserves ==
    ASSUME WalletInv, NEW h \in 1..Len(holds), NEW charge \in Nat,
           FinalizeWithCharge(h, charge)
    PROVE  WalletInv'
<1> DEFINE freed == Freed(wallet, holds[h].amount)
           row == LedgerRow(freed, "USAGE_CHARGE", -charge, h)
<1>1. /\ holds[h].status = "ACTIVE"
      /\ holds' = Ended(h, "FINALIZED")
      /\ wallet' = Applied(freed, "USAGE_CHARGE", -charge)
      /\ ledger' = Append(ledger, row)
  BY DEF FinalizeWithCharge
<1>2. /\ wallet.balance \in Int /\ wallet.reserved \in Nat /\ holds[h].amount \in Nat
      /\ Len(holds) \in Nat /\ Len(ledger) \in Nat
      /\ ledger \in Seq(LedgerEntry)
  BY Typing DEF WalletInv, TypeOK
<1>3. /\ holds' \in Seq(Hold)
      /\ Len(holds') = Len(holds)
      /\ \A k \in 1..Len(holds) :
            /\ holds'[k].amount = holds[k].amount
            /\ holds'[k].status = IF k = h THEN "FINALIZED" ELSE holds[k].status
      /\ freed \in WalletRow
      /\ freed.balance = wallet.balance
      /\ freed.reserved = wallet.reserved - holds[h].amount
      /\ HeldTotal' = freed.reserved
  BY <1>1, EndingAHold DEF HoldStatuses
<1> HIDE DEF freed
<1>4. -charge \in Int /\ h \in Nat /\ "USAGE_CHARGE" \in LedgerTypes
  BY <1>2 DEF LedgerTypes
<1>5. /\ wallet' \in WalletRow
      /\ wallet'.balance = Stored(Exact(freed.balance) + (-charge))
      /\ wallet'.reserved = freed.reserved
  BY <1>1, <1>3, <1>4, AppliedRow
<1>6. /\ row \in LedgerEntry /\ row.type = "USAGE_CHARGE" /\ row.ref = h
      /\ row.amount = Stored(-charge)
      /\ row.before = freed.balance
      /\ row.after = Stored(Exact(freed.balance) + (-charge))
  BY <1>3, <1>4, LedgerRowFields
<1> HIDE DEF row
<1>7. /\ ledger' \in Seq(LedgerEntry) /\ Len(ledger') = Len(ledger) + 1
      /\ \A i \in 1..Len(ledger) : ledger'[i] = ledger[i]
      /\ ledger'[Len(ledger) + 1] = row
  BY <1>1, <1>2, <1>6, OneMoreRow
<1>8. TypeOK'
  BY <1>3, <1>5, <1>7 DEF TypeOK
<1>9. ReservedIsHeld'
  BY <1>3, <1>5 DEF ReservedIsHeld
<1>10. LedgerChains'
  BY <1>1, <1>3, <1>5, <1>6, ChainGrows DEF WalletInv
<1>11. Grows
  BY <1>1, <1>2, <1>3, <1>7 DEF Grows
<1>12. OneChargePerHold'
  BY <1>1, <1>2, <1>3, <1>6, <1>7, NewChargeIsAlone DEF WalletInv
<1>13. OverspendHasACause'
  <2> SUFFICES ASSUME wallet'.balance < wallet'.reserved
               PROVE  \E i \in 1..Len(ledger') : Overdraws(i)'
    BY DEF OverspendHasACause
  <2>1. CASE wallet.balance < wallet.reserved
    <3>1. PICK i \in 1..Len(ledger) : Overdraws(i)
      BY <2>1 DEF WalletInv, OverspendHasACause
    <3> QED
      BY <3>1, <1>11, CausesStay DEF WalletInv
  <2>2. CASE ~(wallet.balance < wallet.reserved)
    <3>1. Stored(Exact(wallet.balance) - charge) >= wallet.balance + Stored(-charge)
      BY <1>2, StoredDebit
    <3>2. Exact(wallet.balance) \in Int
      BY <1>2, ExactInt
    <3>3. Exact(wallet.balance) + (-charge) = Exact(wallet.balance) - charge
      BY <3>2
    <3>4. wallet'.balance >= wallet.balance + Stored(-charge)
      BY <3>1, <3>3, <1>3, <1>5
    <3>5. Stored(-charge) \in Int /\ wallet'.balance \in Int /\ wallet'.reserved \in Nat
      BY <1>4, <1>5, StoredInt DEF WalletRow
    <3>6. -Stored(-charge) > holds[h].amount
      BY <2>2, <3>4, <3>5, <1>2, <1>3, <1>5, SMTT(30)
    <3>7. PICK n \in 1..Len(ledger') : ledger'[n] = row
      BY <1>2, <1>7
    <3>8. holds'[h].amount = holds[h].amount
      BY <1>3
    <3>9. Overdraws(n)'
      BY <1>6, <3>6, <3>7, <3>8 DEF Overdraws
    <3> QED
      BY <3>9
  <2> QED
    BY <2>1, <2>2
<1> QED
  BY <1>8, <1>9, <1>10, <1>12, <1>13 DEF WalletInv

\* The time to live of a hold passes.
LEMMA TtlPreserves ==
    ASSUME WalletInv, NEW h \in 1..Len(holds), TtlPasses(h)
    PROVE  WalletInv'
<1>1. /\ holds' = [holds EXCEPT ![h].overdue = TRUE]
      /\ wallet' = wallet /\ ledger' = ledger
  BY DEF TtlPasses
<1>2. wallet \in WalletRow /\ holds \in Seq(Hold) /\ holds[h] \in Hold
  BY Typing DEF WalletInv, TypeOK
<1>3. Len(holds) \in Nat /\ Len(ledger) \in Nat
  BY Typing DEF WalletInv
<1> DEFINE new == [holds[h] EXCEPT !.overdue = TRUE]
<1>4. new \in Hold /\ new.amount = holds[h].amount /\ new.status = holds[h].status
  BY <1>2 DEF Hold
<1>5. holds' = [holds EXCEPT ![h] = new]
  BY <1>1
<1> HIDE DEF new
<1>6. /\ holds' \in Seq(Hold) /\ Len(holds') = Len(holds)
      /\ \A k \in 1..Len(holds) : /\ holds'[k].amount = holds[k].amount
                                  /\ holds'[k].status = holds[k].status
  BY <1>2, <1>4, <1>5, ExceptSeq
<1>7. HeldTotal' = HeldTotal
  BY <1>2, <1>6, HeldAsBefore
<1>8. ReservedIsHeld'
  BY <1>1, <1>7 DEF WalletInv, ReservedIsHeld
<1>9. Grows
  BY <1>1, <1>3, <1>6 DEF Grows
<1> QED
  BY <1>1, <1>2, <1>6, <1>8, <1>9, HoldsOnly

\* updateWalletSettings.
LEMMA SettingsPreserve ==
    ASSUME WalletInv, NEW status \in WalletStatuses,
           NEW threshold \in Thresholds \cup {NoThreshold},
           UpdateWalletSettings(status, threshold)
    PROVE  WalletInv'
<1>1. /\ wallet' = [wallet EXCEPT !.status = status, !.suspendThreshold = threshold]
      /\ holds' = holds /\ ledger' = ledger
  BY DEF UpdateWalletSettings
<1>2. wallet \in WalletRow /\ holds \in Seq(Hold)
  BY DEF WalletInv, TypeOK
<1>3. /\ wallet' \in WalletRow
      /\ wallet'.balance = wallet.balance /\ wallet'.reserved = wallet.reserved
  BY <1>1, <1>2 DEF WalletRow
<1>4. ReservedIsHeld'
  BY <1>1, <1>3 DEF WalletInv, ReservedIsHeld, HeldTotal, HeldNow
<1>5. Len(holds) \in Nat /\ Len(ledger) \in Nat
  BY Typing DEF WalletInv
<1>6. Grows
  BY <1>1, <1>5 DEF Grows
<1> QED
  BY <1>1, <1>2, <1>3, <1>4, <1>6, HoldsOnly

-----------------------------------------------------------------------------
(* The invariant of the specification.                                     *)

\* The new wallet satisfies the invariant.
LEMMA InitInv == Init => WalletInv
<1> SUFFICES ASSUME Init PROVE WalletInv
  OBVIOUS
<1>1. /\ wallet = NewWallet /\ holds = <<>> /\ ledger = <<>>
      /\ Len(holds) = 0 /\ Len(ledger) = 0
  BY EmptySeq DEF Init
<1>2. TypeOK
  <2>1. NewWallet \in WalletRow
    BY DEF NewWallet, WalletRow, WalletStatuses
  <2> QED
    BY <1>1, <2>1, EmptySeq DEF TypeOK
<1>3. ReservedIsHeld
  <2>1. HeldTotal = 0
    BY <1>1, TotalZero DEF HeldTotal
  <2> QED
    BY <1>1, <2>1 DEF ReservedIsHeld, NewWallet
<1>4. LedgerChains /\ OneChargePerHold
  BY <1>1 DEF LedgerChains, OneChargePerHold, NewWallet
<1>5. OverspendHasACause
  BY <1>1 DEF OverspendHasACause, NewWallet
<1> QED
  BY <1>2, <1>3, <1>4, <1>5 DEF WalletInv

\* finalizeReservation, with or without a charge.
LEMMA FinalizePreserves ==
    ASSUME WalletInv, NEW h \in 1..Len(holds), NEW charge \in Charges,
           FinalizeReservation(h, charge)
    PROVE  WalletInv'
<1>1. charge \in Nat
  BY AmountsAssumption
<1>2. CASE charge = 0 /\ FinalizeForFree(h)
  BY <1>2, EndPreserves DEF FinalizeForFree, HoldStatuses
<1>3. CASE charge > 0 /\ FinalizeWithCharge(h, charge)
  BY <1>1, <1>3, ChargePreserves
<1> QED
  BY <1>2, <1>3 DEF FinalizeReservation

\* Every operation preserves the invariant.
LEMMA StepInv == WalletInv /\ [Next]_walletVars => WalletInv'
<1> SUFFICES ASSUME WalletInv, [Next]_walletVars PROVE WalletInv'
  OBVIOUS
<1>1. ASSUME NEW p \in Postings, PostTransaction(p.type, p.amount, p.allowNegative, 0)
      PROVE  WalletInv'
  <2>1. p.type \in LedgerTypes \ {"USAGE_CHARGE"} /\ p.amount \in Int
    BY AmountsAssumption
  <2> QED
    BY <1>1, <2>1, PostPreserves
<1>2. ASSUME NEW amount \in HoldAmounts, ReserveCredits(amount)
      PROVE  WalletInv'
  BY <1>2, AmountsAssumption, ReservePreserves
<1>3. ASSUME NEW h \in 1..Len(holds), NEW charge \in Charges,
             FinalizeReservation(h, charge)
      PROVE  WalletInv'
  BY <1>3, FinalizePreserves
<1>4. ASSUME NEW h \in 1..Len(holds), ReleaseReservation(h, "RELEASED")
      PROVE  WalletInv'
  BY <1>4, EndPreserves DEF ReleaseReservation, HoldStatuses
<1>5. ASSUME NEW h \in 1..Len(holds), TtlPasses(h)
      PROVE  WalletInv'
  BY <1>5, TtlPreserves
<1>6. ASSUME NEW h \in 1..Len(holds), ExpireStaleReservation(h)
      PROVE  WalletInv'
  BY <1>6, EndPreserves DEF ExpireStaleReservation, ReleaseReservation, HoldStatuses
<1>7. ASSUME NEW status \in WalletStatuses, NEW threshold \in Thresholds \cup {NoThreshold},
             UpdateWalletSettings(status, threshold)
      PROVE  WalletInv'
  BY <1>7, SettingsPreserve
<1>8. CASE UNCHANGED walletVars
  BY <1>8 DEF walletVars, WalletInv, TypeOK, ReservedIsHeld, HeldTotal, HeldNow,
              LedgerChains, OneChargePerHold, OverspendHasACause, Overdraws
<1> QED
  BY <1>1, <1>2, <1>3, <1>4, <1>5, <1>6, <1>7, <1>8 DEF Next

-----------------------------------------------------------------------------
(* What the modules that use the wallet need of it.                        *)

\* One more entry with a reference keeps the wallet's invariant.
LEMMA PostKeepsWallet ==
    ASSUME WalletInv, NEW type \in LedgerTypes \ {"USAGE_CHARGE"}, NEW amount \in Int,
           NEW allowNegative, NEW ref \in Nat,
           PostTransaction(type, amount, allowNegative, ref)
    PROVE  /\ WalletInv'
           /\ TypeOK /\ TypeOK'
           /\ LedgerRow(wallet, type, amount, ref) \in LedgerEntry
           /\ ledger' = Append(ledger, LedgerRow(wallet, type, amount, ref))
           /\ LedgerRow(wallet, type, amount, ref).type = type
           /\ LedgerRow(wallet, type, amount, ref).amount = Stored(amount)
           /\ LedgerRow(wallet, type, amount, ref).ref = ref
<1>1. WalletInv'
  BY PostPreserves
<1>2. TypeOK /\ TypeOK'
  BY <1>1 DEF WalletInv
<1>3. wallet \in WalletRow
  BY <1>2 DEF TypeOK
<1>4. type \in LedgerTypes
  OBVIOUS
<1> QED BY <1>1, <1>2, <1>3, <1>4, LedgerRowFields DEF PostTransaction

\* A whole number of units is stored as it is.
LEMMA UnitsStored ==
    ASSUME NEW b \in Int
    PROVE  Stored(Exact(b)) = b /\ Exact(b) \in Int
  BY SMT DEF Stored, Exact, Scale

\* A step that leaves the wallet alone.
LEMMA WalletStays ==
    ASSUME WalletInv, UNCHANGED walletVars
    PROVE  WalletInv' /\ TypeOK' /\ ledger' = ledger
<1>1. WalletInv'
  BY StepInv
<1>2. TypeOK'
  BY <1>1 DEF WalletInv
<1> QED BY <1>1, <1>2 DEF walletVars

-----------------------------------------------------------------------------
\* The wallet always satisfies its inductive invariant.
THEOREM WalletInvariant == Spec => []WalletInv
  BY InitInv, StepInv, PTL DEF Spec

\* The rows of wallet.service.ts are always well-typed; in particular the
\* reserved column and the magnitude aggregates never go below zero.
THEOREM TypeCorrect == Spec => []TypeOK
<1>1. WalletInv => TypeOK
  BY DEF WalletInv
<1> QED
  BY <1>1, WalletInvariant, PTL

\* The reserved column is always the sum of the ACTIVE holds: settle, release
\* and sweep give every hold back exactly once.
THEOREM ReservedCorrect == Spec => []ReservedIsHeld
<1>1. WalletInv => ReservedIsHeld
  BY DEF WalletInv
<1> QED
  BY <1>1, WalletInvariant, PTL

\* No balance ever changes without a ledger row that carries it.
THEOREM ChainCorrect == Spec => []LedgerChains
<1>1. WalletInv => LedgerChains
  BY DEF WalletInv
<1> QED
  BY <1>1, WalletInvariant, PTL

\* No request is charged twice, and none whose hold was released or expired.
THEOREM ChargedOnce == Spec => []OneChargePerHold
<1>1. WalletInv => OneChargePerHold
  BY DEF WalletInv
<1> QED
  BY <1>1, WalletInvariant, PTL

\* The balance covers everything on hold, unless a charge exceeded its own hold
\* or somebody debited the wallet: concurrent reservations cannot overspend it.
THEOREM NoOverspend == Spec => []OverspendHasACause
<1>1. WalletInv => OverspendHasACause
  BY DEF WalletInv
<1> QED
  BY <1>1, WalletInvariant, PTL

-----------------------------------------------------------------------------
(* The books, when no amount is a half-unit: on such an amount the balance *)
(* and the ledger row may round apart (run wallet_books).                  *)

\* No amount that callers pass in is a half-unit.
NoTies ==
    /\ \A charge \in Charges : ~IsTie(charge)
    /\ \A p \in Postings : ~IsTie(p.amount)

\* A ledger that a step leaves alone, or prolongs by one row for the amount
\* that the balance moves by, with no half-unit in it.
Booked ==
    \/ ledger' = ledger /\ wallet'.balance = wallet.balance
    \/ \E row \in LedgerEntry, amount \in Int :
          /\ ~IsTie(amount)
          /\ ledger' = Append(ledger, row)
          /\ row.amount = Stored(amount)
          /\ wallet'.balance = Stored(Exact(wallet.balance) + amount)

\* A debit is a half-unit exactly when its size is.
LEMMA TieOfDebit ==
    ASSUME NEW x \in Int, ~IsTie(x)
    PROVE  ~IsTie(-x)
  BY SMT DEF IsTie, Scale

\* One more row adds its amount to the sum of the ledger.
LEMMA LedgerTotalGrows ==
    ASSUME ledger \in Seq(LedgerEntry), NEW row \in LedgerEntry,
           ledger' = Append(ledger, row)
    PROVE  LedgerTotal' = LedgerTotal + row.amount
<1> DEFINE n == Len(ledger)
           f == [i \in 1..n |-> ledger[i].amount]
           g == [i \in 1..(n + 1) |-> ledger'[i].amount]
<1>1. /\ n \in Nat
      /\ Len(ledger') = n + 1
      /\ \A i \in 1..n : ledger'[i] = ledger[i]
      /\ ledger'[n + 1] = row
  BY OneMoreRow
<1>2. LedgerTotal = Total(f, n) /\ LedgerTotal' = Total(g, n + 1)
  BY <1>1 DEF LedgerTotal
<1>3. \A i \in 1..n : g[i] = f[i]
  BY <1>1
<1>4. g[n + 1] = row.amount
  BY <1>1
<1> HIDE DEF f, g, n
<1>5. Total(g, n + 1) = Total(g, (n + 1) - 1) + g[n + 1]
  BY <1>1, TotalStep
<1>6. (n + 1) - 1 = n /\ Total(g, n) = Total(f, n)
  BY <1>1, <1>3, TotalSame
<1> QED
  BY <1>2, <1>4, <1>5, <1>6

\* A booked step keeps the books.
LEMMA BookedReconciles ==
    ASSUME TypeOK, BooksReconcile, Booked
    PROVE  BooksReconcile'
<1>1. CASE ledger' = ledger /\ wallet'.balance = wallet.balance
  BY <1>1 DEF BooksReconcile, LedgerTotal
<1>2. CASE \E row \in LedgerEntry, amount \in Int :
              /\ ~IsTie(amount)
              /\ ledger' = Append(ledger, row)
              /\ row.amount = Stored(amount)
              /\ wallet'.balance = Stored(Exact(wallet.balance) + amount)
  <2>1. PICK row \in LedgerEntry, amount \in Int :
              /\ ~IsTie(amount)
              /\ ledger' = Append(ledger, row)
              /\ row.amount = Stored(amount)
              /\ wallet'.balance = Stored(Exact(wallet.balance) + amount)
    BY <1>2
  <2>2. LedgerTotal' = LedgerTotal + row.amount
    BY <2>1, LedgerTotalGrows DEF TypeOK
  <2>3. wallet'.balance = wallet.balance + Stored(amount)
    BY <2>1, Typing, StoredShift
  <2> QED
    BY <2>1, <2>2, <2>3 DEF BooksReconcile
<1> QED
  BY <1>1, <1>2 DEF Booked

\* An entry of applyTransaction is booked.
LEMMA EntryIsBooked ==
    ASSUME NEW w \in WalletRow, NEW type \in LedgerTypes, NEW amount \in Int,
           NEW ref \in Nat, ~IsTie(amount), w.balance = wallet.balance,
           wallet' = Applied(w, type, amount),
           ledger' = Append(ledger, LedgerRow(w, type, amount, ref))
    PROVE  Booked
<1>1. /\ LedgerRow(w, type, amount, ref) \in LedgerEntry
      /\ LedgerRow(w, type, amount, ref).amount = Stored(amount)
  BY LedgerRowFields
<1>2. wallet'.balance = Stored(Exact(wallet.balance) + amount)
  BY AppliedRow
<1> QED
  BY <1>1, <1>2 DEF Booked

\* Every step is booked.
LEMMA StepIsBooked ==
    ASSUME NoTies, WalletInv, [Next]_walletVars
    PROVE  Booked
<1>1. wallet \in WalletRow /\ \A k \in 1..Len(holds) : holds[k].amount \in Nat /\ k \in Nat
  BY Typing DEF WalletInv, TypeOK
<1>2. \A k \in 1..Len(holds) : /\ Freed(wallet, holds[k].amount) \in WalletRow
                               /\ Freed(wallet, holds[k].amount).balance = wallet.balance
  BY <1>1, FreedRow
<1>3. ASSUME NEW p \in Postings, PostTransaction(p.type, p.amount, p.allowNegative, 0)
      PROVE  Booked
  <2>1. p.type \in LedgerTypes /\ p.amount \in Int /\ ~IsTie(p.amount)
    BY AmountsAssumption DEF NoTies
  <2> QED
    BY <1>1, <1>3, <2>1, EntryIsBooked DEF PostTransaction
<1>4. ASSUME NEW amount \in HoldAmounts, ReserveCredits(amount)
      PROVE  Booked
  BY <1>1, <1>4 DEF Booked, ReserveCredits, WalletRow
<1>5. ASSUME NEW h \in 1..Len(holds), NEW charge \in Charges,
             FinalizeReservation(h, charge)
      PROVE  Booked
  <2>1. CASE FinalizeForFree(h)
    BY <1>2, <2>1 DEF FinalizeForFree, Booked
  <2>2. CASE FinalizeWithCharge(h, charge)
    <3>1. charge \in Int /\ -charge \in Int /\ ~IsTie(-charge)
      BY AmountsAssumption, TieOfDebit DEF NoTies
    <3> QED
      BY <1>1, <1>2, <2>2, <3>1, EntryIsBooked DEF FinalizeWithCharge, LedgerTypes
  <2> QED
    BY <1>5, <2>1, <2>2 DEF FinalizeReservation
<1>6. ASSUME NEW h \in 1..Len(holds), NEW status, ReleaseReservation(h, status)
      PROVE  Booked
  BY <1>2, <1>6 DEF ReleaseReservation, Booked
<1>7. ASSUME NEW h \in 1..Len(holds), TtlPasses(h)
      PROVE  Booked
  BY <1>7 DEF TtlPasses, Booked
<1>8. ASSUME NEW status, NEW threshold, UpdateWalletSettings(status, threshold)
      PROVE  Booked
  BY <1>1, <1>8 DEF UpdateWalletSettings, Booked, WalletRow
<1>9. CASE UNCHANGED walletVars
  BY <1>9 DEF walletVars, Booked
<1> QED
  BY <1>3, <1>4, <1>5, <1>6, <1>7, <1>8, <1>9 DEF Next, ExpireStaleReservation

\* wallet.balance === SUM(ledger.amount) at all times (wallet.service.ts:44),
\* as long as no caller passes in a half-unit.
THEOREM BooksCorrect ==
    ASSUME NoTies
    PROVE  Spec => []BooksReconcile
<1>1. Init => BooksReconcile
  BY EmptySeq, TotalZero DEF Init, NewWallet, BooksReconcile, LedgerTotal
<1>2. WalletInv /\ BooksReconcile /\ [Next]_walletVars => BooksReconcile'
  BY StepIsBooked, BookedReconciles DEF WalletInv
<1> QED
  BY <1>1, <1>2, WalletInvariant, PTL DEF Spec

-----------------------------------------------------------------------------
(* The lifetime aggregates.  A column of magnitudes rounds as its ledger   *)
(* rows do, half-units included; the signed one only without them.         *)

Magnitudes == {"totalPurchased", "totalConsumed", "totalRefunded"}
Aggregates == Magnitudes \cup {"totalAdjusted"}

\* The column is the sum of what its rows contribute.
Mirrors(column) == wallet[column] = Mirrored(column)

\* No posting that is booked on the signed column is a half-unit.
WholeAdjustments ==
    \A p \in Postings : AggregateOf(p.type) = "totalAdjusted" => ~IsTie(p.amount)

\* The columns that a step leaves alone or moves together with one ledger row.
Entered(columns) ==
    \/ ledger' = ledger /\ \A column \in columns : wallet'[column] = wallet[column]
    \/ \E row \in LedgerEntry, amount \in Int :
          /\ "totalAdjusted" \in columns /\ AggregateOf(row.type) = "totalAdjusted"
                => ~IsTie(amount)
          /\ ledger' = Append(ledger, row)
          /\ row.amount = Stored(amount)
          /\ \A column \in columns :
                wallet'[column] =
                    IF AggregateOf(row.type) = column
                    THEN Stored(Exact(wallet[column]) + AggregateDelta(row.type, amount))
                    ELSE wallet[column]

\* Contributions are integers.
LEMMA ContributionInt ==
    ASSUME NEW row \in LedgerEntry
    PROVE  AggregateDelta(row.type, row.amount) \in Int
  BY DEF AggregateDelta, Abs, LedgerEntry

\* One more row adds its contribution to the sum of a column.
LEMMA MirroredGrows ==
    ASSUME ledger \in Seq(LedgerEntry), NEW row \in LedgerEntry, NEW column,
           ledger' = Append(ledger, row)
    PROVE  Mirrored(column)' = Mirrored(column)
                + IF AggregateOf(row.type) = column
                  THEN AggregateDelta(row.type, row.amount) ELSE 0
<1> DEFINE n == Len(ledger)
           f == [i \in 1..n |-> Contribution(i, column)]
           g == [i \in 1..(n + 1) |-> Contribution(i, column)']
<1>1. /\ n \in Nat
      /\ Len(ledger') = n + 1
      /\ \A i \in 1..n : ledger'[i] = ledger[i]
      /\ ledger'[n + 1] = row
  BY OneMoreRow
<1>2. Mirrored(column) = Total(f, n) /\ Mirrored(column)' = Total(g, n + 1)
  BY <1>1 DEF Mirrored
<1>3. \A i \in 1..n : g[i] = f[i]
  BY <1>1 DEF Contribution
<1>4. g[n + 1] = IF AggregateOf(row.type) = column
                 THEN AggregateDelta(row.type, row.amount) ELSE 0
  BY <1>1 DEF Contribution
<1> HIDE DEF f, g, n
<1>5. Total(g, n + 1) = Total(g, (n + 1) - 1) + g[n + 1]
  BY <1>1, TotalStep
<1>6. (n + 1) - 1 = n /\ Total(g, n) = Total(f, n)
  BY <1>1, <1>3, TotalSame
<1> QED
  BY <1>2, <1>4, <1>5, <1>6

\* What an entry adds to its column is what its ledger row contributes.
LEMMA AggregateRounds ==
    ASSUME NEW w \in WalletRow, NEW type, NEW amount \in Int,
           AggregateOf(type) = "totalAdjusted" => ~IsTie(amount)
    PROVE  Stored(Exact(w[AggregateOf(type)]) + AggregateDelta(type, amount))
             = w[AggregateOf(type)] + AggregateDelta(type, Stored(amount))
<1>1. CASE AggregateOf(type) = "totalAdjusted"
  <2>1. w.totalAdjusted \in Int
    BY DEF WalletRow
  <2>2. Stored(Exact(w.totalAdjusted) + amount) = w.totalAdjusted + Stored(amount)
    BY <1>1, <2>1, StoredShift
  <2> QED
    BY <1>1, <2>2 DEF AggregateDelta
<1>2. CASE AggregateOf(type) # "totalAdjusted"
  <2>1. w[AggregateOf(type)] \in Nat
    BY <1>2 DEF AggregateOf, WalletRow
  <2>2. Abs(amount) \in Nat
    BY DEF Abs
  <2>3. Stored(Exact(w[AggregateOf(type)]) + Abs(amount))
          = w[AggregateOf(type)] + Stored(Abs(amount))
    BY <2>1, <2>2, StoredShiftNat
  <2> QED
    BY <1>2, <2>3, StoredAbs DEF AggregateDelta
<1> QED
  BY <1>1, <1>2

\* An entered step keeps the columns mirrored.
LEMMA EnteredMirrors ==
    ASSUME TypeOK, NEW columns \in SUBSET Aggregates, Entered(columns),
           \A column \in columns : Mirrors(column)
    PROVE  \A column \in columns : Mirrors(column)'
<1>1. CASE ledger' = ledger /\ \A column \in columns : wallet'[column] = wallet[column]
  BY <1>1 DEF Mirrors, Mirrored, Contribution
<1>2. ASSUME NEW row \in LedgerEntry, NEW amount \in Int,
             "totalAdjusted" \in columns /\ AggregateOf(row.type) = "totalAdjusted"
                => ~IsTie(amount),
             ledger' = Append(ledger, row), row.amount = Stored(amount),
             NEW column \in columns,
             wallet'[column] =
                 IF AggregateOf(row.type) = column
                 THEN Stored(Exact(wallet[column]) + AggregateDelta(row.type, amount))
                 ELSE wallet[column]
      PROVE  Mirrors(column)'
  <2>1. wallet \in WalletRow /\ ledger \in Seq(LedgerEntry)
    BY DEF TypeOK
  <2>2. wallet[column] \in Int
    BY <2>1 DEF WalletRow, Aggregates, Magnitudes
  <2>3. Mirrored(column)' = Mirrored(column)
                + IF AggregateOf(row.type) = column
                  THEN AggregateDelta(row.type, row.amount) ELSE 0
    BY <1>2, <2>1, MirroredGrows
  <2>4. wallet[column] = Mirrored(column)
    BY DEF Mirrors
  <2>5. CASE AggregateOf(row.type) = column
    <3>1. wallet'[column] = wallet[column] + AggregateDelta(row.type, row.amount)
      BY <1>2, <2>1, <2>5, AggregateRounds
    <3> QED
      BY <2>3, <2>4, <2>5, <3>1 DEF Mirrors
  <2>6. CASE AggregateOf(row.type) # column
    <3>1. wallet'[column] = wallet[column]
      BY <1>2, <2>6
    <3>2. Mirrored(column)' = Mirrored(column)
      BY <2>2, <2>3, <2>4, <2>6
    <3> QED
      BY <2>4, <3>1, <3>2 DEF Mirrors
  <2> QED
    BY <2>5, <2>6
<1> QED
  BY <1>1, <1>2 DEF Entered

\* An entry of applyTransaction is entered.
LEMMA EntryIsEntered ==
    ASSUME NEW w \in WalletRow, NEW type \in LedgerTypes, NEW amount \in Int,
           NEW ref \in Nat, NEW columns \in SUBSET Aggregates,
           "totalAdjusted" \in columns /\ AggregateOf(type) = "totalAdjusted"
              => ~IsTie(amount),
           \A column \in columns : w[column] = wallet[column],
           wallet' = Applied(w, type, amount),
           ledger' = Append(ledger, LedgerRow(w, type, amount, ref))
    PROVE  Entered(columns)
<1>1. /\ LedgerRow(w, type, amount, ref) \in LedgerEntry
      /\ LedgerRow(w, type, amount, ref).amount = Stored(amount)
      /\ LedgerRow(w, type, amount, ref).type = type
  BY LedgerRowFields
<1>2. ASSUME NEW column \in columns
      PROVE  wallet'[column] =
                 IF AggregateOf(type) = column
                 THEN Stored(Exact(wallet[column]) + AggregateDelta(type, amount))
                 ELSE wallet[column]
  <2>1. column \in Aggregates /\ w[column] = wallet[column]
    OBVIOUS
  <2>2. Applied(w, type, amount)[column] =
            IF AggregateOf(type) = column
            THEN Stored(Exact(w[column]) + AggregateDelta(type, amount))
            ELSE w[column]
    BY <2>1 DEF Applied, WalletRow, Aggregates, Magnitudes
  <2> QED
    BY <2>1, <2>2
<1> QED
  BY <1>1, <1>2 DEF Entered

\* Every step is entered on the columns of magnitudes, and on all of them when
\* adjustments are no half-units.
LEMMA StepIsEntered ==
    ASSUME WalletInv, [Next]_walletVars, NEW columns \in SUBSET Aggregates,
           "totalAdjusted" \in columns => WholeAdjustments
    PROVE  Entered(columns)
<1>1. wallet \in WalletRow /\ \A k \in 1..Len(holds) : holds[k].amount \in Nat /\ k \in Nat
  BY Typing DEF WalletInv, TypeOK
<1>2. ASSUME NEW w, NEW value, w = [wallet EXCEPT !.reserved = value],
             NEW column \in Aggregates
      PROVE  w[column] = wallet[column]
  BY <1>1, <1>2 DEF WalletRow, Aggregates, Magnitudes
<1>3. \A k \in 1..Len(holds) :
         /\ Freed(wallet, holds[k].amount) \in WalletRow
         /\ \A column \in Aggregates :
               Freed(wallet, holds[k].amount)[column] = wallet[column]
  BY <1>1, <1>2, FreedRow
<1>4. ASSUME NEW p \in Postings, PostTransaction(p.type, p.amount, p.allowNegative, 0)
      PROVE  Entered(columns)
  <2>1. p.type \in LedgerTypes /\ p.amount \in Int
    BY AmountsAssumption
  <2>2. "totalAdjusted" \in columns /\ AggregateOf(p.type) = "totalAdjusted"
           => ~IsTie(p.amount)
    BY DEF WholeAdjustments
  <2> QED
    BY <1>1, <1>4, <2>1, <2>2, EntryIsEntered DEF PostTransaction
<1>5. ASSUME NEW amount \in HoldAmounts, ReserveCredits(amount)
      PROVE  Entered(columns)
  BY <1>2, <1>5 DEF Entered, ReserveCredits
<1>6. ASSUME NEW h \in 1..Len(holds), NEW charge \in Charges,
             FinalizeReservation(h, charge)
      PROVE  Entered(columns)
  <2>1. CASE FinalizeForFree(h)
    BY <1>3, <2>1 DEF FinalizeForFree, Entered
  <2>2. CASE FinalizeWithCharge(h, charge)
    <3>1. -charge \in Int /\ AggregateOf("USAGE_CHARGE") # "totalAdjusted"
      BY AmountsAssumption DEF AggregateOf
    <3>2. "USAGE_CHARGE" \in LedgerTypes /\ h \in Nat
      BY <1>1 DEF LedgerTypes
    <3> QED
      BY <1>3, <2>2, <3>1, <3>2, EntryIsEntered DEF FinalizeWithCharge
  <2> QED
    BY <1>6, <2>1, <2>2 DEF FinalizeReservation
<1>7. ASSUME NEW h \in 1..Len(holds), NEW status, ReleaseReservation(h, status)
      PROVE  Entered(columns)
  BY <1>3, <1>7 DEF ReleaseReservation, Entered
<1>8. ASSUME NEW h \in 1..Len(holds), TtlPasses(h)
      PROVE  Entered(columns)
  BY <1>8 DEF TtlPasses, Entered
<1>9. ASSUME NEW status, NEW threshold, UpdateWalletSettings(status, threshold)
      PROVE  Entered(columns)
  BY <1>1, <1>9 DEF UpdateWalletSettings, Entered, WalletRow, Aggregates, Magnitudes
<1>10. CASE UNCHANGED walletVars
  BY <1>10 DEF walletVars, Entered
<1> QED
  BY <1>4, <1>5, <1>6, <1>7, <1>8, <1>9, <1>10 DEF Next, ExpireStaleReservation

\* The new wallet has nothing to mirror.
LEMMA NewWalletMirrors ==
    ASSUME Init, NEW column \in Aggregates
    PROVE  Mirrors(column)
<1>1. Len(ledger) = 0
  BY EmptySeq DEF Init
<1>2. Mirrored(column) = 0
  BY <1>1, TotalZero DEF Mirrored
<1> QED
  BY <1>2 DEF Init, NewWallet, Mirrors, Aggregates, Magnitudes

\* What was purchased, consumed and refunded mirrors the ledger (aggregateDelta),
\* whatever the amounts: magnitudes and their sum round half-units alike.
THEOREM MagnitudesCorrect ==
    Spec => [](\A column \in Magnitudes : wallet[column] = Mirrored(column))
<1> DEFINE Kept == \A column \in Magnitudes : Mirrors(column)
<1>1. Init => Kept
  BY NewWalletMirrors DEF Aggregates
<1>2. WalletInv /\ Kept /\ [Next]_walletVars => Kept'
  <2>1. Magnitudes \in SUBSET Aggregates /\ "totalAdjusted" \notin Magnitudes
    BY DEF Aggregates, Magnitudes
  <2> QED
    BY <2>1, StepIsEntered, EnteredMirrors DEF WalletInv
<1>3. Kept => \A column \in Magnitudes : wallet[column] = Mirrored(column)
  BY DEF Mirrors
<1> HIDE DEF Kept
<1> QED
  BY <1>1, <1>2, <1>3, WalletInvariant, PTL DEF Spec

\* All lifetime aggregates mirror the ledger by type, as long as no posting on
\* the signed one is a half-unit.
THEOREM AggregatesCorrect ==
    ASSUME WholeAdjustments
    PROVE  Spec => []AggregatesMirror
<1> DEFINE Kept == \A column \in Aggregates : Mirrors(column)
<1>1. Init => Kept
  BY NewWalletMirrors
<1>2. WalletInv /\ Kept /\ [Next]_walletVars => Kept'
  BY StepIsEntered, EnteredMirrors DEF WalletInv
<1>3. Kept => AggregatesMirror
  BY DEF Mirrors, AggregatesMirror, Aggregates, Magnitudes
<1> HIDE DEF Kept
<1> QED
  BY <1>1, <1>2, <1>3, WalletInvariant, PTL DEF Spec
=============================================================================
