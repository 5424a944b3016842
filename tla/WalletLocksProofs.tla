------------------------- MODULE WalletLocksProofs --------------------------
(***************************************************************************)
(* The wallet's transactions implement the atomic wallet: for any number   *)
(* of callers and any amounts, what a transaction read and checked under   *)
(* its row locks is still so when it commits, hence every commit is one    *)
(* operation of module Wallet and every other step a stutter.              *)
(***************************************************************************)
EXTENDS WalletLocks, WalletProofs, FiniteSetTheorems

-----------------------------------------------------------------------------
(* The invariant.                                                          *)

OnHolds == {"finalize", "release", "expire"}
TxRow == [op : {"none", "post", "reserve"} \cup OnHolds,
          pc : {"idle", "lockHold", "lockWallet", "commit"}, hold : Nat, amount : Int,
          type : LedgerTypes, allowNegative : BOOLEAN, w : WalletRow,
          status : HoldStatuses]

\* The caller asked for an operation the wallet knows.
Asked(t) ==
    /\ t.op = "none" <=> t.pc = "idle"
    /\ t.op = "post" => \E p \in Postings : /\ p.type = t.type /\ p.amount = t.amount
                                            /\ p.allowNegative = t.allowNegative
    /\ t.op = "reserve" => t.amount \in HoldAmounts
    /\ t.op = "finalize" => t.amount \in Charges

\* What it knows of its hold: locked, the hold is ACTIVE; one that the sweep
\* listed is past its time for as long as it is ACTIVE.
KnowsHold(t) ==
    t.op \in OnHolds =>
        /\ t.hold \in 1..Len(holds)
        /\ t.pc \in {"lockWallet", "commit"} => holds[t.hold].status = "ACTIVE"
        /\ t.op = "expire" /\ holds[t.hold].status = "ACTIVE" => holds[t.hold].overdue

\* What it knows of the wallet: the row it read is the current one.
KnowsWallet(t) == t.pc = "commit" => t.w = wallet /\ Accepts(t, wallet)

OneLocksWallet ==
    \A c, d \in Callers : HoldsWallet(c) /\ HoldsWallet(d) => c = d
OneLocksHold ==
    \A c, d \in Callers : \A h \in Nat :
        HoldsReservation(c, h) /\ HoldsReservation(d, h) => c = d

\* Room is kept for what the running transactions may still write.
RoomKept ==
    /\ Len(ledger) + Running({"post", "finalize"}) <= MaxRows
    /\ Len(holds) + Running({"reserve"}) <= MaxHolds

LocksInv ==
    /\ WalletInv
    /\ tx \in [Callers -> TxRow]
    /\ \A c \in Callers : Asked(tx[c]) /\ KnowsHold(tx[c]) /\ KnowsWallet(tx[c])
    /\ OneLocksWallet
    /\ OneLocksHold
    /\ RoomKept

-----------------------------------------------------------------------------
(* Columns.                                                                *)

\* An UPDATE that names every column in which the computed row differs writes
\* the computed row.
LEMMA ColumnsWritten ==
    ASSUME NEW w \in WalletRow, NEW computed \in WalletRow, NEW columns,
           \A column \in DOMAIN w : column \notin columns => computed[column] = w[column]
    PROVE  WithColumns(w, computed, columns) = computed
<1>1. DOMAIN w = DOMAIN computed
  BY DEF WalletRow
<1>2. computed = [column \in DOMAIN computed |-> computed[column]]
  BY DEF WalletRow
<1>3. WithColumns(w, computed, columns) = [column \in DOMAIN w |-> computed[column]]
  BY DEF WithColumns
<1> QED BY <1>1, <1>2, <1>3

\* A ledger entry changes the columns its UPDATE names, and no other.
LEMMA EntryWritten ==
    ASSUME NEW w \in WalletRow, NEW type \in LedgerTypes, NEW amount \in Int,
           NEW column \in DOMAIN w, column \notin EntryColumns(w, type, amount)
    PROVE  Applied(w, type, amount)[column] = w[column]
<1>1. column # "balance" /\ column # AggregateOf(type)
  BY DEF EntryColumns
<1>2. column = "status" => ~ShouldSuspend(w, amount)
  BY DEF EntryColumns
<1>3. column \in {"reserved", "totalPurchased", "totalConsumed", "totalRefunded",
                  "totalAdjusted", "status", "suspendThreshold"}
  BY <1>1 DEF WalletRow
<1> QED BY <1>1, <1>2, <1>3 DEF Applied, WalletRow

\* The UPDATE of an entry writes the row of the atomic wallet.
LEMMA EntryUpdate ==
    ASSUME NEW w \in WalletRow, NEW type \in LedgerTypes, NEW amount \in Int
    PROVE  WithColumns(w, Applied(w, type, amount), EntryColumns(w, type, amount))
               = Applied(w, type, amount)
  BY AppliedRow, EntryWritten, ColumnsWritten

\* The UPDATE that gives a hold back writes the row of the atomic wallet.
LEMMA FreedUpdate ==
    ASSUME NEW w \in WalletRow, NEW amount \in Nat
    PROVE  WithColumns(w, Freed(w, amount), {"reserved"}) = Freed(w, amount)
<1> DEFINE freed == Freed(w, amount)
<1>1. freed \in WalletRow /\ freed = [w EXCEPT !.reserved = freed.reserved]
  BY FreedRow
<1> HIDE DEF freed
<1>2. \A column \in DOMAIN w : column \notin {"reserved"} => freed[column] = w[column]
  BY <1>1 DEF WalletRow
<1> QED BY <1>1, <1>2, ColumnsWritten DEF freed

\* So does the UPDATE that gives a hold back and charges it.
LEMMA ChargeUpdate ==
    ASSUME NEW w \in WalletRow, NEW amount \in Nat, NEW charge \in Int
    PROVE  LET freed == Freed(w, amount) IN
           WithColumns(w, Applied(freed, "USAGE_CHARGE", charge),
                       {"reserved"} \cup EntryColumns(freed, "USAGE_CHARGE", charge))
               = Applied(freed, "USAGE_CHARGE", charge)
<1> DEFINE freed == Freed(w, amount)
           columns == {"reserved"} \cup EntryColumns(freed, "USAGE_CHARGE", charge)
           row == Applied(freed, "USAGE_CHARGE", charge)
<1>1. freed \in WalletRow /\ freed = [w EXCEPT !.reserved = freed.reserved]
  BY FreedRow
<1>2. row \in WalletRow
  BY <1>1, AppliedRow DEF LedgerTypes
<1>3. ASSUME NEW column \in DOMAIN w, column \notin columns PROVE row[column] = w[column]
  <2>1. column \in DOMAIN freed /\ freed[column] = w[column]
    BY <1>1, <1>3 DEF WalletRow
  <2>2. column \notin EntryColumns(freed, "USAGE_CHARGE", charge)
    BY <1>3
  <2> HIDE DEF freed
  <2>3. row[column] = freed[column]
    BY <1>1, <2>1, <2>2, EntryWritten DEF LedgerTypes
  <2> QED BY <2>1, <2>3
<1> HIDE DEF freed, columns, row
<1>4. WithColumns(w, row, columns) = row
  BY <1>2, <1>3, ColumnsWritten
<1> QED BY <1>4 DEF freed, columns, row

-----------------------------------------------------------------------------
(* The transactions.                                                       *)

\* How many transactions run an operation, when one of them moves on.
LEMMA RunningAfter ==
    ASSUME tx \in [Callers -> TxRow], NEW c \in Callers, NEW t \in TxRow,
           tx' = [tx EXCEPT ![c] = t], NEW ops
    PROVE  /\ Running(ops) \in Nat /\ Running(ops)' \in Nat
           /\ Running(ops)' <= Running(ops) + 1
           /\ t.op \notin ops \/ tx[c].op \in ops => Running(ops)' <= Running(ops)
           /\ t.op \notin ops /\ tx[c].op \in ops => Running(ops)' + 1 <= Running(ops)
<1> DEFINE S == {d \in Callers : tx[d].op \in ops}
           T == {d \in Callers : tx'[d].op \in ops}
<1>1. Running(ops) = Cardinality(S) /\ Running(ops)' = Cardinality(T)
  BY DEF Running
<1>2. IsFiniteSet(S) /\ IsFiniteSet(T)
  BY CallersAssumption, FS_Subset
<1>3. tx'[c] = t /\ \A d \in Callers \ {c} : tx'[d] = tx[d]
  OBVIOUS
<1>4. T \subseteq S \cup {c} /\ (t.op \notin ops => T \subseteq S \ {c})
  BY <1>3
<1>5. tx[c].op \in ops => c \in S
  OBVIOUS
<1> HIDE DEF S, T
<1>6. /\ Cardinality(S) \in Nat /\ Cardinality(T) \in Nat
      /\ IsFiniteSet(S \cup {c}) /\ IsFiniteSet(S \ {c})
  BY <1>2, FS_CardinalityType, FS_AddElement, FS_RemoveElement
<1>7. Cardinality(T) <= Cardinality(S) + 1
  <2>1. Cardinality(S \cup {c}) <= Cardinality(S) + 1
    BY <1>2, <1>6, FS_AddElement
  <2>2. Cardinality(T) <= Cardinality(S \cup {c}) /\ Cardinality(S \cup {c}) \in Nat
    BY <1>4, <1>6, FS_Subset, FS_CardinalityType
  <2> QED BY <1>6, <2>1, <2>2
<1>8. t.op \notin ops \/ tx[c].op \in ops => Cardinality(T) <= Cardinality(S)
  <2>1. t.op \notin ops \/ tx[c].op \in ops => T \subseteq S
    BY <1>4, <1>5
  <2> QED BY <1>2, <2>1, FS_Subset
<1>9. t.op \notin ops /\ tx[c].op \in ops => Cardinality(T) + 1 <= Cardinality(S)
  <2> SUFFICES ASSUME t.op \notin ops, tx[c].op \in ops
               PROVE  Cardinality(T) + 1 <= Cardinality(S)
    OBVIOUS
  <2>1. Cardinality(S \ {c}) = Cardinality(S) - 1
    BY <1>2, <1>5, FS_RemoveElement
  <2>2. Cardinality(T) <= Cardinality(S \ {c})
    BY <1>4, <1>6, FS_Subset
  <2> QED BY <1>6, <2>1, <2>2
<1> QED BY <1>1, <1>6, <1>7, <1>8, <1>9

\* A running transaction is counted.
LEMMA SomeRun ==
    ASSUME NEW c \in Callers, NEW ops, tx[c].op \in ops
    PROVE  Running(ops) \in Nat \ {0}
<1> DEFINE S == {d \in Callers : tx[d].op \in ops}
<1>1. IsFiniteSet(S) /\ c \in S
  BY CallersAssumption, FS_Subset
<1> HIDE DEF S
<1>2. Cardinality(S) \in Nat /\ Cardinality(S) # 0
  BY <1>1, FS_CardinalityType, FS_EmptySet
<1> QED BY <1>2 DEF S, Running

\* No transaction.
LEMMA IdleRow ==
    /\ Idle \in TxRow /\ Idle.op = "none" /\ Idle.pc = "idle" /\ Idle.hold = 0
    /\ Asked(Idle)
<1>1. NewWallet \in WalletRow
  BY DEF NewWallet, WalletRow, WalletStatuses
<1>2. Idle \in TxRow /\ Idle.op = "none" /\ Idle.pc = "idle" /\ Idle.hold = 0
  BY <1>1 DEF Idle, TxRow, OnHolds, LedgerTypes, HoldStatuses
<1> QED BY <1>2 DEF Asked

\* A step of one transaction that writes nothing yet.
LEMMA TxMoves ==
    ASSUME LocksInv, NEW c \in Callers, NEW t \in TxRow,
           tx' = [tx EXCEPT ![c] = t], UNCHANGED walletVars,
           Asked(t), KnowsHold(t), KnowsWallet(t),
           t.pc = "commit" => WalletFree,
           t.op \in OnHolds /\ t.pc \in {"lockWallet", "commit"} =>
               HoldsReservation(c, t.hold) \/ ReservationFree(t.hold),
           t.op \in {"post", "finalize"} => tx[c].op \in {"post", "finalize"} \/ RoomForRow,
           t.op = "reserve" => tx[c].op = "reserve" \/ RoomForHold
    PROVE  LocksInv'
<1>1. WalletInv' /\ UNCHANGED <<wallet, holds, ledger>>
  BY StepInv DEF LocksInv, walletVars
<1>2. /\ tx \in [Callers -> TxRow] /\ tx' \in [Callers -> TxRow]
      /\ tx'[c] = t /\ \A d \in Callers \ {c} : tx'[d] = tx[d]
  BY DEF LocksInv
<1>3. \A d \in Callers : (Asked(tx[d]) /\ KnowsHold(tx[d]) /\ KnowsWallet(tx[d]))'
  <2>1. ASSUME NEW d \in Callers
        PROVE  Asked(tx'[d]) /\ KnowsHold(tx'[d]) /\ KnowsWallet(tx'[d])
    <3>1. CASE d = c
      BY <1>2, <3>1
    <3>2. CASE d # c
      BY <1>2, <3>2 DEF LocksInv
    <3> QED BY <3>1, <3>2
  <2>2. \A d \in Callers : Asked(tx[d])'
    BY <2>1 DEF Asked
  <2>3. \A d \in Callers : KnowsHold(tx[d])'
    BY <1>1, <2>1 DEF KnowsHold
  <2>4. \A d \in Callers : KnowsWallet(tx[d])'
    BY <1>1, <2>1 DEF KnowsWallet, Accepts
  <2> QED BY <2>2, <2>3, <2>4
<1>4. OneLocksWallet'
  BY <1>2 DEF LocksInv, OneLocksWallet, HoldsWallet, WalletFree
<1>5. OneLocksHold'
  <2> SUFFICES ASSUME NEW a \in Callers, NEW b \in Callers, NEW h \in Nat,
                      HoldsReservation(a, h)', HoldsReservation(b, h)'
               PROVE  a = b
    BY DEF OneLocksHold
  <2>1. ASSUME NEW d \in Callers \ {c}, HoldsReservation(c, h)', HoldsReservation(d, h)'
        PROVE  FALSE
    <3>1. t.hold = h /\ t.op \in OnHolds /\ t.pc \in {"lockWallet", "commit"}
      BY <1>2, <2>1 DEF HoldsReservation, OnHolds
    <3>2. HoldsReservation(d, h)
      BY <1>2, <2>1 DEF HoldsReservation
    <3> QED BY <3>1, <3>2 DEF ReservationFree, LocksInv, OneLocksHold
  <2>2. CASE a # c /\ b # c
    BY <1>2, <2>2 DEF HoldsReservation, LocksInv, OneLocksHold
  <2> QED BY <2>1, <2>2
<1>6. RoomKept'
  <2>1. Len(ledger) \in Nat /\ Len(holds) \in Nat /\ MaxRows \in Nat /\ MaxHolds \in Nat
    BY Typing, BoundsAssumption DEF LocksInv, WalletInv
  <2>2. ASSUME NEW ops
        PROVE  /\ Running(ops) \in Nat /\ Running(ops)' \in Nat
               /\ Running(ops)' <= Running(ops) + 1
               /\ t.op \notin ops \/ tx[c].op \in ops => Running(ops)' <= Running(ops)
    BY <1>2, RunningAfter
  <2>3. Len(ledger) + Running({"post", "finalize"})' <= MaxRows
    <3> DEFINE old == Running({"post", "finalize"})
               new == Running({"post", "finalize"})'
    <3>1. /\ old \in Nat /\ new \in Nat /\ new <= old + 1
          /\ new <= old \/ Len(ledger) + old < MaxRows
      BY <2>2 DEF RoomForRow
    <3>2. Len(ledger) + old <= MaxRows
      BY DEF LocksInv, RoomKept
    <3> HIDE DEF old, new
    <3>3. Len(ledger) + new <= MaxRows
      BY <2>1, <3>1, <3>2
    <3> QED BY <3>3 DEF new
  <2>4. Len(holds) + Running({"reserve"})' <= MaxHolds
    <3> DEFINE old == Running({"reserve"})
               new == Running({"reserve"})'
    <3>1. /\ old \in Nat /\ new \in Nat /\ new <= old + 1
          /\ new <= old \/ Len(holds) + old < MaxHolds
      BY <2>2 DEF RoomForHold
    <3>2. Len(holds) + old <= MaxHolds
      BY DEF LocksInv, RoomKept
    <3> HIDE DEF old, new
    <3>3. Len(holds) + new <= MaxHolds
      BY <2>1, <3>1, <3>2
    <3> QED BY <3>3 DEF new
  <2> QED BY <1>1, <2>3, <2>4 DEF RoomKept
<1> QED BY <1>1, <1>2, <1>3, <1>4, <1>5, <1>6 DEF LocksInv

\* A transaction begins.
LEMMA Begins ==
    ASSUME LocksInv, NEW c \in Callers, NEW t \in TxRow, Begin(c, t),
           Asked(t), KnowsHold(t), t.pc \in {"lockHold", "lockWallet"},
           t.pc = "lockWallet" => t.op \notin OnHolds,
           t.op \in {"post", "finalize"} => RoomForRow,
           t.op = "reserve" => RoomForHold
    PROVE  LocksInv'
<1>1. KnowsWallet(t)
  BY DEF KnowsWallet
<1> QED BY <1>1, TxMoves DEF Begin

\* A transaction is over without having written anything.
LEMMA RollsBack ==
    ASSUME LocksInv, NEW c \in Callers, Finished(c), UNCHANGED walletVars
    PROVE  LocksInv'
<1>1. KnowsHold(Idle) /\ KnowsWallet(Idle)
  BY IdleRow DEF KnowsHold, KnowsWallet, OnHolds
<1> QED BY <1>1, IdleRow, TxMoves DEF Finished, OnHolds

\* The steps of a transaction before its commit.
LEMMA BeginsInv ==
    ASSUME LocksInv, NEW c \in Callers,
           \/ \E p \in Postings : BeginPost(c, p)
           \/ \E amount \in HoldAmounts : BeginReserve(c, amount)
           \/ \E h \in 1..Len(holds) :
                 \/ \E charge \in Charges : BeginFinalize(c, h, charge)
                 \/ BeginRelease(c, h)
                 \/ BeginExpire(c, h)
    PROVE  LocksInv'
<1>1. ASSUME NEW p \in Postings, BeginPost(c, p) PROVE LocksInv'
  <2> DEFINE t == [Idle EXCEPT !.op = "post", !.pc = "lockWallet", !.type = p.type,
                               !.amount = p.amount, !.allowNegative = p.allowNegative]
  <2>1. p.type \in LedgerTypes /\ p.amount \in Int /\ p.allowNegative \in BOOLEAN
    BY AmountsAssumption
  <2>2. /\ t \in TxRow /\ t.op = "post" /\ t.pc = "lockWallet" /\ t.type = p.type
        /\ t.amount = p.amount /\ t.allowNegative = p.allowNegative
    BY <2>1, IdleRow DEF TxRow
  <2>3. Begin(c, t) /\ RoomForRow
    BY <1>1 DEF BeginPost
  <2> HIDE DEF t
  <2>4. Asked(t) /\ KnowsHold(t)
    BY <2>2 DEF Asked, KnowsHold, OnHolds
  <2> QED BY <2>2, <2>3, <2>4, Begins DEF OnHolds
<1>2. ASSUME NEW amount \in HoldAmounts, BeginReserve(c, amount) PROVE LocksInv'
  <2> DEFINE t == [Idle EXCEPT !.op = "reserve", !.pc = "lockWallet", !.amount = amount]
  <2>1. amount \in Int
    BY AmountsAssumption
  <2>2. t \in TxRow /\ t.op = "reserve" /\ t.pc = "lockWallet" /\ t.amount = amount
    BY <2>1, IdleRow DEF TxRow
  <2>3. Begin(c, t) /\ RoomForHold
    BY <1>2 DEF BeginReserve
  <2> HIDE DEF t
  <2>4. Asked(t) /\ KnowsHold(t)
    BY <2>2 DEF Asked, KnowsHold, OnHolds
  <2> QED BY <2>2, <2>3, <2>4, Begins DEF OnHolds
<1>3. ASSUME NEW h \in 1..Len(holds), NEW t \in TxRow, Begin(c, t),
             t.op \in OnHolds, t.pc = "lockHold", t.hold = h,
             t.op = "finalize" => t.amount \in Charges /\ RoomForRow,
             t.op = "expire" => holds[h].overdue
      PROVE  LocksInv'
  <2>1. Asked(t) /\ KnowsHold(t)
    BY <1>3 DEF Asked, KnowsHold, OnHolds
  <2> QED BY <1>3, <2>1, Begins DEF OnHolds
<1>4. \A h \in 1..Len(holds) : h \in Nat
  BY Typing DEF LocksInv, WalletInv
<1>5. ASSUME NEW h \in 1..Len(holds), NEW charge \in Charges, BeginFinalize(c, h, charge)
      PROVE  LocksInv'
  <2> DEFINE t == [Idle EXCEPT !.op = "finalize", !.pc = "lockHold", !.hold = h,
                               !.amount = charge]
  <2>1. charge \in Int
    BY AmountsAssumption
  <2>2. /\ t \in TxRow /\ t.op = "finalize" /\ t.pc = "lockHold" /\ t.hold = h
        /\ t.amount = charge
    BY <1>4, <2>1, IdleRow DEF TxRow, OnHolds
  <2>3. Begin(c, t) /\ RoomForRow
    BY <1>5 DEF BeginFinalize
  <2> HIDE DEF t
  <2> QED BY <1>3, <2>2, <2>3 DEF OnHolds
<1>6. ASSUME NEW h \in 1..Len(holds), NEW op \in {"release", "expire"},
             op = "expire" => holds[h].overdue,
             Begin(c, [Idle EXCEPT !.op = op, !.pc = "lockHold", !.hold = h])
      PROVE  LocksInv'
  <2> DEFINE t == [Idle EXCEPT !.op = op, !.pc = "lockHold", !.hold = h]
  <2>1. t \in TxRow /\ t.op = op /\ t.pc = "lockHold" /\ t.hold = h
    BY <1>4, IdleRow DEF TxRow, OnHolds
  <2>2. Begin(c, t)
    BY <1>6
  <2> HIDE DEF t
  <2> QED BY <1>3, <1>6, <2>1, <2>2 DEF OnHolds
<1>7. ASSUME NEW h \in 1..Len(holds), BeginRelease(c, h) \/ BeginExpire(c, h)
      PROVE  LocksInv'
  BY <1>6, <1>7 DEF BeginRelease, BeginExpire
<1> QED BY <1>1, <1>2, <1>5, <1>7

LEMMA LockReservationInv ==
    ASSUME LocksInv, NEW c \in Callers, LockReservation(c)
    PROVE  LocksInv'
<1> DEFINE h == tx[c].hold
           t == [tx[c] EXCEPT !.pc = "lockWallet", !.status = holds[h].status]
<1>1. /\ tx[c] \in TxRow /\ tx[c].pc = "lockHold" /\ ReservationFree(h)
      /\ UNCHANGED walletVars /\ Asked(tx[c]) /\ KnowsHold(tx[c])
  BY DEF LockReservation, LocksInv
<1>2. CASE holds[h].status # "ACTIVE"
  BY <1>1, <1>2, RollsBack DEF LockReservation
<1>3. CASE holds[h].status = "ACTIVE"
  <2>1. tx' = [tx EXCEPT ![c] = t]
    BY <1>1, <1>3 DEF LockReservation, LocksInv
  <2>2. /\ t \in TxRow /\ t.op = tx[c].op /\ t.pc = "lockWallet" /\ t.hold = h
        /\ t.amount = tx[c].amount /\ t.type = tx[c].type
        /\ t.allowNegative = tx[c].allowNegative
    BY <1>1, <1>3 DEF TxRow, HoldStatuses
  <2> HIDE DEF t
  <2>3. Asked(t) /\ KnowsHold(t) /\ KnowsWallet(t)
    BY <1>1, <1>3, <2>2 DEF Asked, KnowsHold, KnowsWallet
  <2> QED BY <1>1, <2>1, <2>2, <2>3, TxMoves
<1> QED BY <1>2, <1>3

LEMMA LockWalletInv ==
    ASSUME LocksInv, NEW c \in Callers, LockWallet(c)
    PROVE  LocksInv'
<1> DEFINE t == [tx[c] EXCEPT !.pc = "commit", !.w = wallet]
<1>1. /\ tx[c] \in TxRow /\ tx[c].pc = "lockWallet" /\ WalletFree
      /\ UNCHANGED walletVars /\ Asked(tx[c]) /\ KnowsHold(tx[c])
  BY DEF LockWallet, LocksInv
<1>2. wallet \in WalletRow
  BY DEF LocksInv, WalletInv, TypeOK
<1>3. CASE ~Accepts(tx[c], wallet)
  BY <1>1, <1>3, RollsBack DEF LockWallet
<1>4. CASE Accepts(tx[c], wallet)
  <2>1. tx' = [tx EXCEPT ![c] = t]
    BY <1>1, <1>4 DEF LockWallet, LocksInv
  <2>2. /\ t \in TxRow /\ t.op = tx[c].op /\ t.pc = "commit" /\ t.hold = tx[c].hold
        /\ t.amount = tx[c].amount /\ t.type = tx[c].type
        /\ t.allowNegative = tx[c].allowNegative /\ t.w = wallet
    BY <1>1, <1>2 DEF TxRow
  <2> HIDE DEF t
  <2>3. Asked(t) /\ KnowsHold(t) /\ KnowsWallet(t)
    BY <1>1, <1>4, <2>2 DEF Asked, KnowsHold, KnowsWallet, Accepts
  <2>4. t.op \in OnHolds => HoldsReservation(c, t.hold)
    BY <1>1, <2>2 DEF HoldsReservation, OnHolds
  <2> QED BY <1>1, <2>1, <2>2, <2>3, <2>4, TxMoves
<1> QED BY <1>3, <1>4

-----------------------------------------------------------------------------
(* The commits.                                                            *)

\* What a commit leaves of the rows that others may be looking at: they ended
\* no hold but the one it had locked.
Leaves(t) ==
    /\ Len(ledger') \in Nat /\ Len(holds') \in Nat
    /\ IF t.op \in {"post", "finalize"} THEN Len(ledger') <= Len(ledger) + 1
                                        ELSE Len(ledger') = Len(ledger)
    /\ IF t.op = "reserve" THEN Len(holds') = Len(holds) + 1
                           ELSE Len(holds') = Len(holds)
    /\ \A h \in 1..Len(holds) : (t.op \in OnHolds /\ h = t.hold) \/ holds'[h] = holds[h]

LEMMA PostCommits ==
    ASSUME LocksInv, NEW c \in Callers, tx[c].pc = "commit", CommitPost(c)
    PROVE  Next /\ Leaves(tx[c])
<1> DEFINE t == tx[c]
<1>1. t.op = "post" /\ t.w = wallet /\ Accepts(t, wallet) /\ Asked(t)
  BY DEF CommitPost, LocksInv, KnowsWallet
<1>2. PICK p \in Postings : /\ p.type = t.type /\ p.amount = t.amount
                            /\ p.allowNegative = t.allowNegative
  BY <1>1 DEF Asked
<1>3. p.type \in LedgerTypes /\ p.amount \in Int
  BY AmountsAssumption
<1>4. wallet \in WalletRow /\ ledger \in Seq(LedgerEntry) /\ Len(holds) \in Nat
      /\ Len(ledger) \in Nat
  BY Typing DEF LocksInv, WalletInv, TypeOK
<1>5. wallet' = Applied(wallet, p.type, p.amount)
  BY <1>1, <1>2, <1>3, <1>4, EntryUpdate DEF CommitPost
<1>6. ledger' = Append(ledger, LedgerRow(wallet, p.type, p.amount, 0)) /\ holds' = holds
  BY <1>1, <1>2 DEF CommitPost
<1>7. MayApply(wallet, p.amount, p.allowNegative)
  BY <1>1, <1>2 DEF Accepts
<1>8. Len(ledger) < MaxRows
  <2>1. tx \in [Callers -> TxRow] /\ Len(ledger) + Running({"post", "finalize"}) <= MaxRows
    BY DEF LocksInv, RoomKept
  <2>2. Running({"post", "finalize"}) \in Nat \ {0}
    BY <1>1, <2>1, SomeRun
  <2> QED BY <1>4, <2>1, <2>2, BoundsAssumption
<1>9. PostTransaction(p.type, p.amount, p.allowNegative, 0)
  BY <1>5, <1>6, <1>7, <1>8 DEF PostTransaction
<1>10. Len(ledger') = Len(ledger) + 1
  BY <1>3, <1>4, <1>6, LedgerRowFields, OneMoreRow
<1> QED BY <1>1, <1>4, <1>6, <1>9, <1>10 DEF Next, Leaves, OnHolds

LEMMA ReserveCommits ==
    ASSUME LocksInv, NEW c \in Callers, tx[c].pc = "commit", CommitReserve(c)
    PROVE  Next /\ Leaves(tx[c])
<1> DEFINE t == tx[c]
           hold == [amount |-> Stored(t.amount), status |-> "ACTIVE", overdue |-> FALSE]
<1>1. t.op = "reserve" /\ t.w = wallet /\ Accepts(t, wallet) /\ t.amount \in HoldAmounts
  BY DEF CommitReserve, LocksInv, KnowsWallet, Asked
<1>2. holds \in Seq(Hold) /\ Len(holds) \in Nat /\ Len(ledger) \in Nat
  BY Typing DEF LocksInv, WalletInv, TypeOK
<1>3. hold \in Hold
  <2>1. Stored(t.amount) \in Nat
    BY <1>1, AmountsAssumption, StoredNat
  <2> QED BY <2>1 DEF Hold, HoldStatuses
<1>4. wallet' = [wallet EXCEPT !.reserved = Stored(Exact(@) + t.amount)]
      /\ holds' = Append(holds, hold) /\ ledger' = ledger
  BY <1>1 DEF CommitReserve
<1>5. wallet.status = "ACTIVE" /\ t.amount <= Exact(wallet.balance - wallet.reserved)
  BY <1>1 DEF Accepts
<1>6. Len(holds) < MaxHolds
  <2>1. tx \in [Callers -> TxRow] /\ Len(holds) + Running({"reserve"}) <= MaxHolds
    BY DEF LocksInv, RoomKept
  <2>2. Running({"reserve"}) \in Nat \ {0}
    BY <1>1, <2>1, SomeRun
  <2> QED BY <1>2, <2>1, <2>2, BoundsAssumption
<1>7. ReserveCredits(t.amount)
  BY <1>4, <1>5, <1>6 DEF ReserveCredits
<1> HIDE DEF hold
<1>8. Len(holds') = Len(holds) + 1 /\ \A h \in 1..Len(holds) : holds'[h] = holds[h]
  BY <1>2, <1>3, <1>4, AppendProperties
<1> QED BY <1>1, <1>2, <1>4, <1>7, <1>8 DEF Next, Leaves, OnHolds

\* Ending the hold that was locked.
LEMMA EndsItsHold ==
    ASSUME LocksInv, NEW c \in Callers, tx[c].pc = "commit", tx[c].op \in OnHolds,
           NEW status \in HoldStatuses, holds' = Ended(tx[c].hold, status)
    PROVE  /\ tx[c].w = wallet /\ wallet \in WalletRow
           /\ tx[c].hold \in 1..Len(holds) /\ tx[c].hold \in Nat
           /\ holds[tx[c].hold].status = "ACTIVE" /\ holds[tx[c].hold].amount \in Nat
           /\ Len(holds) \in Nat /\ Len(holds') = Len(holds)
           /\ Len(ledger) \in Nat /\ ledger \in Seq(LedgerEntry)
           /\ \A h \in 1..Len(holds) : h = tx[c].hold \/ holds'[h] = holds[h]
<1> DEFINE h == tx[c].hold
<1>1. /\ tx[c].w = wallet /\ wallet \in WalletRow /\ h \in 1..Len(holds)
      /\ holds[h].status = "ACTIVE"
  BY DEF LocksInv, WalletInv, TypeOK, KnowsWallet, KnowsHold
<1>2. /\ Len(holds) \in Nat /\ holds[h].amount \in Nat /\ holds \in Seq(Hold)
      /\ Len(ledger) \in Nat /\ ledger \in Seq(LedgerEntry)
  BY <1>1, Typing DEF LocksInv, WalletInv, TypeOK
<1>3. Len(holds') = Len(holds)
  BY <1>1, <1>2, EndedHolds
<1>4. \A k \in 1..Len(holds) : k = h \/ holds'[k] = holds[k]
  <2>1. \A k \in 1..Len(holds) : k \in DOMAIN holds
    BY <1>2, LenProperties
  <2> QED BY <2>1 DEF Ended
<1> QED BY <1>1, <1>2, <1>3, <1>4

LEMMA FinalizeCommits ==
    ASSUME LocksInv, NEW c \in Callers, tx[c].pc = "commit", CommitFinalize(c)
    PROVE  Next /\ Leaves(tx[c])
<1> DEFINE t == tx[c]
           h == tx[c].hold
           charge == tx[c].amount
           freed == Freed(wallet, holds[tx[c].hold].amount)
<1>1. t.op = "finalize" /\ holds' = Ended(h, "FINALIZED") /\ t.op \in OnHolds
  BY DEF CommitFinalize, OnHolds
<1>2. /\ t.w = wallet /\ wallet \in WalletRow /\ h \in 1..Len(holds) /\ h \in Nat
      /\ holds[h].status = "ACTIVE" /\ holds[h].amount \in Nat
      /\ Len(holds) \in Nat /\ Len(holds') = Len(holds)
      /\ Len(ledger) \in Nat /\ ledger \in Seq(LedgerEntry)
      /\ \A k \in 1..Len(holds) : k = h \/ holds'[k] = holds[k]
  BY <1>1, EndsItsHold DEF HoldStatuses
<1>3. charge \in Charges /\ charge \in Nat /\ Accepts(t, wallet)
  <2>1. charge \in Charges /\ Accepts(t, wallet)
    BY <1>1 DEF LocksInv, Asked, KnowsWallet
  <2> QED BY <2>1, AmountsAssumption
<1>4. freed \in WalletRow /\ freed = [wallet EXCEPT !.reserved = freed.reserved]
  BY <1>2, FreedRow
<1>5. CASE charge = 0
  <2>1. wallet' = WithColumns(wallet, freed, {"reserved"}) /\ ledger' = ledger
    BY <1>2, <1>5 DEF CommitFinalize
  <2>2. wallet' = freed
    BY <1>2, <2>1, FreedUpdate
  <2>3. FinalizeForFree(h)
    BY <1>1, <1>2, <2>1, <2>2 DEF FinalizeForFree
  <2>4. FinalizeReservation(h, charge)
    BY <1>5, <2>3 DEF FinalizeReservation
  <2>5. Next
    BY <1>2, <1>3, <2>4 DEF Next
  <2>6. Leaves(t)
    BY <1>1, <1>2, <2>1 DEF Leaves
  <2> QED BY <2>5, <2>6
<1>6. CASE charge # 0
  <2>1. wallet' = WithColumns(wallet, Applied(freed, "USAGE_CHARGE", -charge),
                      {"reserved"} \cup EntryColumns(freed, "USAGE_CHARGE", -charge))
        /\ ledger' = Append(ledger, LedgerRow(freed, "USAGE_CHARGE", -charge, h))
    BY <1>2, <1>6 DEF CommitFinalize
  <2>2. wallet' = Applied(freed, "USAGE_CHARGE", -charge)
    <3>1. -charge \in Int
      BY <1>3
    <3> QED BY <1>2, <2>1, <3>1, ChargeUpdate
  <2>3. MayApply(freed, -charge, TRUE)
    <3>1. MayApply(wallet, -charge, TRUE)
      BY <1>1, <1>3, <1>6 DEF Accepts
    <3>2. freed.status = wallet.status
      BY <1>2, <1>4 DEF WalletRow
    <3> QED BY <3>1, <3>2 DEF MayApply
  <2>4. Len(ledger) < MaxRows
    <3>1. tx \in [Callers -> TxRow]
          /\ Len(ledger) + Running({"post", "finalize"}) <= MaxRows
      BY DEF LocksInv, RoomKept
    <3>2. Running({"post", "finalize"}) \in Nat \ {0}
      BY <1>1, <3>1, SomeRun
    <3> QED BY <1>2, <3>1, <3>2, BoundsAssumption
  <2>5. FinalizeWithCharge(h, charge)
    BY <1>1, <1>2, <2>1, <2>2, <2>3, <2>4 DEF FinalizeWithCharge
  <2>6. charge > 0
    BY <1>3, <1>6
  <2>7. FinalizeReservation(h, charge)
    BY <2>5, <2>6 DEF FinalizeReservation
  <2>8. Next
    BY <1>2, <1>3, <2>7 DEF Next
  <2>9. Len(ledger') = Len(ledger) + 1
    <3>1. -charge \in Int /\ "USAGE_CHARGE" \in LedgerTypes
      BY <1>3 DEF LedgerTypes
    <3>2. LedgerRow(freed, "USAGE_CHARGE", -charge, h) \in LedgerEntry
      BY <1>2, <1>4, <3>1, LedgerRowFields
    <3> QED BY <1>2, <2>1, <3>2, OneMoreRow
  <2>10. Leaves(t)
    BY <1>1, <1>2, <2>9 DEF Leaves
  <2> QED BY <2>8, <2>10
<1> QED BY <1>5, <1>6

LEMMA ReleaseCommits ==
    ASSUME LocksInv, NEW c \in Callers, tx[c].pc = "commit", CommitRelease(c)
    PROVE  Next /\ Leaves(tx[c])
<1> DEFINE t == tx[c]
           h == tx[c].hold
           status == IF tx[c].op = "release" THEN "RELEASED" ELSE "EXPIRED"
<1>1. /\ t.op \in {"release", "expire"} /\ t.op \in OnHolds /\ status \in HoldStatuses
      /\ holds' = Ended(h, status) /\ ledger' = ledger
  BY DEF CommitRelease, OnHolds, HoldStatuses
<1>2. /\ t.w = wallet /\ wallet \in WalletRow /\ h \in 1..Len(holds)
      /\ holds[h].status = "ACTIVE" /\ holds[h].amount \in Nat
      /\ Len(holds) \in Nat /\ Len(holds') = Len(holds) /\ Len(ledger) \in Nat
      /\ \A k \in 1..Len(holds) : k = h \/ holds'[k] = holds[k]
  BY <1>1, EndsItsHold
<1>3. wallet' = Freed(wallet, holds[h].amount)
  BY <1>2, FreedUpdate DEF CommitRelease
<1>4. ReleaseReservation(h, status)
  BY <1>1, <1>2, <1>3 DEF ReleaseReservation
<1>5. t.op = "expire" => holds[h].overdue
  BY <1>1, <1>2 DEF LocksInv, KnowsHold
<1>6. Next
  BY <1>1, <1>2, <1>4, <1>5 DEF Next, ExpireStaleReservation
<1>7. Leaves(t)
  BY <1>1, <1>2 DEF Leaves
<1> QED BY <1>6, <1>7

\* The hold of a commit is over.
LEMMA CommitEnds ==
    ASSUME LocksInv, NEW c \in Callers, Commit(c), tx[c].op \in OnHolds
    PROVE  holds'[tx[c].hold].status # "ACTIVE"
<1>1. \E status \in HoldStatuses \ {"ACTIVE"} : holds' = Ended(tx[c].hold, status)
  BY DEF Commit, CommitPost, CommitReserve, CommitFinalize, CommitRelease, OnHolds,
         HoldStatuses
<1>2. holds \in Seq(Hold) /\ tx[c].hold \in 1..Len(holds)
  BY DEF LocksInv, WalletInv, TypeOK, KnowsHold
<1> QED BY <1>1, <1>2, EndedHolds

\* A commit keeps the invariant: the transactions still running know nothing
\* of the wallet yet, and their holds are not the one that ended.
LEMMA CommitInv ==
    ASSUME LocksInv, NEW c \in Callers, Commit(c)
    PROVE  Next /\ LocksInv'
<1>1. tx[c].pc = "commit" /\ Finished(c)
  BY DEF Commit
<1>2. Next /\ Leaves(tx[c])
  BY <1>1, PostCommits, ReserveCommits, FinalizeCommits, ReleaseCommits DEF Commit
<1>3. WalletInv'
  BY <1>2, StepInv DEF LocksInv
<1>4. /\ tx \in [Callers -> TxRow] /\ tx' \in [Callers -> TxRow]
      /\ tx'[c] = Idle /\ \A d \in Callers \ {c} : tx'[d] = tx[d]
  BY <1>1, IdleRow DEF Finished, LocksInv
<1>5. ASSUME NEW d \in Callers PROVE (Asked(tx[d]) /\ KnowsWallet(tx[d]))'
  <2>1. CASE d = c
    BY <1>4, <2>1, IdleRow DEF Asked, KnowsWallet
  <2>2. CASE d # c
    <3>1. tx[d].pc # "commit"
      BY <1>1, <2>2 DEF LocksInv, OneLocksWallet, HoldsWallet
    <3> QED BY <1>4, <2>2, <3>1 DEF LocksInv, Asked, KnowsWallet
  <2> QED BY <2>1, <2>2
<1>6. ASSUME NEW d \in Callers PROVE KnowsHold(tx[d])'
  <2> SUFFICES ASSUME d # c, tx[d].op \in OnHolds
               PROVE  /\ tx[d].hold \in 1..Len(holds')
                      /\ tx[d].pc \in {"lockWallet", "commit"} =>
                            holds'[tx[d].hold].status = "ACTIVE"
                      /\ tx[d].op = "expire" /\ holds'[tx[d].hold].status = "ACTIVE" =>
                            holds'[tx[d].hold].overdue
    BY <1>4, IdleRow DEF KnowsHold, OnHolds
  <2>1. KnowsHold(tx[d]) /\ tx[d].hold \in Nat /\ tx[d].hold \in 1..Len(holds)
    BY <1>4 DEF LocksInv, KnowsHold, TxRow
  <2>2. tx[d].hold \in 1..Len(holds')
    BY <1>2, <2>1, Typing DEF Leaves, LocksInv, WalletInv
  <2>3. CASE tx[c].op \in OnHolds /\ tx[c].hold = tx[d].hold
    <3>1. HoldsReservation(c, tx[d].hold)
      BY <1>1, <2>3 DEF HoldsReservation, OnHolds
    <3>2. ~HoldsReservation(d, tx[d].hold)
      BY <2>1, <3>1 DEF LocksInv, OneLocksHold
    <3>3. tx[d].pc \notin {"lockWallet", "commit"}
      BY <3>2 DEF HoldsReservation, OnHolds
    <3>4. holds'[tx[d].hold].status # "ACTIVE"
      BY <1>1, <2>3, CommitEnds
    <3> QED BY <2>2, <3>3, <3>4
  <2>4. CASE ~(tx[c].op \in OnHolds /\ tx[c].hold = tx[d].hold)
    <3>1. holds'[tx[d].hold] = holds[tx[d].hold]
      BY <1>2, <2>1, <2>4 DEF Leaves
    <3> QED BY <2>1, <2>2, <3>1 DEF KnowsHold
  <2> QED BY <2>3, <2>4
<1>7. OneLocksWallet'
  BY <1>4, IdleRow DEF LocksInv, OneLocksWallet, HoldsWallet
<1>8. OneLocksHold'
  BY <1>4, IdleRow DEF LocksInv, OneLocksHold, HoldsReservation, OnHolds
<1>9. RoomKept'
  <2>1. Len(ledger) \in Nat /\ Len(holds) \in Nat /\ MaxRows \in Nat /\ MaxHolds \in Nat
    BY Typing, BoundsAssumption DEF LocksInv, WalletInv
  <2>2. tx' = [tx EXCEPT ![c] = Idle] /\ Idle \in TxRow
    BY <1>1, IdleRow DEF Finished
  <2>3. ASSUME NEW ops, "none" \notin ops
        PROVE  /\ Running(ops) \in Nat /\ Running(ops)' \in Nat
               /\ Running(ops)' <= Running(ops)
               /\ tx[c].op \in ops => Running(ops)' + 1 <= Running(ops)
    BY <1>4, <2>2, <2>3, IdleRow, RunningAfter, ZenonT(60)
  <2>4. Len(ledger') + Running({"post", "finalize"})' <= MaxRows
    <3> DEFINE old == Running({"post", "finalize"})
               new == Running({"post", "finalize"})'
               wrote == tx[c].op \in {"post", "finalize"}
    <3>1. /\ old \in Nat /\ new \in Nat /\ new <= old
          /\ wrote => new + 1 <= old
      BY <2>3
    <3>2. Len(ledger) + old <= MaxRows
      BY DEF LocksInv, RoomKept
    <3>3. /\ Len(ledger') \in Nat /\ wrote => Len(ledger') <= Len(ledger) + 1
          /\ ~wrote => Len(ledger') = Len(ledger)
      BY <1>2 DEF Leaves
    <3> HIDE DEF old, new, wrote
    <3>4. Len(ledger') + new <= MaxRows
      BY <2>1, <3>1, <3>2, <3>3
    <3> QED BY <3>4 DEF new
  <2>5. Len(holds') + Running({"reserve"})' <= MaxHolds
    <3> DEFINE old == Running({"reserve"})
               new == Running({"reserve"})'
               wrote == tx[c].op = "reserve"
    <3>1. /\ old \in Nat /\ new \in Nat /\ new <= old
          /\ wrote => new + 1 <= old
      BY <2>3
    <3>2. Len(holds) + old <= MaxHolds
      BY DEF LocksInv, RoomKept
    <3>3. /\ Len(holds') \in Nat /\ wrote => Len(holds') = Len(holds) + 1
          /\ ~wrote => Len(holds') = Len(holds)
      BY <1>2 DEF Leaves
    <3> HIDE DEF old, new, wrote
    <3>4. Len(holds') + new <= MaxHolds
      BY <2>1, <3>1, <3>2, <3>3
    <3> QED BY <3>4 DEF new
  <2> QED BY <2>4, <2>5 DEF RoomKept
<1> QED BY <1>2, <1>3, <1>4, <1>5, <1>6, <1>7, <1>8, <1>9 DEF LocksInv

-----------------------------------------------------------------------------
(* The statements outside the transactions.                                *)

\* The settings are written while nobody has the wallet's row.
LEMMA SettingsInv ==
    ASSUME LocksInv, NEW status \in WalletStatuses,
           NEW threshold \in Thresholds \cup {NoThreshold},
           SettingsUpdate(status, threshold)
    PROVE  Next /\ LocksInv'
<1>1. Next
  BY DEF SettingsUpdate, Next
<1>2. WalletInv'
  BY <1>1, StepInv DEF LocksInv
<1>3. UNCHANGED <<holds, ledger, tx>> /\ \A c \in Callers : tx[c].pc # "commit"
  BY DEF SettingsUpdate, UpdateWalletSettings, WalletFree, HoldsWallet
<1>4. (\A c \in Callers : Asked(tx[c]) /\ KnowsHold(tx[c]) /\ KnowsWallet(tx[c]))'
  BY <1>3 DEF LocksInv, Asked, KnowsHold, KnowsWallet
<1>5. OneLocksWallet' /\ OneLocksHold' /\ RoomKept'
  BY <1>3 DEF LocksInv, OneLocksWallet, OneLocksHold, RoomKept, HoldsWallet,
              HoldsReservation, Running
<1> QED BY <1>1, <1>2, <1>3, <1>4, <1>5 DEF LocksInv

\* A hold passes its time while a transaction may be working on it.
LEMMA TimeInv ==
    ASSUME LocksInv, NEW h \in 1..Len(holds), TimePasses(h)
    PROVE  Next /\ LocksInv'
<1>1. Next
  BY DEF TimePasses, Next
<1>2. WalletInv'
  BY <1>1, StepInv DEF LocksInv
<1>3. UNCHANGED <<wallet, ledger, tx>> /\ holds' = [holds EXCEPT ![h].overdue = TRUE]
  BY DEF TimePasses, TtlPasses
<1>4. holds \in Seq(Hold) /\ Len(holds) \in Nat
  BY Typing DEF LocksInv, WalletInv, TypeOK
<1>5. /\ Len(holds') = Len(holds)
      /\ \A k \in 1..Len(holds) : /\ holds'[k].status = holds[k].status
                                  /\ holds[k].overdue => holds'[k].overdue
  <2> DEFINE new == [holds[h] EXCEPT !.overdue = TRUE]
  <2>1. \A k \in 1..Len(holds) : holds[k] \in Hold
    BY <1>4, ElementOfSeq
  <2>2. new \in Hold /\ new.status = holds[h].status /\ new.overdue
    BY <2>1 DEF Hold
  <2>3. holds' = [holds EXCEPT ![h] = new]
    BY <1>3
  <2> HIDE DEF new
  <2>4. /\ Len(holds') = Len(holds)
        /\ \A k \in 1..Len(holds) : holds'[k] = IF k = h THEN new ELSE holds[k]
    BY <1>4, <2>2, <2>3, ExceptSeq
  <2> QED BY <2>2, <2>4
<1>6. (\A c \in Callers : Asked(tx[c]) /\ KnowsHold(tx[c]) /\ KnowsWallet(tx[c]))'
  <2> SUFFICES ASSUME NEW c \in Callers
               PROVE  (Asked(tx[c]) /\ KnowsHold(tx[c]) /\ KnowsWallet(tx[c]))'
    OBVIOUS
  <2>1. Asked(tx[c])' /\ KnowsWallet(tx[c])'
    BY <1>3 DEF LocksInv, Asked, KnowsWallet, Accepts
  <2>2. KnowsHold(tx[c])'
    BY <1>3, <1>5 DEF LocksInv, KnowsHold
  <2> QED BY <2>1, <2>2
<1>7. OneLocksWallet' /\ OneLocksHold' /\ RoomKept'
  BY <1>3, <1>5 DEF LocksInv, OneLocksWallet, OneLocksHold, RoomKept, HoldsWallet,
                    HoldsReservation, Running
<1> QED BY <1>1, <1>2, <1>3, <1>6, <1>7 DEF LocksInv

-----------------------------------------------------------------------------
(* The theorems.                                                           *)

\* At the start nobody runs a transaction.
LEMMA LocksInitInv == LocksInit => LocksInv
<1> SUFFICES ASSUME LocksInit PROVE LocksInv
  OBVIOUS
<1>1. WalletInv /\ Len(holds) = 0 /\ Len(ledger) = 0
  BY InitInv, EmptySeq DEF LocksInit, Init
<1>2. tx \in [Callers -> TxRow] /\ \A c \in Callers : tx[c] = Idle
  BY IdleRow DEF LocksInit
<1>3. \A c \in Callers : Asked(tx[c]) /\ KnowsHold(tx[c]) /\ KnowsWallet(tx[c])
  BY <1>2, IdleRow DEF KnowsHold, KnowsWallet, OnHolds
<1>4. OneLocksWallet /\ OneLocksHold
  BY <1>2, IdleRow DEF OneLocksWallet, OneLocksHold, HoldsWallet, HoldsReservation
<1>5. RoomKept
  <2>1. ASSUME NEW ops, "none" \notin ops PROVE Running(ops) = 0
    <3>1. {c \in Callers : tx[c].op \in ops} = {}
      BY <1>2, <2>1, IdleRow
    <3> QED BY <3>1, FS_EmptySet DEF Running
  <2>2. Running({"post", "finalize"}) = 0 /\ Running({"reserve"}) = 0
    BY <2>1
  <2> QED BY <1>1, <2>2, BoundsAssumption DEF RoomKept
<1> QED BY <1>1, <1>2, <1>3, <1>4, <1>5 DEF LocksInv

\* Every step is a step of the atomic wallet or leaves its rows alone.
LEMMA LocksStepInv ==
    ASSUME LocksInv, [LocksNext]_vars
    PROVE  LocksInv' /\ [Next]_walletVars
<1>1. ASSUME NEW c \in Callers,
             \/ \E p \in Postings : BeginPost(c, p)
             \/ \E amount \in HoldAmounts : BeginReserve(c, amount)
             \/ \E h \in 1..Len(holds) :
                   \/ \E charge \in Charges : BeginFinalize(c, h, charge)
                   \/ BeginRelease(c, h)
                   \/ BeginExpire(c, h)
      PROVE  LocksInv' /\ UNCHANGED walletVars
  BY <1>1, BeginsInv DEF BeginPost, BeginReserve, BeginFinalize, BeginRelease,
                         BeginExpire, Begin
<1>2. ASSUME NEW c \in Callers, LockReservation(c) \/ LockWallet(c) \/ Crash(c)
      PROVE  LocksInv' /\ UNCHANGED walletVars
  BY <1>2, LockReservationInv, LockWalletInv, RollsBack
     DEF LockReservation, LockWallet, Crash
<1>3. ASSUME NEW c \in Callers, Commit(c) PROVE LocksInv' /\ Next
  BY <1>3, CommitInv
<1>4. ASSUME NEW status \in WalletStatuses,
             NEW threshold \in Thresholds \cup {NoThreshold},
             SettingsUpdate(status, threshold)
      PROVE  LocksInv' /\ Next
  BY <1>4, SettingsInv
<1>5. ASSUME NEW h \in 1..Len(holds), TimePasses(h) PROVE LocksInv' /\ Next
  BY <1>5, TimeInv
<1>6. CASE UNCHANGED vars
  <2>1. UNCHANGED walletVars /\ tx' = tx
    BY <1>6 DEF vars
  <2>2. WalletInv'
    BY <2>1, StepInv DEF LocksInv
  <2>3. LocksInv'
    BY <2>1, <2>2 DEF LocksInv, walletVars, Asked, KnowsHold, KnowsWallet, Accepts,
       OneLocksWallet, OneLocksHold, RoomKept, HoldsWallet, HoldsReservation, Running
  <2> QED BY <2>1, <2>3
<1> QED BY <1>1, <1>2, <1>3, <1>4, <1>5, <1>6 DEF LocksNext, Steps

\* What the row locks promise: a transaction that is about to commit knows the
\* current wallet row, alone, and works on a hold that is still ACTIVE and that
\* no other transaction has locked.
THEOREM LocksInvariant == LocksSpec => []LocksInv
  BY LocksInitInv, LocksStepInv, PTL DEF LocksSpec

\* The transactions of wallet.service.ts, taken apart at every lock, read and
\* write, with callers that die anywhere, implement the atomic wallet.
THEOREM LocksRefine == LocksSpec => WalletSpec
<1>1. LocksInit => Init
  BY DEF LocksInit
<1> QED BY <1>1, LocksInitInv, LocksStepInv, PTL DEF LocksSpec, WalletSpec, Spec

\* So the wallet's invariants hold for concurrent callers as well.
THEOREM WalletUnderLocks ==
    LocksSpec => [](/\ TypeOK /\ ReservedIsHeld /\ LedgerChains /\ OneChargePerHold
                    /\ OverspendHasACause)
<1>1. WalletInv => /\ TypeOK /\ ReservedIsHeld /\ LedgerChains /\ OneChargePerHold
                   /\ OverspendHasACause
  BY DEF WalletInv
<1> QED BY <1>1, LocksRefine, WalletInvariant, PTL DEF WalletSpec
=============================================================================
