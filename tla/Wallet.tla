------------------------------- MODULE Wallet -------------------------------
(***************************************************************************)
(* One tenant's prepaid credit wallet: the wallet row, its credit holds    *)
(* (ai_credit_reservations) and its append-only ledger                     *)
(* (ai_wallet_transactions), as wallet.service.ts changes them.            *)
(*                                                                         *)
(* Every operation here is one database transaction that runs under the    *)
(* wallet's row lock, so it is one step; module WalletLocks takes these    *)
(* steps apart and shows that the locks justify it.  An operation the code *)
(* refuses (it throws and the transaction rolls back) changes nothing, so  *)
(* it is simply not enabled.                                               *)
(*                                                                         *)
(* Balances and ledger columns are stored amounts (units); what a caller   *)
(* passes in is an exact amount (sub-units), see module Totals.            *)
(***************************************************************************)
EXTENDS Totals, Sequences

CONSTANTS
    HoldAmounts,    \* exact estimates that callers reserve
    Charges,        \* exact actual charges at settlement, 0 among them
    Postings,       \* every other ledger entry: [type, amount, allowNegative]
    Thresholds,     \* suspension thresholds an administrator may set
    NoThreshold,    \* the NULL suspendThreshold
    MaxHolds,       \* bound: reservations ever made
    MaxRows         \* bound: ledger rows ever written

LedgerTypes == {"PURCHASE", "MANUAL_CREDIT", "USAGE_CHARGE", "REFUND", "BONUS_CREDIT",
                "PROMO_CREDIT", "DISPUTE_RESOLUTION", "CHARGE_REVERSAL",
                "CREDIT_EXPIRY", "ADMIN_ADJUSTMENT", "CORRECTION"}
WalletStatuses == {"ACTIVE", "SUSPENDED", "CLOSED"}
HoldStatuses == {"ACTIVE", "FINALIZED", "RELEASED", "EXPIRED"}

\* Only a usage charge is ever negative by itself, and besides usage only a
\* cash refund may overdraw (refund.service.ts:121-123).
ASSUME AmountsAssumption ==
    /\ HoldAmounts \subseteq Nat \ {0}
    /\ Charges \subseteq Nat
    /\ Postings \subseteq [type : LedgerTypes \ {"USAGE_CHARGE"},
                           amount : Int, allowNegative : BOOLEAN]
    /\ \A p \in Postings : p.allowNegative => p.type = "REFUND"

ASSUME BoundsAssumption ==
    /\ Thresholds \subseteq Int
    /\ NoThreshold \notin Int
    /\ MaxHolds \in Nat
    /\ MaxRows \in Nat

VARIABLES
    wallet,     \* the ai_wallets row
    holds,      \* the ai_credit_reservations rows, in creation order
    ledger      \* the ai_wallet_transactions rows, in creation order

walletVars == <<wallet, holds, ledger>>

Abs(x) == IF x < 0 THEN -x ELSE x

-----------------------------------------------------------------------------
(* applyTransaction: one ledger entry on a locked wallet row.              *)

\* The entry is accepted: not zero, wallet not closed, no forbidden overdraft.
\* The code compares the exact balance, before the column rounds it.
MayApply(w, amount, allowNegative) ==
    /\ amount # 0
    /\ w.status # "CLOSED"
    /\ Exact(w.balance) + amount >= 0 \/ allowNegative

\* The balance fell below the threshold of an active wallet.
ShouldSuspend(w, amount) ==
    /\ w.suspendThreshold # NoThreshold
    /\ Exact(w.balance) + amount < Exact(w.suspendThreshold)
    /\ w.status = "ACTIVE"

\* The lifetime aggregate that mirrors an entry of this type.
AggregateOf(type) ==
    CASE type = "PURCHASE"     -> "totalPurchased"
      [] type = "USAGE_CHARGE" -> "totalConsumed"
      [] type = "REFUND"       -> "totalRefunded"
      [] OTHER                 -> "totalAdjusted"

\* Mutated: every aggregate is signed.
SignedAggregateDelta(type, amount) == amount

\* The first three aggregates count magnitudes, the last one is signed.
AggregateDelta(type, amount) ==
    IF AggregateOf(type) = "totalAdjusted" THEN amount ELSE Abs(amount)

\* The wallet row with the entry applied.
Applied(w, type, amount) ==
    LET added(column) == IF AggregateOf(type) = column
                         THEN Stored(Exact(w[column]) + AggregateDelta(type, amount))
                         ELSE w[column]
    IN [w EXCEPT !.balance = Stored(Exact(@) + amount),
                 !.totalPurchased = added("totalPurchased"),
                 !.totalConsumed = added("totalConsumed"),
                 !.totalRefunded = added("totalRefunded"),
                 !.totalAdjusted = added("totalAdjusted"),
                 !.status = IF ShouldSuspend(w, amount) THEN "SUSPENDED" ELSE @]

\* Mutated: the row records the size of a debit without its sign.
UnsignedLedgerRow(w, type, amount, ref) ==
    [type |-> type, amount |-> Stored(Abs(amount)), before |-> w.balance,
     after |-> Stored(Exact(w.balance) + amount), ref |-> ref]

\* Mutated: the two snapshots are swapped.
SwappedLedgerRow(w, type, amount, ref) ==
    [type |-> type, amount |-> Stored(amount),
     before |-> Stored(Exact(w.balance) + amount), after |-> w.balance, ref |-> ref]

\* The ledger row, with its before and after snapshots; ref is the row that
\* caused it (relatedEntityId), 0 for none.  The code names the request on a
\* charge; here a charge names the hold it settles.
LedgerRow(w, type, amount, ref) ==
    [type |-> type, amount |-> Stored(amount), before |-> w.balance,
     after |-> Stored(Exact(w.balance) + amount), ref |-> ref]

-----------------------------------------------------------------------------
(* The operations.                                                         *)

\* A hold is given back: max(0, reserved - amount).
Freed(w, amount) ==
    [w EXCEPT !.reserved = IF amount <= @ THEN @ - amount ELSE 0]

\* The holds with h ended; overdue tells only an ACTIVE hold past its time.
Ended(h, status) == [holds EXCEPT ![h] = [@ EXCEPT !.status = status, !.overdue = FALSE]]

\* postTransaction: any entry other than a usage charge.
PostTransaction(type, amount, allowNegative, ref) ==
    /\ Len(ledger) < MaxRows
    /\ MayApply(wallet, amount, allowNegative)
    /\ wallet' = Applied(wallet, type, amount)
    /\ ledger' = Append(ledger, LedgerRow(wallet, type, amount, ref))
    /\ UNCHANGED holds

\* reserveCredits: hold an estimate out of the available balance.
ReserveCredits(amount) ==
    /\ Len(holds) < MaxHolds
    /\ wallet.status = "ACTIVE"
    /\ amount <= Exact(wallet.balance - wallet.reserved)
    /\ holds' = Append(holds, [amount |-> Stored(amount), status |-> "ACTIVE",
                               overdue |-> FALSE])
    /\ wallet' = [wallet EXCEPT !.reserved = Stored(Exact(@) + amount)]
    /\ UNCHANGED ledger

\* finalizeReservation with a charge of zero: only the hold is given back.
FinalizeForFree(h) ==
    /\ holds[h].status = "ACTIVE"
    /\ holds' = Ended(h, "FINALIZED")
    /\ wallet' = Freed(wallet, holds[h].amount)
    /\ UNCHANGED ledger

\* finalizeReservation with the actual charge, which may overdraw.  A closed
\* wallet makes the whole transaction roll back and leaves the hold ACTIVE.
FinalizeWithCharge(h, charge) ==
    LET freed == Freed(wallet, holds[h].amount) IN
    /\ Len(ledger) < MaxRows
    /\ holds[h].status = "ACTIVE"
    /\ MayApply(freed, -charge, TRUE)
    /\ holds' = Ended(h, "FINALIZED")
    /\ wallet' = Applied(freed, "USAGE_CHARGE", -charge)
    /\ ledger' = Append(ledger, LedgerRow(freed, "USAGE_CHARGE", -charge, h))

FinalizeReservation(h, charge) ==
    \/ charge = 0 /\ FinalizeForFree(h)
    \/ charge > 0 /\ FinalizeWithCharge(h, charge)

\* releaseReservation: give the hold back without charging.
ReleaseReservation(h, status) ==
    /\ holds[h].status = "ACTIVE"
    /\ holds' = Ended(h, status)
    /\ wallet' = Freed(wallet, holds[h].amount)
    /\ UNCHANGED ledger

\* The hold's time to live (ten minutes) passes.
TtlPasses(h) ==
    /\ holds[h].status = "ACTIVE"
    /\ ~holds[h].overdue
    /\ holds' = [holds EXCEPT ![h].overdue = TRUE]
    /\ UNCHANGED <<wallet, ledger>>

\* expireStaleReservations: the sweep releases a hold past its time to live.
ExpireStaleReservation(h) ==
    /\ holds[h].overdue
    /\ ReleaseReservation(h, "EXPIRED")

\* updateWalletSettings: an administrator sets the status and the threshold.
UpdateWalletSettings(status, threshold) ==
    /\ wallet' = [wallet EXCEPT !.status = status, !.suspendThreshold = threshold]
    /\ UNCHANGED <<holds, ledger>>

-----------------------------------------------------------------------------
\* The wallet as getOrCreateWallet creates it.
NewWallet == [balance |-> 0, reserved |-> 0, totalPurchased |-> 0,
              totalConsumed |-> 0, totalRefunded |-> 0, totalAdjusted |-> 0,
              status |-> "ACTIVE", suspendThreshold |-> NoThreshold]

Init ==
    /\ wallet = NewWallet
    /\ holds = <<>>
    /\ ledger = <<>>

Next ==
    \/ \E p \in Postings : PostTransaction(p.type, p.amount, p.allowNegative, 0)
    \/ \E amount \in HoldAmounts : ReserveCredits(amount)
    \/ \E h \in 1..Len(holds) :
          \/ \E charge \in Charges : FinalizeReservation(h, charge)
          \/ ReleaseReservation(h, "RELEASED")
          \/ TtlPasses(h)
          \/ ExpireStaleReservation(h)
    \/ \E status \in WalletStatuses, threshold \in Thresholds \cup {NoThreshold} :
          UpdateWalletSettings(status, threshold)

Spec == Init /\ [][Next]_walletVars

-----------------------------------------------------------------------------
(* Properties.                                                             *)

Hold == [amount : Nat, status : HoldStatuses, overdue : BOOLEAN]
LedgerEntry == [type : LedgerTypes, amount : Int, before : Int, after : Int, ref : Nat]
WalletRow == [balance : Int, reserved : Nat, totalPurchased : Nat,
              totalConsumed : Nat, totalRefunded : Nat, totalAdjusted : Int,
              status : WalletStatuses,
              suspendThreshold : Thresholds \cup {NoThreshold}]

\* Type invariant of the rows wallet.service.ts keeps (schema.prisma AiWallet,
\* AiCreditReservation, AiWalletTransaction).
TypeOK ==
    /\ wallet \in WalletRow
    /\ holds \in Seq(Hold)
    /\ ledger \in Seq(LedgerEntry)

HeldNow(h) == IF holds[h].status = "ACTIVE" THEN holds[h].amount ELSE 0
HeldTotal == Total([h \in 1..Len(holds) |-> HeldNow(h)], Len(holds))

\* The reserved column is exactly the sum of the ACTIVE holds: no hold is
\* given back twice and none is forgotten, whichever of settle, release and
\* sweep ends it (the max(0, ...) in wallet.service.ts would hide an error).
ReservedIsHeld == wallet.reserved = HeldTotal

LedgerTotal == Total([i \in 1..Len(ledger) |-> ledger[i].amount], Len(ledger))

\* wallet.balance === SUM(ledger.amount) at all times (wallet.service.ts:44).
BooksReconcile == wallet.balance = LedgerTotal

\* "No balance ever changes without a ledger row": the snapshots of the ledger
\* form one unbroken chain from 0 to the current balance.
LedgerChains ==
    /\ \A i \in 1..Len(ledger) :
          ledger[i].before = IF i = 1 THEN 0 ELSE ledger[i - 1].after
    /\ wallet.balance = IF ledger = <<>> THEN 0 ELSE ledger[Len(ledger)].after

\* What row i of the ledger contributes to an aggregate column.
Contribution(i, column) ==
    IF AggregateOf(ledger[i].type) = column
    THEN AggregateDelta(ledger[i].type, ledger[i].amount)
    ELSE 0
Mirrored(column) ==
    Total([i \in 1..Len(ledger) |-> Contribution(i, column)], Len(ledger))

\* The lifetime aggregates mirror the ledger by type (aggregateDelta).
AggregatesMirror ==
    /\ wallet.totalPurchased = Mirrored("totalPurchased")
    /\ wallet.totalConsumed = Mirrored("totalConsumed")
    /\ wallet.totalRefunded = Mirrored("totalRefunded")
    /\ wallet.totalAdjusted = Mirrored("totalAdjusted")

\* A hold is charged at most once, and only a FINALIZED hold is: a settle that
\* races the sweep either charges the hold or finds it EXPIRED, never both.
OneChargePerHold ==
    \A i \in 1..Len(ledger) : ledger[i].type = "USAGE_CHARGE" =>
        /\ ledger[i].ref \in 1..Len(holds)
        /\ holds[ledger[i].ref].status = "FINALIZED"
        /\ \A j \in 1..Len(ledger) :
              ledger[j].type = "USAGE_CHARGE" /\ ledger[j].ref = ledger[i].ref => i = j

\* A ledger row that may take credits others hold: a debit that is not usage,
\* or a charge above its own hold.
Overdraws(i) ==
    IF ledger[i].type = "USAGE_CHARGE"
    THEN -ledger[i].amount > holds[ledger[i].ref].amount
    ELSE ledger[i].amount < 0

\* "This is what prevents concurrent requests from over-spending a wallet"
\* (reserveCredits): as long as every charge stayed within its hold and nobody
\* debited the wallet otherwise, the balance covers everything on hold.
OverspendHasACause ==
    wallet.balance < wallet.reserved => \E i \in 1..Len(ledger) : Overdraws(i)
=============================================================================
