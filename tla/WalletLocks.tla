---------------------------- MODULE WalletLocks -----------------------------
(***************************************************************************)
(* The wallet's database transactions taken apart: each caller of          *)
(* wallet.service.ts begins a READ COMMITTED transaction, waits for the    *)
(* row locks (SELECT ... FOR UPDATE), reads the rows, and commits values   *)
(* computed from what it read.  A caller may die at any point before its   *)
(* commit; the database then rolls back and frees its locks.               *)
(*                                                                         *)
(* Module Wallet, where each operation is one step, is the specification   *)
(* this one must implement (property WalletSpec below).                    *)
(***************************************************************************)
EXTENDS Wallet, FiniteSets

CONSTANTS
    Callers     \* concurrent requests, administrators and sweeps

ASSUME CallersAssumption == IsFiniteSet(Callers)

VARIABLE tx     \* what each caller's transaction is doing

vars == <<walletVars, tx>>

\* A posting is made of one posting record; the other operations of an amount.
\* pc: where the transaction is; hold: the reservation row it works on;
\* w, status: the wallet row and the reservation status as it read them.
Idle == [op |-> "none", pc |-> "idle", hold |-> 0, amount |-> 0,
         type |-> "PURCHASE", allowNegative |-> FALSE,
         w |-> NewWallet, status |-> "ACTIVE"]

LocksInit == Init /\ tx = [c \in Callers |-> Idle]

-----------------------------------------------------------------------------
(* Row locks.  A caller at "lockWallet" holds the reservation row it locked *)
(* before; at "commit" it holds the wallet row as well.                     *)

HoldsReservation(c, h) ==
    /\ tx[c].hold = h
    /\ tx[c].op \in {"finalize", "release", "expire"}
    /\ tx[c].pc \in {"lockWallet", "commit"}

HoldsWallet(c) == tx[c].pc = "commit"

\* Mutated: the reservation row is read without FOR UPDATE.
ReservationUnlocked(h) == TRUE

ReservationFree(h) == \A c \in Callers : ~HoldsReservation(c, h)

\* Mutated: the wallet row is read without FOR UPDATE.
WalletUnlocked == TRUE

WalletFree == \A c \in Callers : ~HoldsWallet(c)

-----------------------------------------------------------------------------
(* Beginning a transaction.                                                *)

Begin(c, request) ==
    /\ tx[c] = Idle
    /\ tx' = [tx EXCEPT ![c] = request]
    /\ UNCHANGED walletVars

\* The bounds of Wallet, counting the transactions still running.
Running(ops) == Cardinality({c \in Callers : tx[c].op \in ops})
RoomForRow == Len(ledger) + Running({"post", "finalize"}) < MaxRows
RoomForHold == Len(holds) + Running({"reserve"}) < MaxHolds

BeginPost(c, p) ==
    /\ RoomForRow
    /\ Begin(c, [Idle EXCEPT !.op = "post", !.pc = "lockWallet", !.type = p.type,
                             !.amount = p.amount, !.allowNegative = p.allowNegative])

BeginReserve(c, amount) ==
    /\ RoomForHold
    /\ Begin(c, [Idle EXCEPT !.op = "reserve", !.pc = "lockWallet", !.amount = amount])

BeginFinalize(c, h, charge) ==
    /\ RoomForRow
    /\ Begin(c, [Idle EXCEPT !.op = "finalize", !.pc = "lockHold", !.hold = h,
                             !.amount = charge])

BeginRelease(c, h) ==
    Begin(c, [Idle EXCEPT !.op = "release", !.pc = "lockHold", !.hold = h])

\* The sweep lists the stale ACTIVE holds outside any transaction and then
\* releases them one by one: a listed hold may have ended meanwhile.
BeginExpire(c, h) ==
    /\ holds[h].status = "ACTIVE" /\ holds[h].overdue
    /\ Begin(c, [Idle EXCEPT !.op = "expire", !.pc = "lockHold", !.hold = h])

-----------------------------------------------------------------------------
(* Inside the transaction.                                                 *)

Finished(c) == tx' = [tx EXCEPT ![c] = Idle]

\* Mutated: the status of the hold is not looked at.
LockAnyReservation(c) ==
    /\ tx[c].pc = "lockHold"
    /\ ReservationFree(tx[c].hold)
    /\ tx' = [tx EXCEPT ![c].pc = "lockWallet"]
    /\ UNCHANGED walletVars

\* Mutated: a hold that is not ACTIVE leaves the transaction open.
LockActiveReservation(c) ==
    /\ tx[c].pc = "lockHold"
    /\ ReservationFree(tx[c].hold)
    /\ holds[tx[c].hold].status = "ACTIVE"
    /\ tx' = [tx EXCEPT ![c].pc = "lockWallet", ![c].status = "ACTIVE"]
    /\ UNCHANGED walletVars

\* lockReservation: wait for the row, then read it.  A hold that is no longer
\* ACTIVE ends the transaction (finalize throws, release returns it as it is).
LockReservation(c) ==
    LET h == tx[c].hold IN
    /\ tx[c].pc = "lockHold"
    /\ ReservationFree(h)
    /\ IF holds[h].status = "ACTIVE"
       THEN tx' = [tx EXCEPT ![c].pc = "lockWallet", ![c].status = holds[h].status]
       ELSE Finished(c)
    /\ UNCHANGED walletVars

\* Mutated: what others hold is not taken off the balance.
AcceptsOnBalance(t, w) ==
    CASE t.op = "post"    -> MayApply(w, t.amount, t.allowNegative)
      [] t.op = "reserve" -> w.status = "ACTIVE" /\ t.amount <= Exact(w.balance)
      [] t.op = "finalize" -> t.amount = 0 \/ MayApply(w, -t.amount, TRUE)
      [] OTHER            -> TRUE

\* What the code checks on the wallet row it read under the lock.
Accepts(t, w) ==
    CASE t.op = "post"    -> MayApply(w, t.amount, t.allowNegative)
      [] t.op = "reserve" -> /\ w.status = "ACTIVE"
                             /\ t.amount <= Exact(w.balance - w.reserved)
      [] t.op = "finalize" -> t.amount = 0 \/ MayApply(w, -t.amount, TRUE)
      [] OTHER            -> TRUE

\* lockWalletByTenant / lockWalletById: wait for the row, then read it; a
\* refused operation throws and its transaction rolls back.
LockWallet(c) ==
    /\ tx[c].pc = "lockWallet"
    /\ WalletFree
    /\ IF Accepts(tx[c], wallet)
       THEN tx' = [tx EXCEPT ![c].pc = "commit", ![c].w = wallet]
       ELSE Finished(c)
    /\ UNCHANGED walletVars

\* An UPDATE writes only the columns it names, from values read before.
WithColumns(current, computed, columns) ==
    [column \in DOMAIN current |->
        IF column \in columns THEN computed[column] ELSE current[column]]

\* Mutated: the lifetime aggregate is not written.
EntryColumnsBalanceOnly(w, type, amount) ==
    {"balance"} \cup (IF ShouldSuspend(w, amount) THEN {"status"} ELSE {})

EntryColumns(w, type, amount) ==
    {"balance", AggregateOf(type)}
        \cup (IF ShouldSuspend(w, amount) THEN {"status"} ELSE {})

CommitPost(c) ==
    LET t == tx[c] IN
    /\ t.op = "post"
    /\ wallet' = WithColumns(wallet, Applied(t.w, t.type, t.amount),
                             EntryColumns(t.w, t.type, t.amount))
    /\ ledger' = Append(ledger, LedgerRow(t.w, t.type, t.amount, 0))
    /\ UNCHANGED holds

CommitReserve(c) ==
    LET t == tx[c] IN
    /\ t.op = "reserve"
    /\ wallet' = [wallet EXCEPT !.reserved = Stored(Exact(t.w.reserved) + t.amount)]
    /\ holds' = Append(holds, [amount |-> Stored(t.amount), status |-> "ACTIVE",
                               overdue |-> FALSE])
    /\ UNCHANGED ledger

CommitFinalize(c) ==
    LET t == tx[c]
        freed == Freed(t.w, holds[t.hold].amount) IN
    /\ t.op = "finalize"
    /\ holds' = Ended(t.hold, "FINALIZED")
    /\ IF t.amount = 0
       THEN /\ wallet' = WithColumns(wallet, freed, {"reserved"})
            /\ UNCHANGED ledger
       ELSE /\ wallet' = WithColumns(wallet, Applied(freed, "USAGE_CHARGE", -t.amount),
                  {"reserved"} \cup EntryColumns(freed, "USAGE_CHARGE", -t.amount))
            /\ ledger' = Append(ledger,
                                LedgerRow(freed, "USAGE_CHARGE", -t.amount, t.hold))

CommitRelease(c) ==
    LET t == tx[c] IN
    /\ t.op \in {"release", "expire"}
    /\ holds' = Ended(t.hold, IF t.op = "release" THEN "RELEASED" ELSE "EXPIRED")
    /\ wallet' = WithColumns(wallet, Freed(t.w, holds[t.hold].amount), {"reserved"})
    /\ UNCHANGED ledger

Commit(c) ==
    /\ tx[c].pc = "commit"
    /\ \/ CommitPost(c) \/ CommitReserve(c) \/ CommitFinalize(c) \/ CommitRelease(c)
    /\ Finished(c)

\* The caller dies: nothing was committed, the locks are freed.
Crash(c) ==
    /\ tx[c] # Idle
    /\ Finished(c)
    /\ UNCHANGED walletVars

-----------------------------------------------------------------------------
(* Statements outside those transactions.                                  *)

\* updateWalletSettings is one UPDATE: it waits for the wallet's row lock.
SettingsUpdate(status, threshold) ==
    /\ WalletFree
    /\ UpdateWalletSettings(status, threshold)
    /\ UNCHANGED tx

TimePasses(h) == TtlPasses(h) /\ UNCHANGED tx

Steps(c) == LockReservation(c) \/ LockWallet(c) \/ Commit(c)

LocksNext ==
    \/ \E c \in Callers :
          \/ \E p \in Postings : BeginPost(c, p)
          \/ \E amount \in HoldAmounts : BeginReserve(c, amount)
          \/ \E h \in 1..Len(holds) :
                \/ \E charge \in Charges : BeginFinalize(c, h, charge)
                \/ BeginRelease(c, h)
                \/ BeginExpire(c, h)
          \/ Steps(c)
          \/ Crash(c)
    \/ \E status \in WalletStatuses, threshold \in Thresholds \cup {NoThreshold} :
          SettingsUpdate(status, threshold)
    \/ \E h \in 1..Len(holds) : TimePasses(h)

\* PostgreSQL hands a freed row lock to a waiter in turn, so a transaction
\* that could get its lock again and again does get it: strong fairness.
Fairness == \A c \in Callers :
    SF_vars(LockReservation(c)) /\ SF_vars(LockWallet(c)) /\ WF_vars(Commit(c))

LocksSpec == LocksInit /\ [][LocksNext]_vars /\ Fairness

-----------------------------------------------------------------------------
(* Properties.                                                             *)

\* Every commit is one step of the wallet whose operations are atomic: what
\* was checked and computed under the row locks is still right when written.
WalletSpec == Spec

\* No transaction waits for ever: the locks are taken reservation first,
\* wallet second, so callers can never wait for each other in a circle.
TransactionsEnd == \A c \in Callers : tx[c] # Idle ~> tx[c] = Idle
=============================================================================
