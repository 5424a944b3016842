----------------------------- MODULE Purchases ------------------------------
(***************************************************************************)
(* Buying credits: the card rail (Stripe checkout, webhooks, abandoned     *)
(* checkouts) and the bank transfer rail (submission, review), as          *)
(* purchase.service.ts runs them over the wallet of module Wallet.         *)
(*                                                                         *)
(* completePurchase and the two expiries are one database statement or one *)
(* row-locked transaction each, so one step.  Rejecting, cancelling and    *)
(* recording a failed payment read the purchase, check that it is PENDING  *)
(* and write it later without looking again: two steps of a worker, with   *)
(* anything in between.                                                    *)
(***************************************************************************)
EXTENDS Wallet

CONSTANTS
    CardPurchases,      \* ids of purchases paid through Stripe
    BankPurchases,      \* ids of purchases paid by bank transfer
    Price,              \* [purchase id -> amount in units]
    Workers             \* requests, reviewers and webhook handlers in flight

PurchaseIds == CardPurchases \cup BankPurchases

ASSUME PurchasesAssumption ==
    /\ PurchaseIds \subseteq Nat \ {0}
    /\ CardPurchases \cap BankPurchases = {}
    /\ Price \in [PurchaseIds -> Nat \ {0}]

VARIABLES
    purchases,  \* the ai_credit_purchases rows
    stripe,     \* Stripe's own state of each checkout session (external)
    events,     \* Stripe events sent so far; each may be delivered at any
                \* time, in any order, any number of times
    workers     \* what each worker is about to write

vars == <<walletVars, purchases, stripe, events, workers>>
purchaseVars == <<purchases, stripe, events, workers>>

PurchaseStatuses == {"NONE", "PENDING", "COMPLETED", "REJECTED", "CANCELLED", "EXPIRED"}
SessionStates == {"none", "open", "unpaid", "paid", "failed", "expired"}
EventTypes == {"completed", "async_payment_succeeded", "async_payment_failed", "expired"}

IdleWorker == [task |-> "idle", purchase |-> 0]

\* session: the row carries the Stripe session id; old: created 25 hours ago.
NewPurchase == [status |-> "NONE", session |-> FALSE, old |-> FALSE]

PurchasesInit ==
    /\ Init
    /\ purchases = [p \in PurchaseIds |-> NewPurchase]
    /\ stripe = [p \in CardPurchases |-> "none"]
    /\ events = {}
    /\ workers = [w \in Workers |-> IdleWorker]

SetStatus(p, status) == purchases' = [purchases EXCEPT ![p].status = status]

-----------------------------------------------------------------------------
(* The card rail: createStripeCheckout in its three statements.            *)

\* The PENDING row is written first ...
CreateStripeCheckout(p) ==
    /\ purchases[p].status = "NONE"
    /\ SetStatus(p, "PENDING")
    /\ UNCHANGED <<walletVars, stripe, events, workers>>

\* ... then Stripe opens the session ...
OpenSession(p) ==
    /\ purchases[p].status # "NONE" /\ ~purchases[p].old
    /\ stripe[p] = "none"
    /\ stripe' = [stripe EXCEPT ![p] = "open"]
    /\ UNCHANGED <<walletVars, purchases, events, workers>>

\* ... and last its id is saved; until then only the purchase id in the
\* session's metadata connects the two.
SaveSession(p) ==
    /\ stripe[p] # "none" /\ ~purchases[p].session /\ ~purchases[p].old
    /\ purchases' = [purchases EXCEPT ![p].session = TRUE]
    /\ UNCHANGED <<walletVars, stripe, events, workers>>

\* Stripe's side (external): the session moves and an event is sent.
\* paid: payment_status = 'paid'; matches: amount_total is our amount.
StripeMoves(p, from, to, type, matches) ==
    /\ stripe[p] = from
    /\ stripe' = [stripe EXCEPT ![p] = to]
    /\ events' = events \cup {[type |-> type, purchase |-> p,
                               paid |-> to = "paid", matches |-> matches]}
    /\ UNCHANGED <<walletVars, purchases, workers>>

Pay(p) == \E matches \in BOOLEAN : StripeMoves(p, "open", "paid", "completed", matches)
PayLater(p) == StripeMoves(p, "open", "unpaid", "completed", TRUE)
FundsArrive(p) == StripeMoves(p, "unpaid", "paid", "async_payment_succeeded", TRUE)
FundsFail(p) == StripeMoves(p, "unpaid", "failed", "async_payment_failed", TRUE)
SessionExpires(p) == StripeMoves(p, "open", "expired", "expired", TRUE)

\* Twenty-five hours pass; a checkout session lives twenty-four.
GrowsOld(p) ==
    /\ purchases[p].status # "NONE" /\ ~purchases[p].old
    /\ p \in CardPurchases => stripe[p] # "open"
    /\ purchases' = [purchases EXCEPT ![p].old = TRUE]
    /\ UNCHANGED <<walletVars, stripe, events, workers>>

-----------------------------------------------------------------------------
(* completePurchase: the only path that credits a wallet.                  *)

\* Mutated: the status is not looked at again.
CompletePurchaseAgain(p) ==
    /\ PostTransaction("PURCHASE", Exact(Price[p]), FALSE, p)
    /\ SetStatus(p, "COMPLETED")
    /\ UNCHANGED <<stripe, events>>

\* Under the row lock: only a PENDING purchase is credited, a COMPLETED one is
\* left alone, any other makes the call fail and changes nothing.
CompletePurchase(p) ==
    /\ purchases[p].status = "PENDING"
    /\ PostTransaction("PURCHASE", Exact(Price[p]), FALSE, p)
    /\ SetStatus(p, "COMPLETED")
    /\ UNCHANGED <<stripe, events>>

\* Mutated: a completed session is taken for a paid one.
GrantsUnpaid(e) == e.type \in {"completed", "async_payment_succeeded"} /\ e.matches

\* The event grants credits: the money is there and it is the right amount.
GrantsCredit(e) ==
    /\ e.type = "async_payment_succeeded" \/ (e.type = "completed" /\ e.paid)
    /\ e.matches

\* handleStripeEvent, checkout.session.completed / async_payment_succeeded:
\* the purchase looked up first is used only for its id and its amount.
HandlePaid(e) ==
    /\ GrantsCredit(e)
    /\ CompletePurchase(e.purchase)
    /\ UNCHANGED workers

\* handleStripeEvent, async_payment_failed: the purchase is read as PENDING ...
HandleFailed(w, e) ==
    /\ e.type = "async_payment_failed"
    /\ workers[w] = IdleWorker
    /\ purchases[e.purchase].status = "PENDING"
    /\ workers' = [workers EXCEPT ![w] = [task |-> "fail", purchase |-> e.purchase]]
    /\ UNCHANGED <<walletVars, purchases, stripe, events>>

\* handleStripeEvent, checkout.session.expired: one conditional update, found
\* by the session id.
HandleExpired(e) ==
    /\ e.type = "expired"
    /\ purchases[e.purchase].session
    /\ purchases[e.purchase].status = "PENDING"
    /\ SetStatus(e.purchase, "EXPIRED")
    /\ UNCHANGED <<walletVars, stripe, events, workers>>

\* Mutated: bank transfers are swept as well.
AbandonedOnAnyRail(p) == purchases[p].status = "PENDING" /\ purchases[p].old

\* Mutated: only purchases whose session id was saved are swept.
AbandonedWithSession(p) ==
    /\ p \in CardPurchases
    /\ purchases[p].status = "PENDING"
    /\ purchases[p].old
    /\ purchases[p].session

\* The purchases the sweep's one conditional update expires.
Abandoned(p) ==
    /\ p \in CardPurchases
    /\ purchases[p].status = "PENDING"
    /\ purchases[p].old

\* expireStaleStripePurchases: all of them in one statement.
ExpireStaleStripePurchases ==
    /\ \E p \in PurchaseIds : Abandoned(p)
    /\ purchases' = [p \in PurchaseIds |->
            IF Abandoned(p) THEN [purchases[p] EXCEPT !.status = "EXPIRED"]
                            ELSE purchases[p]]
    /\ UNCHANGED <<walletVars, stripe, events, workers>>

-----------------------------------------------------------------------------
(* The bank transfer rail and the customer's own cancellation.             *)

SubmitBankTransfer(p) ==
    /\ purchases[p].status = "NONE"
    /\ SetStatus(p, "PENDING")
    /\ UNCHANGED <<walletVars, stripe, events, workers>>

\* A request reads the purchase as PENDING and goes on to its task.
Start(w, p, task) ==
    /\ workers[w] = IdleWorker
    /\ purchases[p].status = "PENDING"
    /\ workers' = [workers EXCEPT ![w] = [task |-> task, purchase |-> p]]
    /\ UNCHANGED <<walletVars, purchases, stripe, events>>

CancelOwnPending(w, p) == Start(w, p, "cancel")
ReviewBankTransfer(w, p) ==
    /\ p \in BankPurchases
    /\ Start(w, p, "approve") \/ Start(w, p, "reject")

Done(w) == workers' = [workers EXCEPT ![w] = IdleWorker]

\* The status each blind write leaves behind.
Outcome == [fail |-> "REJECTED", cancel |-> "CANCELLED", reject |-> "REJECTED"]

\* The update by id that no longer looks at the status.
WriteOutcome(w) ==
    /\ workers[w].task \in DOMAIN Outcome
    /\ SetStatus(workers[w].purchase, Outcome[workers[w].task])
    /\ Done(w)
    /\ UNCHANGED <<walletVars, stripe, events>>

\* An approval goes through completePurchase, which looks again.
Approve(w) ==
    /\ workers[w].task = "approve"
    /\ CompletePurchase(workers[w].purchase)
    /\ Done(w)

\* The process dies, or completePurchase refuses: nothing is written.
GiveUp(w) ==
    /\ workers[w] # IdleWorker
    /\ Done(w)
    /\ UNCHANGED <<walletVars, purchases, stripe, events>>

-----------------------------------------------------------------------------
\* Other components move the same wallet: refunds, charges, its settings.
Elsewhere ==
    /\ \/ \E p \in Postings : PostTransaction(p.type, p.amount, p.allowNegative, 0)
       \/ \E status \in WalletStatuses : UpdateWalletSettings(status, NoThreshold)
    /\ UNCHANGED purchaseVars

PurchasesNext ==
    \/ \E p \in CardPurchases :
          \/ CreateStripeCheckout(p) \/ OpenSession(p) \/ SaveSession(p)
          \/ Pay(p) \/ PayLater(p) \/ FundsArrive(p) \/ FundsFail(p)
          \/ SessionExpires(p)
    \/ \E p \in BankPurchases : SubmitBankTransfer(p)
    \/ \E p \in PurchaseIds : GrowsOld(p)
    \/ \E e \in events :
          \/ HandlePaid(e) \/ HandleExpired(e)
          \/ \E w \in Workers : HandleFailed(w, e)
    \/ ExpireStaleStripePurchases
    \/ \E w \in Workers :
          \/ \E p \in PurchaseIds : CancelOwnPending(w, p) \/ ReviewBankTransfer(w, p)
          \/ WriteOutcome(w) \/ Approve(w) \/ GiveUp(w)
    \/ Elsewhere

\* The cron runs the sweep every ten minutes, time passes, and Stripe ends
\* every open session within a day.
Fairness ==
    /\ WF_vars(ExpireStaleStripePurchases)
    /\ \A p \in CardPurchases : WF_vars(SessionExpires(p)) /\ WF_vars(GrowsOld(p))

PurchasesSpec == PurchasesInit /\ [][PurchasesNext]_vars /\ Fairness

-----------------------------------------------------------------------------
(* Properties.                                                             *)

\* Type invariant of the purchase rows and of the work in flight.
PurchasesTypeOK ==
    /\ TypeOK
    /\ purchases \in [PurchaseIds -> [status : PurchaseStatuses, session : BOOLEAN,
                                      old : BOOLEAN]]
    /\ stripe \in [CardPurchases -> SessionStates]
    /\ events \subseteq [type : EventTypes, purchase : CardPurchases,
                         paid : BOOLEAN, matches : BOOLEAN]
    /\ workers \in [Workers -> [task : {"idle", "fail", "cancel", "reject", "approve"},
                                purchase : PurchaseIds \cup {0}]]

\* The ledger rows that credit purchase p.
CreditRows(p) ==
    {i \in 1..Len(ledger) : ledger[i].type = "PURCHASE" /\ ledger[i].ref = p}
Credited(p) == CreditRows(p) # {}

\* "Idempotent: PENDING -> COMPLETED happens under a row lock that re-checks
\* status": however often and in whatever order webhooks, approvals and their
\* repetitions arrive, a purchase is credited at most once, with its own
\* amount, and a COMPLETED one has been credited.
CreditedOnce ==
    \A p \in PurchaseIds :
        /\ \A i, j \in CreditRows(p) : i = j
        /\ \A i \in CreditRows(p) : ledger[i].amount = Price[p]
        /\ purchases[p].status = "COMPLETED" => Credited(p)

\* "Credits are granted ONLY when Stripe says the money is there", and never
\* on an amount that differs from the purchase.
CreditNeedsMoney ==
    \A p \in CardPurchases : Credited(p) =>
        /\ stripe[p] = "paid"
        /\ \E e \in events : e.purchase = p /\ e.paid /\ e.matches

\* The sweep and the expiry webhook race the payment without ever expiring a
\* purchase that was credited, and bank transfers are exempt from both.
ExpiredIsUncredited ==
    \A p \in PurchaseIds : purchases[p].status = "EXPIRED" =>
        /\ ~Credited(p)
        /\ p \in CardPurchases

\* "Card purchases whose webhook never arrived must not sit PENDING forever"
\* (expireStaleStripePurchases), even when every event is lost.
CardPurchasesAreDecided ==
    \A p \in CardPurchases :
        purchases[p].status = "PENDING" ~> purchases[p].status # "PENDING"

\* "Session finished but funds have not settled: keep the purchase PENDING,
\* async_payment_succeeded/failed decides" (purchase.service.ts:127-128).
SettlementDecides ==
    [][\A p \in CardPurchases :
          stripe[p] = "unpaid" /\ purchases[p].status = "PENDING"
             => purchases'[p].status # "EXPIRED"]_vars
=============================================================================
