------------------------------ MODULE Disputes ------------------------------
(***************************************************************************)
(* Disputes and refunds over the wallet of module Wallet, as               *)
(* dispute.service.ts and refund.service.ts run them.                      *)
(*                                                                         *)
(* An administrator's action is a sequence of database statements with no  *)
(* transaction around them: it reads the dispute, checks the ledger or the *)
(* earlier refunds, pays out through Stripe, posts to the wallet (one      *)
(* locked transaction, the operation of Wallet) and updates the rows.      *)
(* Other requests, and the death of the process, come in between.          *)
(*                                                                         *)
(* The wallet starts with one card purchase credited and one AI request    *)
(* charged: ledger rows 1 and 2.                                           *)
(***************************************************************************)
EXTENDS Wallet, FiniteSets

CONSTANTS
    DisputeIds,     \* disputes the customer may raise
    Admins,         \* administrator (and customer) requests in flight
    Price,          \* units of the purchase that may be refunded
    Charge,         \* units of the usage charge that may be reversed
    Cent,           \* units in a cent: 10000, less in a small instance
    RefundRequests, \* [kind, amount, capped]; capped: names the purchase
    Adjustments,    \* bonuses and manual adjustments, as [type, amount]
    MaxRefunds      \* bound: refund rows ever made

RefundKinds == {"WALLET_CREDIT", "CASH"}

ASSUME DisputesAssumption ==
    /\ DisputeIds \subseteq Nat \ {0}
    /\ {Price, Charge, Cent, MaxRefunds} \subseteq Nat \ {0}
    /\ Charge <= Price
    /\ IsFiniteSet(Admins) /\ Admins # {}
    /\ RefundRequests \subseteq [kind : RefundKinds, amount : Nat \ {0},
                                 capped : BOOLEAN]
    /\ \A r \in RefundRequests : r.kind = "CASH" => r.capped
    /\ Adjustments \subseteq [type : {"BONUS_CREDIT", "DISPUTE_RESOLUTION"},
                              amount : Int \ {0}]
    /\ \A a \in Adjustments : a.type = "BONUS_CREDIT" => a.amount > 0

VARIABLES
    purchase,   \* status of the ai_credit_purchases row
    refunds,    \* the ai_refunds rows, in creation order
    payouts,    \* units Stripe paid back to the card for each refund (external)
    disputes,   \* status of each ai_disputes row
    admins      \* where each request is, and what it remembers

vars == <<walletVars, purchase, refunds, payouts, disputes, admins>>
rows == <<purchase, refunds, payouts, disputes>>

DisputeStatuses == {"OPEN", "UNDER_INVESTIGATION", "AWAITING_CUSTOMER",
                    "RESOLVED", "CLOSED"}
Steps == {"idle", "checkReversal", "post", "checkRefund", "createRefund", "payOut",
          "postRefund", "completeRefund", "markRefunded", "failRefund", "setStatus"}

NoRequest == [kind |-> "WALLET_CREDIT", amount |-> 0, capped |-> FALSE]
NoEntry == [type |-> "DISPUTE_RESOLUTION", amount |-> 0, ref |-> 0]

\* dispute: the dispute acted on (0: a refund without one); entry: what to
\* post; request, refund, full: the refund at work, and whether it was seen to
\* use up the purchase; outcome: the status to leave the dispute in.
IdleAdmin == [at |-> "idle", dispute |-> 0, entry |-> NoEntry, request |-> NoRequest,
              refund |-> 0, full |-> FALSE, outcome |-> "RESOLVED"]

\* The wallet after the purchase and the charge, through applyTransaction.
Funded == Applied(NewWallet, "PURCHASE", Exact(Price))

DisputesInit ==
    /\ wallet = Applied(Funded, "USAGE_CHARGE", Exact(-Charge))
    /\ holds = <<[amount |-> Charge, status |-> "FINALIZED", overdue |-> FALSE]>>
    /\ ledger = <<LedgerRow(NewWallet, "PURCHASE", Exact(Price), 0),
                  LedgerRow(Funded, "USAGE_CHARGE", Exact(-Charge), 1)>>
    /\ purchase = "COMPLETED"
    /\ refunds = <<>>
    /\ payouts = [r \in 1..MaxRefunds |-> 0]
    /\ disputes = [d \in DisputeIds |-> "NONE"]
    /\ admins = [a \in Admins |-> IdleAdmin]

Become(a, work) == admins' = [admins EXCEPT ![a] = work]
Goto(a, step) == admins' = [admins EXCEPT ![a].at = step]
SetDispute(d, status) == disputes' = [disputes EXCEPT ![d] = status]

-----------------------------------------------------------------------------
(* The dispute's own workflow.                                             *)

\* create
OpenDispute(d) ==
    /\ disputes[d] = "NONE"
    /\ SetDispute(d, "OPEN")
    /\ UNCHANGED <<walletVars, purchase, refunds, payouts, admins>>

\* addMessage by the customer: AWAITING_CUSTOMER is read, and the flip back to
\* investigation is written afterwards.
AddMessage(a, d) ==
    /\ admins[a] = IdleAdmin
    /\ disputes[d] = "AWAITING_CUSTOMER"
    /\ Become(a, [IdleAdmin EXCEPT !.at = "setStatus", !.dispute = d,
                                   !.outcome = "UNDER_INVESTIGATION"])
    /\ UNCHANGED <<walletVars, rows>>

\* updateStatus: any status, from any status.
UpdateStatus(d, status) ==
    /\ disputes[d] # "NONE"
    /\ SetDispute(d, status)
    /\ UNCHANGED <<walletVars, purchase, refunds, payouts, admins>>

\* adminAction reads the dispute, refuses a CLOSED one and goes on to the first
\* statement of its case.
AdminAction(a, d, work) ==
    /\ admins[a] = IdleAdmin
    /\ disputes[d] \notin {"NONE", "CLOSED"}
    /\ Become(a, [work EXCEPT !.dispute = d])
    /\ UNCHANGED <<walletVars, rows>>

Reject == [IdleAdmin EXCEPT !.at = "setStatus", !.outcome = "CLOSED"]
Escalate == [IdleAdmin EXCEPT !.at = "setStatus", !.outcome = "UNDER_INVESTIGATION"]
ReverseCharge(row) ==
    [IdleAdmin EXCEPT !.at = "checkReversal",
        !.entry = [type |-> "CHARGE_REVERSAL", amount |-> -ledger[row].amount, ref |-> row]]
Adjust(adjustment) ==
    [IdleAdmin EXCEPT !.at = "post",
        !.entry = [type |-> adjustment.type, amount |-> adjustment.amount, ref |-> 0]]
Refund(request) == [IdleAdmin EXCEPT !.at = "checkRefund", !.request = request]

\* The refund endpoint, outside any dispute.
CreateRefund(a, request) ==
    /\ admins[a] = IdleAdmin
    /\ Become(a, Refund(request))
    /\ UNCHANGED <<walletVars, rows>>

Reversals(row) == {i \in 1..Len(ledger) :
                     ledger[i].type = "CHARGE_REVERSAL" /\ ledger[i].ref = row}

\* Mutated: no guard against a second reversal.
CheckReversalUnguarded(a) ==
    /\ admins[a].at = "checkReversal"
    /\ Goto(a, "post")
    /\ UNCHANGED <<walletVars, rows>>

\* REVERSE_CHARGE looks for an earlier reversal, then posts its own.
CheckReversal(a) ==
    /\ admins[a].at = "checkReversal"
    /\ IF Reversals(admins[a].entry.ref) = {} THEN Goto(a, "post")
                                              ELSE Become(a, IdleAdmin)
    /\ UNCHANGED <<walletVars, rows>>

\* The wallet posting of a reversal, a bonus or an adjustment.
Post(a) ==
    LET entry == admins[a].entry IN
    /\ admins[a].at = "post"
    /\ PostTransaction(entry.type, Exact(entry.amount), FALSE, entry.ref)
    /\ Goto(a, "setStatus")
    /\ UNCHANGED rows

\* resolve, or the one update of a case without money: by id, unconditional.
WriteStatus(a) ==
    /\ admins[a].at = "setStatus"
    /\ SetDispute(admins[a].dispute, admins[a].outcome)
    /\ Become(a, IdleAdmin)
    /\ UNCHANGED <<walletVars, purchase, refunds, payouts>>

-----------------------------------------------------------------------------
(* RefundService.create, statement by statement.                           *)

RefundStatuses == {"PENDING", "COMPLETED", "FAILED"}

\* What the refunds in set S that name the purchase add up to.
Refunded(S) ==
    Total([r \in 1..Len(refunds) |->
             IF r \in S /\ refunds[r].capped THEN refunds[r].amount ELSE 0], Len(refunds))

\* The sum that the cap reads: PENDING and COMPLETED refunds.
Standing == {r \in 1..Len(refunds) : refunds[r].status # "FAILED"}
RefundedSoFar == Refunded(Standing)

\* Mutated: each refund is capped, their sum is not.
CheckRefundAlone(a) ==
    LET request == admins[a].request IN
    /\ admins[a].at = "checkRefund"
    /\ IF request.capped /\ request.amount > Price
       THEN Become(a, IdleAdmin)
       ELSE Become(a, [admins[a] EXCEPT !.at = "createRefund",
                          !.full = request.capped /\ request.amount >= Price])
    /\ UNCHANGED <<walletVars, rows>>

\* Mutated: any cash refund makes the purchase REFUNDED.
CheckRefundAlwaysFull(a) ==
    LET request == admins[a].request IN
    /\ admins[a].at = "checkRefund"
    /\ IF request.capped /\ RefundedSoFar + request.amount > Price
       THEN Become(a, IdleAdmin)
       ELSE Become(a, [admins[a] EXCEPT !.at = "createRefund", !.full = request.capped])
    /\ UNCHANGED <<walletVars, rows>>

\* The cap: the sum is read here and the new row is written later.
CheckRefund(a) ==
    LET request == admins[a].request
        sum == RefundedSoFar + request.amount IN
    /\ admins[a].at = "checkRefund"
    /\ IF request.capped /\ sum > Price
       THEN Become(a, IdleAdmin)
       ELSE Become(a, [admins[a] EXCEPT !.at = "createRefund",
                                        !.full = request.capped /\ sum >= Price])
    /\ UNCHANGED <<walletVars, rows>>

\* Mutated: the wallet is debited without paying the card back.
InsertRefundNoPayOut(a) ==
    LET request == admins[a].request IN
    /\ admins[a].at = "createRefund"
    /\ Len(refunds) < MaxRefunds
    /\ refunds' = Append(refunds, [kind |-> request.kind, amount |-> request.amount,
                                   capped |-> request.capped, status |-> "PENDING"])
    /\ Become(a, [admins[a] EXCEPT !.at = "postRefund", !.refund = Len(refunds) + 1])
    /\ UNCHANGED <<walletVars, purchase, payouts, disputes>>

\* The PENDING row.
InsertRefund(a) ==
    LET request == admins[a].request IN
    /\ admins[a].at = "createRefund"
    /\ Len(refunds) < MaxRefunds
    /\ refunds' = Append(refunds, [kind |-> request.kind, amount |-> request.amount,
                                   capped |-> request.capped, status |-> "PENDING"])
    /\ Become(a, [admins[a] EXCEPT
                    !.at = IF request.kind = "CASH" THEN "payOut" ELSE "postRefund",
                    !.refund = Len(refunds) + 1])
    /\ UNCHANGED <<walletVars, purchase, payouts, disputes>>

\* What is left of the payment at Stripe (external).
Refundable == Price - Total(payouts, MaxRefunds)

\* Math.round(amount * 100) cents, in units.
RoundedToCents(amount) == ((amount + Cent \div 2) \div Cent) * Cent

\* createRefund in stripe.client.ts leaves the amount out of the request when
\* it is zero, and Stripe then pays back all that is left.
AmountAsked(amount) ==
    IF RoundedToCents(amount) = 0 THEN Refundable ELSE RoundedToCents(amount)

\* Stripe (external) pays and answers, pays and the answer is lost, or refuses;
\* it never pays back more than is left.
PayOut(a) ==
    LET asked == AmountAsked(admins[a].request.amount) IN
    /\ admins[a].at = "payOut"
    /\ \/ /\ asked \in 1..Refundable
          /\ payouts' = [payouts EXCEPT ![admins[a].refund] = asked]
          /\ Goto(a, "postRefund") \/ Goto(a, "failRefund")
       \/ Goto(a, "failRefund") /\ UNCHANGED payouts
    /\ UNCHANGED <<walletVars, purchase, refunds, disputes>>

\* The ledger entry: credits given back, or taken out against the cash.
RefundEntry(request) ==
    IF request.kind = "CASH" THEN -request.amount ELSE request.amount

\* Mutated: a refused posting does not stop the refund.
PostRefundAnyway(a) ==
    LET request == admins[a].request IN
    /\ admins[a].at = "postRefund"
    /\ \/ PostTransaction("REFUND", Exact(RefundEntry(request)),
                          request.kind = "CASH", admins[a].refund)
       \/ /\ ~MayApply(wallet, Exact(RefundEntry(request)), request.kind = "CASH")
          /\ UNCHANGED walletVars
    /\ Goto(a, "completeRefund")
    /\ UNCHANGED rows

PostRefund(a) ==
    LET request == admins[a].request IN
    /\ admins[a].at = "postRefund"
    /\ \/ /\ PostTransaction("REFUND", Exact(RefundEntry(request)),
                             request.kind = "CASH", admins[a].refund)
          /\ Goto(a, "completeRefund")
       \/ /\ ~MayApply(wallet, Exact(RefundEntry(request)), request.kind = "CASH")
          /\ Goto(a, "failRefund")
          /\ UNCHANGED walletVars
    /\ UNCHANGED rows

\* After the money steps: on to the dispute, if there is one.
Finish(a) ==
    IF admins[a].dispute = 0 THEN Become(a, IdleAdmin) ELSE Goto(a, "setStatus")

CompleteRefund(a) ==
    /\ admins[a].at = "completeRefund"
    /\ refunds' = [refunds EXCEPT ![admins[a].refund].status = "COMPLETED"]
    /\ IF admins[a].request.kind = "CASH" /\ admins[a].full
       THEN Goto(a, "markRefunded")
       ELSE Finish(a)
    /\ UNCHANGED <<walletVars, purchase, payouts, disputes>>

MarkRefunded(a) ==
    /\ admins[a].at = "markRefunded"
    /\ purchase' = "REFUNDED"
    /\ Finish(a)
    /\ UNCHANGED <<walletVars, refunds, payouts, disputes>>

\* A statement inside the try block fails in the database.
StatementFails(a) ==
    /\ admins[a].at \in {"postRefund", "completeRefund", "markRefunded"}
    /\ Goto(a, "failRefund")
    /\ UNCHANGED <<walletVars, rows>>

\* Mutated: the error is not thrown on.
FailRefundQuietly(a) ==
    /\ admins[a].at = "failRefund"
    /\ refunds' = [refunds EXCEPT ![admins[a].refund].status = "FAILED"]
    /\ Finish(a)
    /\ UNCHANGED <<walletVars, purchase, payouts, disputes>>

\* The catch block; the error is thrown on, so the dispute is left alone.
FailRefund(a) ==
    /\ admins[a].at = "failRefund"
    /\ refunds' = [refunds EXCEPT ![admins[a].refund].status = "FAILED"]
    /\ Become(a, IdleAdmin)
    /\ UNCHANGED <<walletVars, purchase, payouts, disputes>>

-----------------------------------------------------------------------------
\* The process dies, or a statement outside the try block fails.
GiveUp(a) ==
    /\ admins[a] # IdleAdmin
    /\ Become(a, IdleAdmin)
    /\ UNCHANGED <<walletVars, rows>>

\* Meanwhile an administrator closes or reopens the wallet; postings do not tell
\* a SUSPENDED wallet from an ACTIVE one.
WalletSettings ==
    /\ \E status \in {"ACTIVE", "CLOSED"} : UpdateWalletSettings(status, NoThreshold)
    /\ UNCHANGED <<rows, admins>>

DisputesNext ==
    \/ \E d \in DisputeIds :
          \/ OpenDispute(d)
          \/ \E status \in DisputeStatuses : UpdateStatus(d, status)
          \/ \E a \in Admins :
                \/ AddMessage(a, d)
                \/ AdminAction(a, d, Reject)
                \/ AdminAction(a, d, Escalate)
                \/ \E row \in 1..Len(ledger) :
                      /\ ledger[row].type = "USAGE_CHARGE"
                      /\ AdminAction(a, d, ReverseCharge(row))
                \/ \E adjustment \in Adjustments : AdminAction(a, d, Adjust(adjustment))
                \/ \E request \in RefundRequests : AdminAction(a, d, Refund(request))
    \/ \E a \in Admins :
          \/ \E request \in RefundRequests : CreateRefund(a, request)
          \/ CheckReversal(a) \/ Post(a) \/ WriteStatus(a)
          \/ CheckRefund(a) \/ InsertRefund(a) \/ PayOut(a) \/ PostRefund(a)
          \/ CompleteRefund(a) \/ MarkRefunded(a) \/ StatementFails(a)
          \/ FailRefund(a) \/ GiveUp(a)
    \/ WalletSettings

DisputesSpec == DisputesInit /\ [][DisputesNext]_vars

-----------------------------------------------------------------------------
(* Properties.                                                             *)

Request == [kind : RefundKinds, amount : Nat, capped : BOOLEAN]

\* Type invariant of the refund and dispute rows and of the requests in flight.
DisputesTypeOK ==
    /\ TypeOK
    /\ purchase \in {"COMPLETED", "REFUNDED"}
    /\ refunds \in Seq([kind : RefundKinds, amount : Nat \ {0}, capped : BOOLEAN,
                        status : RefundStatuses])
    /\ payouts \in [1..MaxRefunds -> 0..Price]
    /\ disputes \in [DisputeIds -> DisputeStatuses \cup {"NONE"}]
    /\ admins \in [Admins ->
           [at : Steps, dispute : DisputeIds \cup {0},
            entry : [type : LedgerTypes, amount : Int, ref : Nat],
            request : Request, refund : 0..Len(refunds), full : BOOLEAN,
            outcome : DisputeStatuses]]

\* The ledger rows of refund r.
RefundRows(r) ==
    {i \in 1..Len(ledger) : ledger[i].type = "REFUND" /\ ledger[i].ref = r}

\* "Refunds - always ledgered" (refund.service.ts): whatever failed or died on
\* the way, no refund is posted twice, and a COMPLETED one has its ledger row,
\* of its own amount and of the sign of its kind.
CompletedRefundIsLedgered ==
    \A r \in 1..Len(refunds) :
        /\ \A i, j \in RefundRows(r) : i = j
        /\ \A i \in RefundRows(r) :
              ledger[i].amount = IF refunds[r].kind = "CASH" THEN -refunds[r].amount
                                                             ELSE refunds[r].amount
        /\ refunds[r].status = "COMPLETED" => RefundRows(r) # {}

\* Credits are taken out of the wallet for a cash refund only when the card
\* has really been paid back ("the wallet gives the credits back").
DebitFollowsPayout ==
    \A r \in 1..Len(refunds) :
        refunds[r].kind = "CASH" /\ RefundRows(r) # {} => payouts[r] > 0

\* Sets of refunds too small to hold one of each request.
FewerThanAdmins ==
    {K \in SUBSET (1..Len(refunds)) : Cardinality(K) < Cardinality(Admins)}

\* "Only a FULL cumulative refund changes the purchase status"
\* (refund.service.ts:130), as far as the unlocked check keeps it: when the
\* purchase is REFUNDED, the refunds that stand add up to its price, but for at
\* most one of each other request, which failed after it was counted, and the
\* card was paid. With one request at a time the standing refunds alone do.
RefundedWasCovered ==
    purchase = "REFUNDED" =>
        /\ \E K \in FewerThanAdmins : Refunded(Standing \cup K) >= Price
        /\ \E r \in 1..Len(refunds) : refunds[r].kind = "CASH" /\ payouts[r] > 0

\* "Several partial refunds must never add up to more than was paid"
\* (refund.service.ts:65), as far as the unlocked check keeps it: the refunds that
\* stand stay within the price, but for at most one of each other request, which
\* passed the check before the rest was written. With one request at a time
\* there is no exception.
RefundsBounded == \E K \in FewerThanAdmins : Refunded(Standing \ K) <= Price

\* The duplicate-reversal guard holds up to the requests that overlap: a charge
\* is never reversed more often than there are concurrent administrators.
ReversalsBounded ==
    \A row \in 1..Len(ledger) : Cardinality(Reversals(row)) <= Cardinality(Admins)

\* A dispute is settled by a refund only once that refund is COMPLETED and in
\* the ledger: a refund that failed at Stripe, at the wallet or in the database
\* leaves the dispute as it is, for another action.
ResolvedByMoney ==
    \A a \in Admins :
        admins[a].at = "setStatus" /\ admins[a].request # NoRequest =>
            /\ refunds[admins[a].refund].status = "COMPLETED"
            /\ RefundRows(admins[a].refund) # {}

\* What the refunds of the purchase have really given back: the cash that Stripe
\* paid to the card and the credits that were posted to the wallet.
GivenBack ==
    Total([r \in 1..Len(refunds) |->
             CASE ~refunds[r].capped -> 0
               [] refunds[r].kind = "CASH" -> payouts[r]
               [] OTHER -> IF RefundRows(r) = {} THEN 0 ELSE refunds[r].amount],
          Len(refunds))

\* "Cap CUMULATIVE refunds at the original amount - several partial refunds must
\* never add up to more than was paid" (refund.service.ts:65-66): once the card
\* has been paid, cash and credits together stay within the price.
RefundsCapped == Total(payouts, MaxRefunds) > 0 => GivenBack <= Price

\* "A charge may be reversed exactly once - a second reversal would pay the
\* customer twice for the same transaction" (dispute.service.ts:217-218).
ChargeReversedOnce ==
    \A row \in 1..Len(ledger) : Cardinality(Reversals(row)) <= 1
=============================================================================
