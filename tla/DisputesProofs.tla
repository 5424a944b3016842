---------------------------- MODULE DisputesProofs ---------------------------
(***************************************************************************)
(* Proofs about Disputes: for any number of requests, refunds and          *)
(* disputes, any amounts, and failures and deaths at any statement.        *)
(***************************************************************************)
EXTENDS Disputes, WalletProofs, FiniteSetTheorems

Paying == {"payOut", "postRefund", "completeRefund", "markRefunded", "failRefund"}
Entries == {"CHARGE_REVERSAL", "BONUS_CREDIT", "DISPUTE_RESOLUTION"}

\* What a request knows of the refund it made, statement by statement.
MadeRefund(w) ==
    /\ refunds[w.refund].kind = w.request.kind
    /\ refunds[w.refund].amount = w.request.amount
    /\ w.at \in {"payOut", "postRefund"} => RefundRows(w.refund) = {}
    /\ w.at = "postRefund" /\ w.request.kind = "CASH" => payouts[w.refund] > 0
    /\ w.at \in {"completeRefund", "markRefunded", "setStatus"} => RefundRows(w.refund) # {}
    /\ w.at \in {"markRefunded", "setStatus"} => refunds[w.refund].status = "COMPLETED"
    /\ w.at = "markRefunded" => w.request.kind = "CASH" /\ w.full

\* What a request is about: a refund it made, a refund it may make, or an
\* entry that is none.
Works(w) ==
    /\ w.refund <= Len(refunds)
    /\ w.refund # 0 <=> w.at \in Paying \/ (w.at = "setStatus" /\ w.request # NoRequest)
    /\ w.refund # 0 => MadeRefund(w)
    /\ w.at \in Paying \cup {"checkRefund", "createRefund"} => w.request \in RefundRequests
    /\ w.at \in {"checkReversal", "post"} => w.request = NoRequest /\ w.entry.type \in Entries
    /\ w.full /\ w.at = "createRefund" => w.request.capped
EachWorks == \A a \in Admins : Works(admins[a])

\* No two requests work on one refund.
EachHasItsRefund ==
    \A a, b \in Admins : a # b /\ admins[a].refund # 0
        => admins[a].refund # admins[b].refund

\* Refund entries of the ledger point at refunds.
RefundsAreNamed ==
    \A i \in 1..Len(ledger) : ledger[i].type = "REFUND" => ledger[i].ref \in 1..Len(refunds)

\* The books of refund r: at most one ledger row, of its amount and sign, there
\* when it is COMPLETED, and a debit only against money that Stripe paid out.
RefundIsRight(r) ==
    /\ \A i, j \in RefundRows(r) : i = j
    /\ \A i \in RefundRows(r) :
          ledger[i].amount = IF refunds[r].kind = "CASH" THEN -refunds[r].amount
                                                         ELSE refunds[r].amount
    /\ refunds[r].status = "COMPLETED" => RefundRows(r) # {}
    /\ refunds[r].kind = "CASH" /\ RefundRows(r) # {} => payouts[r] > 0

\* A REFUNDED purchase was paid back to the card, by one refund at least.
RefundedWasPaid ==
    purchase = "REFUNDED" =>
        \E r \in 1..Len(refunds) : refunds[r].kind = "CASH" /\ payouts[r] > 0

RefundRow == [kind : RefundKinds, amount : Nat \ {0}, capped : BOOLEAN,
              status : RefundStatuses]
AdminRow == [at : Steps, dispute : DisputeIds \cup {0},
             entry : [type : LedgerTypes, amount : Int, ref : Nat],
             request : Request, refund : Nat, full : BOOLEAN,
             outcome : DisputeStatuses]

RowTypesOK ==
    /\ purchase \in {"COMPLETED", "REFUNDED"}
    /\ refunds \in Seq(RefundRow)
    /\ Len(refunds) <= MaxRefunds
    /\ payouts \in [1..MaxRefunds -> 0..Price]
    /\ disputes \in [DisputeIds -> DisputeStatuses \cup {"NONE"}]

DisputesInv ==
    /\ WalletInv
    /\ RowTypesOK
    /\ admins \in [Admins -> AdminRow]
    /\ EachWorks
    /\ EachHasItsRefund
    /\ RefundsAreNamed
    /\ \A r \in 1..Len(refunds) : RefundIsRight(r)
    /\ RefundedWasPaid

\* A refund that a step leaves alone.
Same(r) ==
    /\ refunds'[r] = refunds[r]
    /\ payouts'[r] = payouts[r]
    /\ RefundRows(r)' = RefundRows(r)
    /\ \A i \in RefundRows(r) : ledger'[i] = ledger[i]

-----------------------------------------------------------------------------
(* Rows.                                                                   *)

\* The types of the rows, spelled out.
LEMMA RowTypes ==
    ASSUME DisputesInv
    PROVE  /\ WalletInv /\ TypeOK /\ Len(refunds) \in Nat /\ Len(ledger) \in Nat
           /\ \A a \in Admins : admins[a] \in AdminRow /\ admins[a].refund \in Nat
           /\ \A r \in 1..Len(refunds) : refunds[r] \in RefundRow /\ r \in 1..MaxRefunds
           /\ MaxRefunds \in Nat /\ Price \in Nat \ {0}
<1>1. WalletInv /\ TypeOK /\ Len(ledger) \in Nat
  BY Typing DEF DisputesInv, WalletInv
<1>2. refunds \in Seq(RefundRow) /\ Len(refunds) <= MaxRefunds
  BY DEF DisputesInv, RowTypesOK
<1>3. Len(refunds) \in Nat /\ \A r \in 1..Len(refunds) : refunds[r] \in RefundRow
  BY <1>2, LenProperties, ElementOfSeq
<1>4. MaxRefunds \in Nat /\ Price \in Nat \ {0}
  BY DisputesAssumption
<1>5. \A r \in 1..Len(refunds) : r \in 1..MaxRefunds
  BY <1>2, <1>3, <1>4
<1>6. \A a \in Admins : admins[a] \in AdminRow
  BY DEF DisputesInv
<1>7. \A a \in Admins : admins[a].refund \in Nat
  BY <1>6 DEF AdminRow
<1> QED BY <1>1, <1>3, <1>4, <1>5, <1>6, <1>7

\* A step that writes no ledger row.
LEMMA NoRowNoEntry ==
    ASSUME ledger' = ledger, NEW r
    PROVE  /\ RefundRows(r)' = RefundRows(r)
           /\ \A i \in RefundRows(r) : ledger'[i] = ledger[i]
  BY DEF RefundRows

\* One more ledger row that is not a refund's.
LEMMA OtherEntry ==
    ASSUME ledger \in Seq(LedgerEntry), NEW row \in LedgerEntry,
           ledger' = Append(ledger, row), NEW r, row.type # "REFUND" \/ row.ref # r
    PROVE  /\ RefundRows(r)' = RefundRows(r)
           /\ \A i \in RefundRows(r) : ledger'[i] = ledger[i]
<1>1. /\ Len(ledger) \in Nat
      /\ Len(ledger') = Len(ledger) + 1
      /\ \A i \in 1..Len(ledger) : ledger'[i] = ledger[i]
      /\ ledger'[Len(ledger) + 1] = row
  BY OneMoreRow
<1>2. \A i : i \in 1..Len(ledger') <=> i \in 1..Len(ledger) \/ i = Len(ledger) + 1
  BY <1>1
<1> QED BY <1>1, <1>2 DEF RefundRows

\* The refund's own ledger row.
LEMMA OwnEntry ==
    ASSUME ledger \in Seq(LedgerEntry), NEW row \in LedgerEntry,
           ledger' = Append(ledger, row), NEW r, row.type = "REFUND", row.ref = r,
           RefundRows(r) = {}
    PROVE  RefundRows(r)' = {Len(ledger) + 1} /\ ledger'[Len(ledger) + 1] = row
<1>1. /\ Len(ledger) \in Nat
      /\ Len(ledger') = Len(ledger) + 1
      /\ \A i \in 1..Len(ledger) : ledger'[i] = ledger[i]
      /\ ledger'[Len(ledger) + 1] = row
  BY OneMoreRow
<1>2. \A i : i \in 1..Len(ledger') <=> i \in 1..Len(ledger) \/ i = Len(ledger) + 1
  BY <1>1
<1> QED BY <1>1, <1>2 DEF RefundRows

\* Every ledger row after the step names a refund that exists.
LEMMA NamesAfter ==
    ASSUME DisputesInv, NEW row \in LedgerEntry, ledger' = Append(ledger, row),
           row.type = "REFUND" => row.ref \in 1..Len(refunds), refunds' = refunds
    PROVE  RefundsAreNamed'
<1>1. ledger \in Seq(LedgerEntry)
  BY RowTypes DEF TypeOK
<1>2. /\ Len(ledger) \in Nat
      /\ Len(ledger') = Len(ledger) + 1
      /\ \A i \in 1..Len(ledger) : ledger'[i] = ledger[i]
      /\ ledger'[Len(ledger) + 1] = row
  BY <1>1, OneMoreRow
<1>3. \A i : i \in 1..Len(ledger') <=> i \in 1..Len(ledger) \/ i = Len(ledger) + 1
  BY <1>2
<1> QED BY <1>2, <1>3 DEF DisputesInv, RefundsAreNamed

-----------------------------------------------------------------------------
(* What a step must establish.                                             *)

\* A request whose refund the step leaves alone goes on as it was.
LEMMA WorkStays ==
    ASSUME NEW w \in AdminRow, Works(w), w.refund # 0 => Same(w.refund),
           Len(refunds) \in Nat, Len(refunds') \in Nat, Len(refunds) <= Len(refunds')
    PROVE  Works(w)'
<1>1. w.refund \in Nat
  BY DEF AdminRow
<1>2. w.refund <= Len(refunds')
  BY <1>1 DEF Works
<1>3. w.refund # 0 => MadeRefund(w)'
  BY DEF Works, MadeRefund, Same
<1> QED BY <1>2, <1>3 DEF Works

\* The purchase that was paid back stays so.
LEMMA PaidStays ==
    ASSUME DisputesInv, purchase' = purchase, Len(refunds') \in Nat,
           Len(refunds) <= Len(refunds'),
           \A r \in 1..Len(refunds) : /\ refunds'[r].kind = refunds[r].kind
                                      /\ payouts[r] > 0 => payouts'[r] > 0
    PROVE  RefundedWasPaid'
<1> SUFFICES ASSUME purchase = "REFUNDED"
             PROVE  \E r \in 1..Len(refunds') : refunds'[r].kind = "CASH" /\ payouts'[r] > 0
  BY DEF RefundedWasPaid
<1>1. PICK r \in 1..Len(refunds) : refunds[r].kind = "CASH" /\ payouts[r] > 0
  BY DEF DisputesInv, RefundedWasPaid
<1>2. r \in 1..Len(refunds')
  BY RowTypes
<1> QED BY <1>1, <1>2

\* A step of request a, which becomes w and works on refund x.
LEMMA AdminStep ==
    ASSUME DisputesInv, WalletInv', RowTypesOK', RefundsAreNamed', RefundedWasPaid',
           NEW a \in Admins, NEW w \in AdminRow, Become(a, w), Works(w)',
           NEW x \in Nat, w.refund \in {0, x},
           \A b \in Admins \ {a} : admins[b].refund # 0 => admins[b].refund # x,
           Len(refunds') \in Nat, Len(refunds) <= Len(refunds'),
           \A r \in 1..Len(refunds) : r # x => Same(r),
           \A r \in 1..Len(refunds') : r \in 1..Len(refunds) \/ r = x,
           x \in 1..Len(refunds') => RefundIsRight(x)'
    PROVE  DisputesInv'
<1>1. admins \in [Admins -> AdminRow]
  BY DEF DisputesInv
<1>2. /\ admins' \in [Admins -> AdminRow]
      /\ admins'[a] = w
      /\ \A b \in Admins \ {a} : admins'[b] = admins[b]
  BY <1>1 DEF Become
<1>3. EachWorks'
  <2> SUFFICES ASSUME NEW b \in Admins PROVE Works(admins[b])'
    BY DEF EachWorks
  <2>1. CASE b = a
    BY <2>1, <1>2
  <2>2. CASE b # a
    <3>1. PICK v \in AdminRow : v = admins[b]
      BY <1>1
    <3>2. Works(v)
      BY <3>1 DEF DisputesInv, EachWorks
    <3>3. v.refund \in Nat /\ (v.refund # 0 => v.refund \in 1..Len(refunds))
      BY <3>2, RowTypes DEF Works, AdminRow
    <3>4. v.refund # 0 => Same(v.refund)
      BY <3>1, <3>3, <2>2
    <3>5. Works(v)'
      <4>1. Len(refunds) \in Nat
        BY RowTypes
      <4> QED BY <3>2, <3>4, <4>1, WorkStays
    <3> QED BY <3>1, <3>5, <2>2, <1>2
  <2> QED BY <2>1, <2>2
<1>4. EachHasItsRefund'
  <2> SUFFICES ASSUME NEW b \in Admins, NEW c \in Admins, b # c, admins'[b].refund # 0
               PROVE  admins'[b].refund # admins'[c].refund
    BY DEF EachHasItsRefund
  <2>1. CASE b # a /\ c # a
    BY <2>1, <1>2 DEF DisputesInv, EachHasItsRefund
  <2>2. CASE b = a
    BY <2>2, <1>2
  <2>3. CASE c = a
    BY <2>3, <1>2
  <2> QED BY <2>1, <2>2, <2>3
<1>5. \A r \in 1..Len(refunds') : RefundIsRight(r)'
  <2> SUFFICES ASSUME NEW r \in 1..Len(refunds'), r # x PROVE RefundIsRight(r)'
    OBVIOUS
  <2>1. r \in 1..Len(refunds) /\ Same(r)
    OBVIOUS
  <2>2. RefundIsRight(r)
    BY <2>1 DEF DisputesInv
  <2> QED BY <2>1, <2>2 DEF RefundIsRight, Same
<1> QED BY <1>2, <1>3, <1>4, <1>5 DEF DisputesInv

\* A step that writes no money and no refund row, and leaves every request.
LEMMA BackgroundStep ==
    ASSUME DisputesInv, WalletInv', ledger' = ledger,
           UNCHANGED <<purchase, refunds, payouts, admins>>,
           disputes' \in [DisputeIds -> DisputeStatuses \cup {"NONE"}]
    PROVE  DisputesInv'
<1>1. RowTypesOK' /\ admins' \in [Admins -> AdminRow] /\ EachHasItsRefund'
  BY DEF DisputesInv, RowTypesOK, EachHasItsRefund
<1>2. EachWorks'
  BY DEF DisputesInv, EachWorks, Works, MadeRefund, RefundRows
<1>3. RefundsAreNamed' /\ RefundedWasPaid'
  BY DEF DisputesInv, RefundsAreNamed, RefundedWasPaid
<1>4. \A r \in 1..Len(refunds') : RefundIsRight(r)'
  BY DEF DisputesInv, RefundIsRight, RefundRows
<1> QED BY <1>1, <1>2, <1>3, <1>4 DEF DisputesInv

\* A step of request a that writes at most the status of a dispute.
LEMMA QuietStep ==
    ASSUME DisputesInv, NEW a \in Admins, NEW w \in AdminRow, Become(a, w), Works(w),
           w.refund \in {0, admins[a].refund},
           UNCHANGED <<walletVars, purchase, refunds, payouts>>,
           disputes' \in [DisputeIds -> DisputeStatuses \cup {"NONE"}]
    PROVE  DisputesInv'
<1>1. WalletInv' /\ ledger' = ledger
  BY RowTypes, WalletStays
<1>2. RowTypesOK' /\ RefundsAreNamed' /\ RefundedWasPaid'
  BY <1>1 DEF DisputesInv, RowTypesOK, RefundsAreNamed, RefundedWasPaid
<1>3. Works(w)'
  BY <1>1 DEF Works, MadeRefund, RefundRows
<1>4. PICK x \in Nat : x = admins[a].refund
  BY RowTypes
<1>5. \A b \in Admins \ {a} : admins[b].refund # 0 => admins[b].refund # x
  BY <1>4 DEF DisputesInv, EachHasItsRefund
<1>6. \A r \in 1..Len(refunds) : Same(r)
  BY <1>1, NoRowNoEntry DEF Same
<1>7. x \in 1..Len(refunds') => RefundIsRight(x)'
  BY <1>1 DEF DisputesInv, RefundIsRight, RefundRows
<1>8. Len(refunds) \in Nat /\ Len(refunds') = Len(refunds)
  BY RowTypes
<1>9. w.refund \in {0, x} /\ Len(refunds) <= Len(refunds') /\ Len(refunds') \in Nat
  BY <1>4, <1>8
<1>10. /\ \A r \in 1..Len(refunds) : r # x => Same(r)
       /\ \A r \in 1..Len(refunds') : r \in 1..Len(refunds) \/ r = x
  BY <1>6, <1>8
<1> QED BY <1>1, <1>2, <1>3, <1>5, <1>7, <1>8, <1>9, <1>10, AdminStep

\* The statement a request goes to is the only thing that changes in it.
LEMMA GotoBecomes ==
    ASSUME NEW w \in AdminRow, NEW step \in Steps
    PROVE  [w EXCEPT !.at = step] \in AdminRow
  BY DEF AdminRow

\* A request that has nothing to do.
LEMMA IdleWorks ==
    ASSUME DisputesInv
    PROVE  /\ IdleAdmin \in AdminRow /\ IdleAdmin.refund = 0
           /\ IdleAdmin.request = NoRequest /\ IdleAdmin.full = FALSE
           /\ Works(IdleAdmin)
<1>1. IdleAdmin \in AdminRow /\ IdleAdmin.refund = 0 /\ IdleAdmin.at = "idle"
      /\ IdleAdmin.request = NoRequest /\ IdleAdmin.full = FALSE
  BY SMT DEF IdleAdmin, AdminRow, Steps, NoEntry, NoRequest, Request, RefundKinds, LedgerTypes,
         DisputeStatuses
<1> HIDE DEF IdleAdmin
<1> QED BY <1>1, RowTypes DEF Works, Paying

\* The end of a request.
LEMMA EndStep ==
    ASSUME DisputesInv, NEW a \in Admins, Become(a, IdleAdmin),
           UNCHANGED <<walletVars, purchase, refunds, payouts>>,
           disputes' \in [DisputeIds -> DisputeStatuses \cup {"NONE"}]
    PROVE  DisputesInv'
<1>1. IdleAdmin \in AdminRow /\ Works(IdleAdmin) /\ IdleAdmin.refund \in {0, admins[a].refund}
  BY IdleWorks
<1> HIDE DEF IdleAdmin
<1> QED BY <1>1, QuietStep

\* What request a is doing, under a name that does not change with the step.
LEMMA Worker ==
    ASSUME DisputesInv, NEW a \in Admins
    PROVE  \E w \in AdminRow : /\ w = admins[a] /\ Works(w)
                             /\ \A step : Goto(a, step) <=> Become(a, [w EXCEPT !.at = step])
  BY RowTypes DEF DisputesInv, EachWorks, Goto, Become

-----------------------------------------------------------------------------
(* Steps of a request that move no money.                                  *)

\* The dispute acted on says nothing of the work.
LEMMA ForDispute ==
    ASSUME NEW w \in AdminRow, Works(w), w.refund = 0, NEW d \in DisputeIds
    PROVE  /\ [w EXCEPT !.dispute = d] \in AdminRow
           /\ [w EXCEPT !.dispute = d].refund = 0
           /\ Works([w EXCEPT !.dispute = d])
<1> DEFINE v == [w EXCEPT !.dispute = d]
<1>1. v \in AdminRow /\ v.refund = 0
  BY DEF AdminRow
<1>2. /\ v.at = w.at /\ v.request = w.request /\ v.full = w.full /\ v.entry = w.entry
      /\ v.refund = w.refund
  BY DEF AdminRow
<1> HIDE DEF v
<1>3. Works(v)
  BY <1>1, <1>2 DEF Works
<1> QED BY <1>1, <1>3 DEF v

\* adminAction, whatever its first statement is.
LEMMA ActionStep ==
    ASSUME DisputesInv, NEW a \in Admins, NEW d \in DisputeIds, NEW w \in AdminRow,
           Works(w), w.refund = 0, AdminAction(a, d, w)
    PROVE  DisputesInv'
<1> DEFINE v == [w EXCEPT !.dispute = d]
<1>1. v \in AdminRow /\ v.refund = 0 /\ Works(v)
  BY ForDispute
<1>2. Become(a, v) /\ UNCHANGED <<walletVars, rows>>
  BY DEF AdminAction
<1>3. disputes' \in [DisputeIds -> DisputeStatuses \cup {"NONE"}]
  BY <1>2 DEF rows, DisputesInv, RowTypesOK
<1> HIDE DEF v
<1> QED BY <1>1, <1>2, <1>3, QuietStep DEF rows

\* The first statements of the cases of adminAction.
LEMMA FirstStatements ==
    ASSUME DisputesInv
    PROVE  /\ Reject \in AdminRow /\ Reject.refund = 0 /\ Works(Reject)
           /\ Escalate \in AdminRow /\ Escalate.refund = 0 /\ Works(Escalate)
           /\ \A row \in 1..Len(ledger) :
                 /\ ReverseCharge(row) \in AdminRow /\ ReverseCharge(row).refund = 0
                 /\ Works(ReverseCharge(row))
           /\ \A adjustment \in Adjustments :
                 /\ Adjust(adjustment) \in AdminRow /\ Adjust(adjustment).refund = 0
                 /\ Works(Adjust(adjustment))
           /\ \A request \in RefundRequests :
                 /\ Refund(request) \in AdminRow /\ Refund(request).refund = 0
                 /\ Works(Refund(request))
<1>1. Len(refunds) \in Nat
  BY RowTypes
<1>2. /\ IdleAdmin \in AdminRow /\ IdleAdmin.refund = 0
      /\ IdleAdmin.request = NoRequest /\ IdleAdmin.full = FALSE
  BY IdleWorks
<1>3. Reject \in AdminRow /\ Reject.refund = 0 /\ Works(Reject)
  <2>1. /\ Reject \in AdminRow /\ Reject.refund = 0 /\ Reject.at = "setStatus"
        /\ Reject.request = NoRequest /\ Reject.full = FALSE
    BY <1>2 DEF Reject, AdminRow, Steps, DisputeStatuses
  <2> HIDE DEF Reject
  <2> QED BY <2>1, <1>1 DEF Works, Paying
<1>4. Escalate \in AdminRow /\ Escalate.refund = 0 /\ Works(Escalate)
  <2>1. /\ Escalate \in AdminRow /\ Escalate.refund = 0 /\ Escalate.at = "setStatus"
        /\ Escalate.request = NoRequest /\ Escalate.full = FALSE
    BY <1>2 DEF Escalate, AdminRow, Steps, DisputeStatuses
  <2> HIDE DEF Escalate
  <2> QED BY <2>1, <1>1 DEF Works, Paying
<1>5. ASSUME NEW row \in 1..Len(ledger)
      PROVE  /\ ReverseCharge(row) \in AdminRow /\ ReverseCharge(row).refund = 0
             /\ Works(ReverseCharge(row))
  <2> DEFINE entry == [type |-> "CHARGE_REVERSAL", amount |-> -ledger[row].amount,
                       ref |-> row]
  <2>1. /\ entry \in [type : LedgerTypes, amount : Int, ref : Nat]
        /\ entry.type = "CHARGE_REVERSAL"
    <3>1. row \in Nat /\ ledger[row].amount \in Int
      BY RowTypes, Typing DEF LedgerEntry
    <3> QED BY <3>1 DEF LedgerTypes
  <2>2. ReverseCharge(row) = [IdleAdmin EXCEPT !.at = "checkReversal", !.entry = entry]
    BY DEF ReverseCharge
  <2> HIDE DEF entry
  <2>3. /\ ReverseCharge(row) \in AdminRow /\ ReverseCharge(row).refund = 0
        /\ ReverseCharge(row).at = "checkReversal"
        /\ ReverseCharge(row).request = NoRequest /\ ReverseCharge(row).full = FALSE
        /\ ReverseCharge(row).entry.type = "CHARGE_REVERSAL"
    BY <1>2, <2>1, <2>2 DEF AdminRow, Steps
  <2> QED BY <2>3, <1>1 DEF Works, Paying, Entries
<1>6. ASSUME NEW adjustment \in Adjustments
      PROVE  /\ Adjust(adjustment) \in AdminRow /\ Adjust(adjustment).refund = 0
             /\ Works(Adjust(adjustment))
  <2>1. /\ adjustment.type \in {"BONUS_CREDIT", "DISPUTE_RESOLUTION"}
        /\ adjustment.amount \in Int
    BY DisputesAssumption
  <2>2. /\ Adjust(adjustment) \in AdminRow /\ Adjust(adjustment).refund = 0
        /\ Adjust(adjustment).at = "post"
        /\ Adjust(adjustment).request = NoRequest /\ Adjust(adjustment).full = FALSE
        /\ Adjust(adjustment).entry.type = adjustment.type
    BY <1>2, <2>1 DEF Adjust, AdminRow, Steps, LedgerTypes
  <2> HIDE DEF Adjust
  <2> QED BY <2>1, <2>2, <1>1 DEF Works, Paying, Entries
<1>7. ASSUME NEW request \in RefundRequests
      PROVE  /\ Refund(request) \in AdminRow /\ Refund(request).refund = 0
             /\ Works(Refund(request))
  <2>1. request \in Request
    BY DisputesAssumption DEF Request
  <2>2. /\ Refund(request) \in AdminRow /\ Refund(request).refund = 0
        /\ Refund(request).at = "checkRefund"
        /\ Refund(request).request = request /\ Refund(request).full = FALSE
    BY <1>2, <2>1 DEF Refund, AdminRow, Steps
  <2> HIDE DEF Refund
  <2> QED BY <2>2, <1>1 DEF Works, Paying
<1> QED BY <1>3, <1>4, <1>5, <1>6, <1>7

\* addMessage and the refund endpoint.
LEMMA CustomerStep ==
    ASSUME DisputesInv, NEW a \in Admins,
           \/ \E d \in DisputeIds : AddMessage(a, d)
           \/ \E request \in RefundRequests : CreateRefund(a, request)
    PROVE  DisputesInv'
<1>1. disputes' = disputes => disputes' \in [DisputeIds -> DisputeStatuses \cup {"NONE"}]
  BY DEF DisputesInv, RowTypesOK
<1>2. ASSUME NEW request \in RefundRequests, CreateRefund(a, request) PROVE DisputesInv'
  <2>1. Refund(request) \in AdminRow /\ Refund(request).refund = 0 /\ Works(Refund(request))
    BY FirstStatements
  <2>2. Become(a, Refund(request)) /\ UNCHANGED <<walletVars, rows>>
    BY <1>2 DEF CreateRefund
  <2> HIDE DEF Refund
  <2> QED BY <2>1, <2>2, <1>1, QuietStep DEF rows
<1>3. ASSUME NEW d \in DisputeIds, AddMessage(a, d) PROVE DisputesInv'
  <2> DEFINE w == [IdleAdmin EXCEPT !.at = "setStatus", !.dispute = d,
                                    !.outcome = "UNDER_INVESTIGATION"]
  <2>1. /\ IdleAdmin \in AdminRow /\ IdleAdmin.refund = 0
        /\ IdleAdmin.request = NoRequest /\ IdleAdmin.full = FALSE
        /\ Len(refunds) \in Nat
    BY IdleWorks, RowTypes
  <2>2. /\ w \in AdminRow /\ w.refund = 0 /\ w.at = "setStatus" /\ w.request = NoRequest
        /\ w.full = FALSE
    BY <2>1 DEF AdminRow, Steps, DisputeStatuses
  <2>3. Become(a, w) /\ UNCHANGED <<walletVars, rows>>
    BY <1>3 DEF AddMessage
  <2> HIDE DEF w
  <2>4. Works(w)
    BY <2>1, <2>2 DEF Works, Paying
  <2> QED BY <2>2, <2>3, <2>4, <1>1, QuietStep DEF rows
<1> QED BY <1>2, <1>3

\* The statements that only read, or write the status of the dispute.
LEMMA ReadingStep ==
    ASSUME DisputesInv, NEW a \in Admins,
           CheckReversal(a) \/ WriteStatus(a) \/ StatementFails(a) \/ GiveUp(a)
    PROVE  DisputesInv'
<1>1. disputes' = disputes => disputes' \in [DisputeIds -> DisputeStatuses \cup {"NONE"}]
  BY DEF DisputesInv, RowTypesOK
<1>2. PICK w \in AdminRow : /\ w = admins[a] /\ Works(w)
                           /\ \A step : Goto(a, step) <=> Become(a, [w EXCEPT !.at = step])
  BY Worker
<1>3. CASE GiveUp(a)
  BY <1>1, <1>3, EndStep DEF GiveUp, rows
<1>4. CASE WriteStatus(a)
  <2>1. /\ disputes' = [disputes EXCEPT ![w.dispute] = w.outcome]
        /\ Become(a, IdleAdmin) /\ UNCHANGED <<walletVars, purchase, refunds, payouts>>
    BY <1>2, <1>4 DEF WriteStatus, SetDispute
  <2>2. w.outcome \in DisputeStatuses
    BY DEF AdminRow
  <2>3. disputes' \in [DisputeIds -> DisputeStatuses \cup {"NONE"}]
    BY <2>1, <2>2 DEF DisputesInv, RowTypesOK
  <2> QED BY <2>1, <2>3, EndStep
<1>5. CASE CheckReversal(a)
  <2>1. w.at = "checkReversal" /\ UNCHANGED <<walletVars, rows>>
    BY <1>2, <1>5 DEF CheckReversal
  <2>2. CASE Become(a, IdleAdmin)
    BY <2>1, <2>2, <1>1, EndStep DEF rows
  <2>3. CASE Goto(a, "post")
    <3> DEFINE v == [w EXCEPT !.at = "post"]
    <3>1. Become(a, v)
      BY <2>3, <1>2
    <3>2. /\ v \in AdminRow /\ v.at = "post" /\ v.refund = w.refund /\ v.full = w.full
          /\ v.request = w.request /\ v.entry = w.entry
      BY DEF AdminRow, Steps
    <3> HIDE DEF v
    <3>3. Works(v)
      BY <3>2, <2>1, <1>2 DEF Works, Paying
    <3>4. v.refund \in {0, admins[a].refund}
      BY <3>2, <1>2
    <3> QED BY <3>1, <3>2, <3>3, <3>4, <2>1, <1>1, QuietStep DEF rows
  <2> QED BY <2>2, <2>3, <1>5 DEF CheckReversal
<1>6. CASE StatementFails(a)
  <2>1. /\ w.at \in {"postRefund", "completeRefund", "markRefunded"}
        /\ Goto(a, "failRefund") /\ UNCHANGED <<walletVars, rows>>
    BY <1>2, <1>6 DEF StatementFails
  <2> DEFINE v == [w EXCEPT !.at = "failRefund"]
  <2>2. Become(a, v)
    BY <2>1, <1>2
  <2>3. /\ v \in AdminRow /\ v.at = "failRefund" /\ v.refund = w.refund /\ v.full = w.full
        /\ v.request = w.request /\ v.entry = w.entry
    BY DEF AdminRow, Steps
  <2> HIDE DEF v
  <2>4. Works(v)
    BY <2>3, <2>1, <1>2 DEF Works, Paying, MadeRefund
  <2>5. v.refund \in {0, admins[a].refund}
    BY <2>3, <1>2
  <2> QED BY <2>1, <2>2, <2>3, <2>4, <2>5, <1>1, QuietStep DEF rows
<1> QED BY <1>3, <1>4, <1>5, <1>6

\* The cap is checked.
LEMMA CapStep ==
    ASSUME DisputesInv, NEW a \in Admins, CheckRefund(a)
    PROVE  DisputesInv'
<1>1. disputes' \in [DisputeIds -> DisputeStatuses \cup {"NONE"}]
  BY DEF DisputesInv, RowTypesOK, CheckRefund, rows
<1>2. PICK w \in AdminRow : w = admins[a] /\ Works(w)
  BY Worker
<1>3. w.at = "checkRefund" /\ UNCHANGED <<walletVars, rows>>
  BY <1>2 DEF CheckRefund
<1>4. CASE Become(a, IdleAdmin)
  BY <1>1, <1>3, <1>4, EndStep DEF rows
<1>5. CASE ~Become(a, IdleAdmin)
  <2>1. PICK full \in BOOLEAN :
          full = (w.request.capped /\ RefundedSoFar + w.request.amount >= Price)
    OBVIOUS
  <2> DEFINE v == [w EXCEPT !.at = "createRefund", !.full = full]
  <2>2. Become(a, v)
    BY <1>2, <1>5, <2>1 DEF CheckRefund
  <2>3. /\ v \in AdminRow /\ v.at = "createRefund" /\ v.refund = w.refund /\ v.full = full
        /\ v.request = w.request /\ v.entry = w.entry
    BY DEF AdminRow, Steps
  <2> HIDE DEF v
  <2>4. full => w.request.capped
    BY <2>1
  <2>5. Works(v)
    BY <2>3, <2>4, <1>2, <1>3 DEF Works, Paying
  <2>6. v.refund \in {0, admins[a].refund}
    BY <2>3, <1>2
  <2> QED BY <2>2, <2>3, <2>5, <2>6, <1>1, <1>3, QuietStep DEF rows
<1> QED BY <1>4, <1>5

-----------------------------------------------------------------------------
(* Steps that move money or write a refund.                                *)

\* A reversal, a bonus or an adjustment is no refund's entry.
LEMMA PostStep ==
    ASSUME DisputesInv, NEW a \in Admins, Post(a)
    PROVE  DisputesInv'
<1> DEFINE no == FALSE
<1>1. PICK w \in AdminRow : /\ w = admins[a] /\ Works(w)
                           /\ \A step : Goto(a, step) <=> Become(a, [w EXCEPT !.at = step])
  BY Worker
<1>2. /\ w.at = "post"
      /\ PostTransaction(w.entry.type, Exact(w.entry.amount), no, w.entry.ref)
      /\ Become(a, [w EXCEPT !.at = "setStatus"]) /\ UNCHANGED rows
  BY <1>1 DEF Post
<1> HIDE DEF no
<1>3. w.entry.type \in Entries /\ w.request = NoRequest /\ w.refund = 0
  BY <1>1, <1>2 DEF Works, Paying
<1>4. /\ w.entry.type \in LedgerTypes \ {"USAGE_CHARGE", "REFUND"}
      /\ Exact(w.entry.amount) \in Int /\ w.entry.ref \in Nat
  BY <1>3, UnitsStored DEF AdminRow, Entries, LedgerTypes
<1> DEFINE row == LedgerRow(wallet, w.entry.type, Exact(w.entry.amount), w.entry.ref)
           v == [w EXCEPT !.at = "setStatus"]
<1>5. WalletInv' /\ TypeOK /\ ledger' = Append(ledger, row) /\ row \in LedgerEntry
      /\ row.type # "REFUND"
  BY <1>2, <1>4, RowTypes, PostKeepsWallet
<1>6. /\ v \in AdminRow /\ v.at = "setStatus" /\ v.refund = 0 /\ v.request = NoRequest
  BY <1>3 DEF AdminRow, Steps
<1>7. Become(a, v)
  BY <1>2
<1> HIDE DEF row, v
<1>8. RowTypesOK' /\ Len(refunds) \in Nat /\ refunds' = refunds
  BY <1>2, RowTypes DEF DisputesInv, RowTypesOK, rows
<1>9. RefundsAreNamed' /\ RefundedWasPaid'
  <2>1. RefundsAreNamed'
    BY <1>5, <1>8, NamesAfter
  <2> QED BY <2>1, <1>2 DEF rows, DisputesInv, RefundedWasPaid
<1>10. \A r \in 1..Len(refunds) : Same(r)
  <2>1. ledger \in Seq(LedgerEntry)
    BY <1>5 DEF TypeOK
  <2> QED BY <2>1, <1>2, <1>5, OtherEntry DEF Same, rows
<1>11. Works(v)'
  BY <1>6, <1>8 DEF Works, Paying
<1>12. /\ \A b \in Admins \ {a} : admins[b].refund # 0 => admins[b].refund # 0
       /\ v.refund \in {0, 0} /\ 0 \in Nat
       /\ Len(refunds') \in Nat /\ Len(refunds) <= Len(refunds')
       /\ \A r \in 1..Len(refunds') : r \in 1..Len(refunds) \/ r = 0
       /\ ~(0 \in 1..Len(refunds'))
  BY <1>6, <1>8
<1> QED BY <1>5, <1>6, <1>7, <1>8, <1>9, <1>10, <1>11, <1>12, AdminStep

\* The PENDING row is one that no ledger row names and nobody else works on.
LEMMA InsertStep ==
    ASSUME DisputesInv, NEW a \in Admins, InsertRefund(a)
    PROVE  DisputesInv'
<1>1. PICK w \in AdminRow : w = admins[a] /\ Works(w)
  BY Worker
<1> DEFINE n == Len(refunds)
           row == [kind |-> w.request.kind, amount |-> w.request.amount,
                   capped |-> w.request.capped, status |-> "PENDING"]
<1>2. PICK x \in Nat : x = n + 1
  BY RowTypes
<1> DEFINE next == IF w.request.kind = "CASH" THEN "payOut" ELSE "postRefund"
           v == [w EXCEPT !.at = next, !.refund = x]
<1>3. /\ w.at = "createRefund" /\ n < MaxRefunds
      /\ refunds' = Append(refunds, row) /\ Become(a, v)
      /\ UNCHANGED <<walletVars, purchase, payouts, disputes>>
  BY <1>1, <1>2 DEF InsertRefund
<1>4. row \in RefundRow /\ w.request \in RefundRequests
  <2>1. w.request \in RefundRequests
    BY <1>1, <1>3 DEF Works
  <2> QED BY <2>1, DisputesAssumption DEF RefundRow, RefundStatuses
<1>5. /\ row.kind = w.request.kind /\ row.amount = w.request.amount
      /\ row.capped = w.request.capped /\ row.status = "PENDING"
  OBVIOUS
<1>6. next \in {"payOut", "postRefund"} /\ (next = "postRefund" => w.request.kind # "CASH")
  OBVIOUS
<1> HIDE DEF row, next
<1>7. /\ v \in AdminRow /\ v.at = next /\ v.refund = x /\ v.full = w.full
      /\ v.request = w.request
  BY <1>6 DEF AdminRow, Steps
<1>8. refunds \in Seq(RefundRow) /\ n \in Nat
  BY RowTypes DEF DisputesInv, RowTypesOK
<1>9. /\ refunds' \in Seq(RefundRow) /\ Len(refunds') = n + 1
      /\ \A r \in 1..n : refunds'[r] = refunds[r]
      /\ refunds'[n + 1] = row
  BY <1>3, <1>4, <1>8, AppendProperties, LenProperties
<1>10. refunds'[x] = row /\ x \in 1..Len(refunds') /\ x # 0
  BY <1>2, <1>8, <1>9
<1> HIDE DEF v, n
<1>11. WalletInv' /\ ledger' = ledger
  BY <1>3, RowTypes, WalletStays
<1>12. RowTypesOK'
  BY <1>3, <1>8, <1>9, RowTypes DEF DisputesInv, RowTypesOK, n
<1>13. RefundsAreNamed'
  BY <1>8, <1>9, <1>11 DEF DisputesInv, RefundsAreNamed, n
<1>14. RefundRows(x)' = {}
  <2>1. x \notin 1..n
    BY <1>2, <1>8
  <2> QED BY <2>1, <1>11 DEF DisputesInv, RefundsAreNamed, RefundRows, n
<1>15. RefundIsRight(x)'
  BY <1>5, <1>10, <1>14 DEF RefundIsRight
<1>16. Works(v)'
  <2>1. MadeRefund(v)'
    BY <1>5, <1>6, <1>7, <1>10, <1>14 DEF MadeRefund
  <2>2. v.refund <= Len(refunds') /\ v.refund # 0
    BY <1>7, <1>10, <1>2, <1>8, <1>9
  <2> QED BY <2>1, <2>2, <1>4, <1>6, <1>7 DEF Works, Paying
<1>17. \A r \in 1..n : Same(r)
  BY <1>3, <1>9, <1>11, NoRowNoEntry DEF Same
<1>18. RefundedWasPaid'
  BY <1>3, <1>8, <1>9, PaidStays DEF n
<1>19. ASSUME NEW b \in Admins PROVE admins[b].refund # x
  BY <1>2, <1>8, RowTypes DEF DisputesInv, EachWorks, Works, n
<1>20. /\ v.refund \in {0, x} /\ Len(refunds') \in Nat /\ Len(refunds) <= Len(refunds')
       /\ \A r \in 1..Len(refunds') : r \in 1..Len(refunds) \/ r = x
       /\ \A r \in 1..Len(refunds) : Same(r)
       /\ Become(a, v)
  BY <1>2, <1>3, <1>7, <1>8, <1>9, <1>17 DEF n
<1> QED BY <1>7, <1>11, <1>12, <1>13, <1>15, <1>16, <1>18, <1>19, <1>20, AdminStep

\* What is known of a request inside the try block and of its refund.
LEMMA AtWork ==
    ASSUME DisputesInv, NEW a \in Admins, NEW w \in AdminRow, w = admins[a], Works(w),
           w.at \in Paying
    PROVE  /\ w.refund \in 1..Len(refunds) /\ w.refund \in 1..MaxRefunds /\ w.refund # 0
           /\ w.refund \in Nat
           /\ RefundIsRight(w.refund) /\ MadeRefund(w)
           /\ \A b \in Admins \ {a} : admins[b].refund # 0 => admins[b].refund # w.refund
           /\ w.request \in RefundRequests /\ w.request # NoRequest
           /\ refunds \in Seq(RefundRow) /\ Len(refunds) \in Nat
           /\ \A r \in 1..Len(refunds) : r \in 1..MaxRefunds
<1>1. refunds \in Seq(RefundRow) /\ Len(refunds) \in Nat
  BY RowTypes DEF DisputesInv, RowTypesOK
<1>2. w.refund # 0 /\ w.refund \in Nat /\ w.refund <= Len(refunds)
      /\ MadeRefund(w) /\ w.request \in RefundRequests
  BY RowTypes DEF Works
<1>3. w.refund \in 1..Len(refunds)
  BY <1>1, <1>2
<1>4. \A r \in 1..Len(refunds) : r \in 1..MaxRefunds
  BY RowTypes
<1>5. RefundIsRight(w.refund)
  BY <1>3 DEF DisputesInv
<1>6. \A b \in Admins \ {a} : admins[b].refund # 0 => admins[b].refund # w.refund
  BY DEF DisputesInv, EachHasItsRefund
<1>7. w.request # NoRequest
  BY <1>2, DisputesAssumption DEF NoRequest
<1> QED BY <1>1, <1>2, <1>3, <1>4, <1>5, <1>6, <1>7

\* A step of a request on its own refund that makes no new one.
LEMMA RefundStep ==
    ASSUME DisputesInv, WalletInv', RowTypesOK', RefundsAreNamed', RefundedWasPaid',
           NEW a \in Admins, NEW w \in AdminRow, w = admins[a], Works(w), w.at \in Paying,
           NEW v \in AdminRow, Become(a, v), v.refund \in {0, w.refund}, Works(v)',
           Len(refunds') = Len(refunds),
           \A r \in 1..Len(refunds) : r # w.refund => Same(r),
           RefundIsRight(w.refund)'
    PROVE  DisputesInv'
<1>1. PICK x \in Nat : x = w.refund
  BY AtWork
<1>2. /\ \A b \in Admins \ {a} : admins[b].refund # 0 => admins[b].refund # x
      /\ Len(refunds) \in Nat
  BY <1>1, AtWork
<1>3. /\ v.refund \in {0, x}
      /\ Len(refunds') \in Nat /\ Len(refunds) <= Len(refunds')
      /\ \A r \in 1..Len(refunds) : r # x => Same(r)
      /\ \A r \in 1..Len(refunds') : r \in 1..Len(refunds) \/ r = x
      /\ (x \in 1..Len(refunds') => RefundIsRight(x)')
  BY <1>1, <1>2
<1> QED BY <1>2, <1>3, AdminStep

\* Stripe pays, perhaps without an answer, or refuses.
LEMMA PayOutStep ==
    ASSUME DisputesInv, NEW a \in Admins, PayOut(a)
    PROVE  DisputesInv'
<1>1. PICK w \in AdminRow : /\ w = admins[a] /\ Works(w)
                           /\ \A step : Goto(a, step) <=> Become(a, [w EXCEPT !.at = step])
  BY Worker
<1>2. w.at = "payOut" /\ w.at \in Paying /\ UNCHANGED <<walletVars, purchase, refunds, disputes>>
  BY <1>1 DEF PayOut, Paying
<1>3. PICK asked : asked = AmountAsked(w.request.amount)
  OBVIOUS
<1>4. \/ /\ asked \in 1..Refundable
         /\ payouts' = [payouts EXCEPT ![w.refund] = asked]
         /\ Goto(a, "postRefund") \/ Goto(a, "failRefund")
      \/ Goto(a, "failRefund") /\ payouts' = payouts
  BY <1>1, <1>3 DEF PayOut
<1>5. PICK step \in {"postRefund", "failRefund"} : Goto(a, step)
  BY <1>4
<1> DEFINE v == [w EXCEPT !.at = step]
<1>6. /\ v \in AdminRow /\ v.at = step /\ v.refund = w.refund /\ v.full = w.full
      /\ v.request = w.request
  BY DEF AdminRow, Steps
<1>7. Become(a, v)
  BY <1>1, <1>5
<1> HIDE DEF v
<1>8. /\ w.refund \in 1..Len(refunds) /\ w.refund \in 1..MaxRefunds /\ w.refund # 0
      /\ MadeRefund(w) /\ w.request \in RefundRequests
      /\ Len(refunds) \in Nat
      /\ \A r \in 1..Len(refunds) : r \in 1..MaxRefunds
  BY <1>1, <1>2, AtWork
<1>9. payouts \in [1..MaxRefunds -> 0..Price]
  BY DEF DisputesInv, RowTypesOK
<1>10. /\ payouts' \in [1..MaxRefunds -> 0..Price]
       /\ \A r \in 1..Len(refunds) : r # w.refund => payouts'[r] = payouts[r]
       /\ payouts'[w.refund] > 0 \/ payouts' = payouts
       /\ payouts' = payouts => step = "failRefund" \/ payouts[w.refund] > 0
  <2>1. CASE payouts' = payouts /\ Goto(a, "failRefund")
    <3>1. admins \in [Admins -> AdminRow]
      BY DEF DisputesInv
    <3>2. admins'[a].at = "failRefund" /\ admins'[a].at = step
      <4>1. [w EXCEPT !.at = "failRefund"].at = "failRefund"
        BY DEF AdminRow
      <4>2. Become(a, [w EXCEPT !.at = "failRefund"])
        BY <1>1, <2>1
      <4> QED BY <4>1, <4>2, <3>1, <1>6, <1>7 DEF Become
    <3> QED BY <2>1, <3>2, <1>9
  <2>2. CASE asked \in 1..Refundable /\ payouts' = [payouts EXCEPT ![w.refund] = asked]
    <3>1. Total(payouts, MaxRefunds) \in Nat
      <4>1. \A r \in 1..MaxRefunds : payouts[r] \in Nat
        BY <1>9, RowTypes
      <4> QED BY <4>1, RowTypes, TotalNat
    <3>2. asked \in 1..Price
      BY <2>2, <3>1, RowTypes DEF Refundable
    <3>3. asked \in 0..Price /\ asked > 0
      BY <3>2, RowTypes
    <3>4. payouts'[w.refund] = asked
      BY <2>2, <1>8, <1>9
    <3> QED BY <2>2, <3>3, <3>4, <1>8, <1>9
  <2> QED BY <2>1, <2>2, <1>4
<1>11. WalletInv' /\ ledger' = ledger
  BY <1>2, RowTypes, WalletStays
<1>12. RowTypesOK'
  BY <1>2, <1>10 DEF DisputesInv, RowTypesOK
<1>13. RefundsAreNamed'
  BY <1>2, <1>11 DEF DisputesInv, RefundsAreNamed
<1>14. Len(refunds') = Len(refunds)
  BY <1>2
<1>15. RefundedWasPaid'
  <2>1. \A r \in 1..Len(refunds) : /\ refunds'[r].kind = refunds[r].kind
                                  /\ payouts[r] > 0 => payouts'[r] > 0
    BY <1>2, <1>10
  <2> QED BY <2>1, <1>2, <1>8, <1>14, PaidStays
<1>16. RefundRows(w.refund)' = {}
  BY <1>2, <1>8, <1>11 DEF MadeRefund, RefundRows
<1>17. RefundIsRight(w.refund)'
  <2>1. RefundIsRight(w.refund) /\ RefundRows(w.refund) = {}
    BY <1>1, <1>2, <1>8, AtWork DEF MadeRefund
  <2> QED BY <2>1, <1>2, <1>16 DEF RefundIsRight
<1>18. Works(v)'
  <2>1. step = "postRefund" => payouts'[w.refund] > 0
    BY <1>10
  <2>2. MadeRefund(v)'
    BY <2>1, <1>2, <1>6, <1>8, <1>16 DEF MadeRefund
  <2> QED BY <2>2, <1>1, <1>2, <1>6, <1>8, <1>14 DEF Works, Paying
<1>19. \A r \in 1..Len(refunds) : r # w.refund => Same(r)
  BY <1>2, <1>10, <1>11, NoRowNoEntry DEF Same
<1>20. v.refund \in {0, w.refund}
  BY <1>6
<1> QED BY <1>1, <1>2, <1>6, <1>7, <1>11, <1>12, <1>13, <1>14, <1>15, <1>17, <1>18, <1>19,
           <1>20, RefundStep

\* The refund's ledger entry is written, or the wallet refuses it.
LEMMA PostRefundStep ==
    ASSUME DisputesInv, NEW a \in Admins, PostRefund(a)
    PROVE  DisputesInv'
<1>1. PICK w \in AdminRow : /\ w = admins[a] /\ Works(w)
                           /\ \A step : Goto(a, step) <=> Become(a, [w EXCEPT !.at = step])
  BY Worker
<1>2. w.at = "postRefund" /\ w.at \in Paying /\ UNCHANGED rows
  BY <1>1 DEF PostRefund, Paying
<1>3. /\ w.refund \in 1..Len(refunds) /\ w.refund \in 1..MaxRefunds /\ w.refund # 0
      /\ w.refund \in Nat
      /\ MadeRefund(w) /\ RefundIsRight(w.refund) /\ w.request \in RefundRequests
      /\ w.request # NoRequest
      /\ Len(refunds) \in Nat /\ refunds \in Seq(RefundRow)
  BY <1>1, <1>2, AtWork
<1>4. refunds' = refunds /\ Len(refunds') = Len(refunds)
  BY <1>2 DEF rows
<1>5. RowTypesOK' /\ RefundedWasPaid'
  BY <1>2 DEF DisputesInv, RowTypesOK, RefundedWasPaid, rows
<1>6. CASE Goto(a, "failRefund") /\ UNCHANGED walletVars
  <2> DEFINE v == [w EXCEPT !.at = "failRefund"]
  <2>1. /\ v \in AdminRow /\ v.at = "failRefund" /\ v.refund = w.refund /\ v.full = w.full
        /\ v.request = w.request
    BY DEF AdminRow, Steps
  <2>2. Become(a, v)
    BY <1>1, <1>6
  <2> HIDE DEF v
  <2>3. Works(v)
    BY <2>1, <1>1, <1>2, <1>3 DEF Works, Paying, MadeRefund
  <2>4. disputes' \in [DisputeIds -> DisputeStatuses \cup {"NONE"}]
    BY <1>2 DEF DisputesInv, RowTypesOK, rows
  <2> QED BY <2>1, <2>2, <2>3, <2>4, <1>1, <1>2, <1>6, QuietStep DEF rows
<1>7. ASSUME PostTransaction("REFUND", Exact(RefundEntry(w.request)),
                             w.request.kind = "CASH", w.refund),
             Goto(a, "completeRefund")
      PROVE  DisputesInv'
  <2> DEFINE v == [w EXCEPT !.at = "completeRefund"]
             amount == RefundEntry(w.request)
             cash == w.request.kind = "CASH"
             row == LedgerRow(wallet, "REFUND", Exact(amount), w.refund)
  <2>1. /\ v \in AdminRow /\ v.at = "completeRefund" /\ v.refund = w.refund
        /\ v.full = w.full /\ v.request = w.request
    BY DEF AdminRow, Steps
  <2>2. Become(a, v)
    BY <1>1, <1>7
  <2>3. amount = (IF w.request.kind = "CASH" THEN -w.request.amount ELSE w.request.amount)
        /\ amount \in Int
    <3>1. w.request.amount \in Nat
      BY DEF AdminRow, Request
    <3> QED BY <3>1 DEF RefundEntry
  <2> HIDE DEF v, amount, cash
  <2>4. PostTransaction("REFUND", Exact(amount), cash, w.refund)
    BY <1>7 DEF amount, cash
  <2>5. Exact(amount) \in Int /\ Stored(Exact(amount)) = amount
    BY <2>3, UnitsStored
  <2>6. "REFUND" \in LedgerTypes \ {"USAGE_CHARGE"}
    BY DEF LedgerTypes
  <2>7. /\ WalletInv' /\ TypeOK /\ row \in LedgerEntry /\ ledger' = Append(ledger, row)
        /\ row.type = "REFUND" /\ row.amount = amount /\ row.ref = w.refund
    BY <2>4, <2>5, <2>6, <1>3, RowTypes, PostKeepsWallet
  <2> HIDE DEF row
  <2>8. ledger \in Seq(LedgerEntry)
    BY <2>7 DEF TypeOK
  <2>9. RefundsAreNamed'
    BY <2>7, <1>3, <1>4, NamesAfter
  <2>10. RefundRows(w.refund) = {}
    BY <1>2, <1>3 DEF MadeRefund
  <2>11. RefundRows(w.refund)' = {Len(ledger) + 1} /\ ledger'[Len(ledger) + 1] = row
    BY <2>7, <2>8, <2>10, OwnEntry
  <2>12. RefundIsRight(w.refund)'
    <3>1. refunds[w.refund].kind = w.request.kind /\ refunds[w.refund].amount = w.request.amount
      BY <1>3 DEF MadeRefund
    <3>2. w.request.kind = "CASH" => payouts'[w.refund] > 0
      BY <1>2, <1>3 DEF MadeRefund, rows
    <3> QED BY <2>3, <2>7, <2>11, <3>1, <3>2, <1>4 DEF RefundIsRight
  <2>13. Works(v)'
    <3>1. MadeRefund(v)'
      BY <2>1, <2>11, <1>2, <1>3, <1>4 DEF MadeRefund
    <3> QED BY <3>1, <2>1, <1>1, <1>2, <1>3, <1>4 DEF Works, Paying
  <2>14. \A r \in 1..Len(refunds) : r # w.refund => Same(r)
    BY <2>7, <2>8, <1>2, OtherEntry DEF Same, rows
  <2>15. v.refund \in {0, w.refund}
    BY <2>1
  <2> QED BY <2>1, <2>2, <2>7, <2>9, <2>12, <2>13, <2>14, <2>15, <1>1, <1>2, <1>4, <1>5,
             RefundStep
<1> QED BY <1>1, <1>6, <1>7 DEF PostRefund

\* A refund with another status.
LEMMA StatusWritten ==
    ASSUME refunds \in Seq(RefundRow), NEW x \in 1..Len(refunds),
           NEW status \in RefundStatuses,
           refunds' = [refunds EXCEPT ![x].status = status]
    PROVE  /\ refunds' \in Seq(RefundRow) /\ Len(refunds') = Len(refunds)
           /\ \A r \in 1..Len(refunds) :
                 /\ r # x => refunds'[r] = refunds[r]
                 /\ refunds'[r].kind = refunds[r].kind
                 /\ refunds'[r].amount = refunds[r].amount
                 /\ refunds'[r].capped = refunds[r].capped
           /\ refunds'[x].status = status
<1> DEFINE row == [refunds[x] EXCEPT !.status = status]
<1>1. refunds[x] \in RefundRow
  BY ElementOfSeq
<1>2. /\ row \in RefundRow /\ row.status = status /\ row.kind = refunds[x].kind
      /\ row.amount = refunds[x].amount /\ row.capped = refunds[x].capped
  BY <1>1 DEF RefundRow
<1>3. refunds' = [refunds EXCEPT ![x] = row]
  OBVIOUS
<1> HIDE DEF row
<1>4. /\ refunds' \in Seq(RefundRow) /\ Len(refunds') = Len(refunds)
      /\ \A r \in 1..Len(refunds) : refunds'[r] = IF r = x THEN row ELSE refunds[r]
  BY <1>2, <1>3, ExceptSeq, SMTT(30)
<1> QED BY <1>2, <1>4

\* The status of a request's refund is written, and the request goes on to v.
LEMMA StatusStep ==
    ASSUME DisputesInv, NEW a \in Admins, NEW w \in AdminRow, w = admins[a], Works(w),
           w.at \in Paying, NEW status \in RefundStatuses,
           refunds' = [refunds EXCEPT ![w.refund].status = status],
           UNCHANGED <<walletVars, purchase, payouts, disputes>>,
           status = "COMPLETED" => RefundRows(w.refund) # {},
           NEW v \in AdminRow, Become(a, v), v.refund \in {0, w.refund},
           \/ v = IdleAdmin
           \/ /\ v.refund = w.refund /\ v.request = w.request /\ v.full = w.full
              /\ v.at \in {"markRefunded", "setStatus"} /\ status = "COMPLETED"
              /\ v.at = "markRefunded" => w.request.kind = "CASH" /\ w.full
    PROVE  DisputesInv'
<1>1. /\ w.refund \in 1..Len(refunds) /\ w.refund \in 1..MaxRefunds /\ w.refund # 0
      /\ w.refund \in Nat
      /\ MadeRefund(w) /\ RefundIsRight(w.refund) /\ w.request \in RefundRequests
      /\ w.request # NoRequest
      /\ Len(refunds) \in Nat /\ refunds \in Seq(RefundRow)
  BY AtWork
<1>2. /\ refunds' \in Seq(RefundRow) /\ Len(refunds') = Len(refunds)
      /\ \A r \in 1..Len(refunds) :
            /\ r # w.refund => refunds'[r] = refunds[r]
            /\ refunds'[r].kind = refunds[r].kind
            /\ refunds'[r].amount = refunds[r].amount
            /\ refunds'[r].capped = refunds[r].capped
      /\ refunds'[w.refund].status = status
  BY <1>1, StatusWritten
<1>3. WalletInv' /\ ledger' = ledger
  BY RowTypes, WalletStays
<1>4. RefundRows(w.refund)' = RefundRows(w.refund)
  BY <1>3, NoRowNoEntry
<1>5. RowTypesOK' /\ RefundsAreNamed'
  BY <1>2, <1>3 DEF DisputesInv, RowTypesOK, RefundsAreNamed
<1>6. RefundedWasPaid'
  <2>1. \A r \in 1..Len(refunds) : payouts[r] > 0 => payouts'[r] > 0
    OBVIOUS
  <2> QED BY <2>1, <1>1, <1>2, PaidStays
<1>7. RefundIsRight(w.refund)'
  BY <1>1, <1>2, <1>3, <1>4 DEF RefundIsRight
<1>8. \A r \in 1..Len(refunds) : r # w.refund => Same(r)
  BY <1>2, <1>3, NoRowNoEntry DEF Same
<1>9. Works(v)'
  <2>1. CASE v = IdleAdmin
    <3>1. v.refund = 0 /\ v.at = "idle" /\ v.full = FALSE
      BY <2>1 DEF IdleAdmin
    <3> QED BY <3>1, <1>1, <1>2 DEF Works, Paying
  <2>2. CASE v # IdleAdmin
    <3>1. /\ v.refund = w.refund /\ v.request = w.request /\ v.full = w.full
          /\ v.at \in {"markRefunded", "setStatus"} /\ status = "COMPLETED"
          /\ v.at = "markRefunded" => w.request.kind = "CASH" /\ w.full
      BY <2>2
    <3>2. MadeRefund(v)'
      BY <3>1, <1>1, <1>2, <1>4 DEF MadeRefund
    <3> QED BY <3>1, <3>2, <1>1, <1>2 DEF Works, Paying
  <2> QED BY <2>1, <2>2
<1> QED BY <1>2, <1>3, <1>5, <1>6, <1>7, <1>8, <1>9, RefundStep

\* What comes after the money steps.
LEMMA FinishBecomes ==
    ASSUME NEW a \in Admins, NEW w \in AdminRow,
           \A step : Goto(a, step) <=> Become(a, [w EXCEPT !.at = step]), Finish(a)
    PROVE  Become(a, IdleAdmin) \/ Become(a, [w EXCEPT !.at = "setStatus"])
<1>1. Become(a, IdleAdmin) \/ Goto(a, "setStatus")
  BY DEF Finish
<1> QED BY <1>1

\* The refund is COMPLETED, its ledger entry written.
LEMMA CompleteStep ==
    ASSUME DisputesInv, NEW a \in Admins, CompleteRefund(a)
    PROVE  DisputesInv'
<1>1. PICK w \in AdminRow : /\ w = admins[a] /\ Works(w)
                           /\ \A step : Goto(a, step) <=> Become(a, [w EXCEPT !.at = step])
  BY Worker
<1>2. /\ w.at = "completeRefund" /\ w.at \in Paying
      /\ refunds' = [refunds EXCEPT ![w.refund].status = "COMPLETED"]
      /\ UNCHANGED <<walletVars, purchase, payouts, disputes>>
      /\ "COMPLETED" \in RefundStatuses
  BY <1>1 DEF CompleteRefund, Paying, RefundStatuses
<1>3. RefundRows(w.refund) # {}
  BY <1>1, <1>2, AtWork DEF MadeRefund
<1>4. CASE Become(a, IdleAdmin)
  <2>1. PICK v \in AdminRow : v = IdleAdmin /\ v.refund \in {0, w.refund}
    BY IdleWorks
  <2>2. Become(a, v)
    BY <2>1, <1>4
  <2> QED BY <2>1, <2>2, <1>1, <1>2, <1>3, StatusStep
<1>5. CASE ~Become(a, IdleAdmin)
  <2>1. \/ /\ w.request.kind = "CASH" /\ w.full
           /\ Goto(a, "markRefunded")
        \/ Goto(a, "setStatus")
    BY <1>1, <1>5 DEF CompleteRefund, Finish
  <2>2. PICK step \in {"markRefunded", "setStatus"} :
          /\ Goto(a, step)
          /\ step = "markRefunded" => w.request.kind = "CASH" /\ w.full
    BY <2>1
  <2> DEFINE v == [w EXCEPT !.at = step]
  <2>3. Become(a, v)
    BY <2>2, <1>1
  <2>4. /\ v \in AdminRow /\ v.at = step /\ v.refund = w.refund /\ v.full = w.full
        /\ v.request = w.request
    BY DEF AdminRow, Steps
  <2> HIDE DEF v
  <2>5. v.refund \in {0, w.refund}
    BY <2>4
  <2> QED BY <2>2, <2>3, <2>4, <2>5, <1>1, <1>2, <1>3, StatusStep
<1> QED BY <1>4, <1>5

\* The catch block.
LEMMA FailStep ==
    ASSUME DisputesInv, NEW a \in Admins, FailRefund(a)
    PROVE  DisputesInv'
<1>1. PICK w \in AdminRow : w = admins[a] /\ Works(w)
  BY Worker
<1>2. /\ w.at = "failRefund" /\ w.at \in Paying
      /\ refunds' = [refunds EXCEPT ![w.refund].status = "FAILED"]
      /\ UNCHANGED <<walletVars, purchase, payouts, disputes>>
      /\ "FAILED" \in RefundStatuses
  BY <1>1 DEF FailRefund, Paying, RefundStatuses
<1>3. PICK v \in AdminRow : v = IdleAdmin /\ v.refund \in {0, w.refund}
  BY IdleWorks
<1>4. Become(a, v)
  BY <1>3 DEF FailRefund
<1> QED BY <1>1, <1>2, <1>3, <1>4, StatusStep

\* The purchase becomes REFUNDED: the request's own refund is in cash and was
\* paid out.
LEMMA MarkStep ==
    ASSUME DisputesInv, NEW a \in Admins, MarkRefunded(a)
    PROVE  DisputesInv'
<1>1. PICK w \in AdminRow : /\ w = admins[a] /\ Works(w)
                           /\ \A step : Goto(a, step) <=> Become(a, [w EXCEPT !.at = step])
  BY Worker
<1>2. /\ w.at = "markRefunded" /\ w.at \in Paying /\ purchase' = "REFUNDED"
      /\ Finish(a) /\ UNCHANGED <<walletVars, refunds, payouts, disputes>>
  BY <1>1 DEF MarkRefunded, Paying
<1>3. /\ w.refund \in 1..Len(refunds) /\ w.refund # 0 /\ w.refund \in Nat
      /\ MadeRefund(w) /\ RefundIsRight(w.refund) /\ w.request # NoRequest
      /\ w.request \in RefundRequests
      /\ Len(refunds) \in Nat
  BY <1>1, <1>2, AtWork
<1>4. WalletInv' /\ ledger' = ledger
  BY <1>2, RowTypes, WalletStays
<1>5. Len(refunds') = Len(refunds) /\ RowTypesOK' /\ RefundsAreNamed'
  BY <1>2, <1>4 DEF DisputesInv, RowTypesOK, RefundsAreNamed
<1>6. RefundedWasPaid'
  <2>1. refunds[w.refund].kind = "CASH" /\ payouts[w.refund] > 0
    BY <1>2, <1>3 DEF MadeRefund, RefundIsRight
  <2> QED BY <2>1, <1>2, <1>3, <1>5 DEF RefundedWasPaid
<1>7. RefundIsRight(w.refund)' /\ RefundRows(w.refund)' = RefundRows(w.refund)
  BY <1>2, <1>3, <1>4, NoRowNoEntry DEF RefundIsRight
<1>8. \A r \in 1..Len(refunds) : r # w.refund => Same(r)
  BY <1>2, <1>4, NoRowNoEntry DEF Same
<1>9. PICK v \in AdminRow : /\ Become(a, v) /\ v.refund \in {0, w.refund}
                           /\ \/ v = IdleAdmin
                              \/ /\ v.refund = w.refund /\ v.at = "setStatus"
                                 /\ v.request = w.request /\ v.full = w.full
  <2>1. Become(a, IdleAdmin) \/ Become(a, [w EXCEPT !.at = "setStatus"])
    BY <1>1, <1>2, FinishBecomes
  <2>2. IdleAdmin \in AdminRow /\ IdleAdmin.refund = 0
    BY IdleWorks
  <2> DEFINE v == [w EXCEPT !.at = "setStatus"]
  <2>3. /\ v \in AdminRow /\ v.at = "setStatus" /\ v.refund = w.refund /\ v.full = w.full
        /\ v.request = w.request
    BY DEF AdminRow, Steps
  <2> HIDE DEF v
  <2>4. Become(a, IdleAdmin) \/ Become(a, v)
    BY <2>1 DEF v
  <2> HIDE DEF IdleAdmin
  <2> QED BY <2>2, <2>3, <2>4
<1>10. Works(v)'
  <2>1. CASE v = IdleAdmin
    <3>1. v.refund = 0 /\ v.at = "idle" /\ v.full = FALSE
      BY <2>1 DEF IdleAdmin
    <3> QED BY <3>1, <1>3, <1>5 DEF Works, Paying
  <2>2. CASE v # IdleAdmin
    <3>1. v.refund = w.refund /\ v.at = "setStatus" /\ v.request = w.request /\ v.full = w.full
      BY <2>2, <1>9
    <3>2. MadeRefund(v)'
      BY <3>1, <1>2, <1>3, <1>7 DEF MadeRefund
    <3> QED BY <3>1, <3>2, <1>3, <1>5 DEF Works, Paying
  <2> QED BY <2>1, <2>2
<1> QED BY <1>1, <1>2, <1>4, <1>5, <1>6, <1>7, <1>8, <1>9, <1>10, RefundStep

-----------------------------------------------------------------------------
(* The initial state: a wallet with a purchase and a charge.               *)

\* The wallet and its two ledger rows.
LEMMA FundedWallet ==
    ASSUME DisputesInit
    PROVE  /\ WalletInv /\ ledger \in Seq(LedgerEntry) /\ Len(ledger) = 2
           /\ ledger[1].type # "REFUND" /\ ledger[2].type # "REFUND"
<1> DEFINE paid == Exact(Price)
           spent == Exact(-Charge)
           row1 == LedgerRow(NewWallet, "PURCHASE", paid, 0)
           row2 == LedgerRow(Funded, "USAGE_CHARGE", spent, 1)
           hold == [amount |-> Charge, status |-> "FINALIZED", overdue |-> FALSE]
<1>1. /\ wallet = Applied(Funded, "USAGE_CHARGE", spent)
      /\ Funded = Applied(NewWallet, "PURCHASE", paid)
      /\ holds = <<hold>> /\ ledger = <<row1, row2>>
  BY DEF DisputesInit, Funded
<1>2. Price \in Nat /\ Charge \in Nat /\ Charge <= Price /\ -Charge \in Int
  BY DisputesAssumption
<1>3. paid \in Int /\ spent \in Int
  BY <1>2, UnitsStored
<1>4. Stored(Exact(0) + paid) = Price /\ Stored(Exact(Price) + spent) = Price - Charge
  BY <1>2, SMT DEF Stored, Exact, Scale
<1>5. NewWallet \in WalletRow /\ NewWallet.balance = 0 /\ NewWallet.reserved = 0
  BY DEF NewWallet, WalletRow, WalletStatuses
<1>6. "PURCHASE" \in LedgerTypes /\ "USAGE_CHARGE" \in LedgerTypes
  BY DEF LedgerTypes
<1>7. hold \in Hold /\ hold.status = "FINALIZED"
  BY <1>2 DEF Hold, HoldStatuses
<1> HIDE DEF paid, spent, hold
<1>8. Funded \in WalletRow /\ Funded.balance = Price /\ Funded.reserved = 0
  <2> HIDE DEF row1, row2
  <2>1. /\ Funded \in WalletRow /\ Funded.balance = Stored(Exact(NewWallet.balance) + paid)
        /\ Funded.reserved = NewWallet.reserved
    BY <1>1, <1>3, <1>5, <1>6, AppliedRow
  <2> QED BY <2>1, <1>4, <1>5
<1>9. wallet \in WalletRow /\ wallet.balance = Price - Charge /\ wallet.reserved = 0
  <2> HIDE DEF Funded
  <2>1. /\ wallet \in WalletRow /\ wallet.balance = Stored(Exact(Funded.balance) + spent)
        /\ wallet.reserved = Funded.reserved
    BY <1>1, <1>3, <1>6, <1>8, AppliedRow
  <2> QED BY <2>1, <1>4, <1>8
<1>10. /\ row1 \in LedgerEntry /\ row1.type = "PURCHASE" /\ row1.before = 0
       /\ row1.after = Price
  BY <1>3, <1>4, <1>5, <1>6, LedgerRowFields
<1>11. /\ row2 \in LedgerEntry /\ row2.type = "USAGE_CHARGE" /\ row2.before = Price
       /\ row2.after = Price - Charge /\ row2.ref = 1
  BY <1>3, <1>4, <1>6, <1>8, LedgerRowFields
<1> HIDE DEF row1, row2
<1>12. /\ ledger \in Seq(LedgerEntry) /\ Len(ledger) = 2 /\ ledger[1] = row1 /\ ledger[2] = row2
       /\ holds \in Seq(Hold) /\ Len(holds) = 1 /\ holds[1] = hold
  BY <1>1, <1>7, <1>10, <1>11
<1>13. \A i \in 1..Len(ledger) : i = 1 \/ i = 2
  BY <1>12
<1>14. TypeOK
  BY <1>9, <1>12 DEF TypeOK
<1>15. ReservedIsHeld
  <2> DEFINE f == [h \in 1..Len(holds) |-> HeldNow(h)]
  <2>1. f[1] = 0
    BY <1>7, <1>12 DEF HeldNow
  <2>2. HeldTotal = Total(f, 1)
    BY <1>12 DEF HeldTotal
  <2> HIDE DEF f
  <2>3. Total(f, 1) = Total(f, 1 - 1) + f[1] /\ 1 - 1 = 0
    BY TotalStep
  <2>4. Total(f, 0) = 0
    BY TotalZero
  <2> QED BY <2>1, <2>2, <2>3, <2>4, <1>9 DEF ReservedIsHeld
<1>16. LedgerChains
  <2>1. ledger # <<>>
    BY <1>1
  <2>2. ASSUME NEW i \in 1..Len(ledger)
        PROVE  ledger[i].before = IF i = 1 THEN 0 ELSE ledger[i - 1].after
    <3>1. CASE i = 1
      BY <3>1, <1>10, <1>12
    <3>2. CASE i = 2
      <4>1. i - 1 = 1
        BY <3>2
      <4> QED BY <3>2, <4>1, <1>10, <1>11, <1>12
    <3> QED BY <3>1, <3>2, <1>13
  <2>3. wallet.balance = ledger[Len(ledger)].after
    BY <1>9, <1>11, <1>12
  <2> QED BY <2>1, <2>2, <2>3 DEF LedgerChains
<1>17. OneChargePerHold
  BY <1>7, <1>10, <1>11, <1>12, <1>13 DEF OneChargePerHold
<1>18. OverspendHasACause
  BY <1>2, <1>9 DEF OverspendHasACause
<1> QED BY <1>10, <1>11, <1>12, <1>14, <1>15, <1>16, <1>17, <1>18 DEF WalletInv

\* The invariant holds before the first request.
LEMMA DisputesInitInv == DisputesInit => DisputesInv
<1> SUFFICES ASSUME DisputesInit PROVE DisputesInv
  OBVIOUS
<1>1. /\ WalletInv /\ ledger \in Seq(LedgerEntry) /\ Len(ledger) = 2
      /\ ledger[1].type # "REFUND" /\ ledger[2].type # "REFUND"
  BY FundedWallet
<1>2. /\ purchase = "COMPLETED" /\ refunds = <<>>
      /\ payouts = [r \in 1..MaxRefunds |-> 0]
      /\ disputes = [d \in DisputeIds |-> "NONE"]
      /\ admins = [a \in Admins |-> IdleAdmin]
  BY DEF DisputesInit
<1>3. refunds \in Seq(RefundRow) /\ Len(refunds) = 0
  BY <1>2, EmptySeq
<1>4. MaxRefunds \in Nat /\ Price \in Nat /\ 0 \in 0..Price
  BY DisputesAssumption
<1>5. RowTypesOK
  BY <1>2, <1>3, <1>4 DEF RowTypesOK
<1>6. /\ IdleAdmin \in AdminRow /\ IdleAdmin.refund = 0 /\ IdleAdmin.at = "idle"
      /\ IdleAdmin.full = FALSE
  BY SMT DEF IdleAdmin, AdminRow, Steps, NoEntry, NoRequest, Request, RefundKinds, LedgerTypes,
         DisputeStatuses
<1>7. admins \in [Admins -> AdminRow] /\ \A a \in Admins : admins[a] = IdleAdmin
  <2> HIDE DEF IdleAdmin
  <2> QED BY <1>2, <1>6
<1> HIDE DEF IdleAdmin
<1>8. EachWorks
  BY <1>3, <1>6, <1>7 DEF EachWorks, Works, Paying
<1>9. EachHasItsRefund
  BY <1>6, <1>7 DEF EachHasItsRefund
<1>10. RefundsAreNamed
  <2>1. \A i \in 1..Len(ledger) : i = 1 \/ i = 2
    BY <1>1
  <2> QED BY <2>1, <1>1 DEF RefundsAreNamed
<1>11. RefundedWasPaid
  BY <1>2 DEF RefundedWasPaid
<1>12. \A r \in 1..Len(refunds) : RefundIsRight(r)
  BY <1>3
<1> QED BY <1>1, <1>5, <1>7, <1>8, <1>9, <1>10, <1>11, <1>12 DEF DisputesInv

\* Every step keeps the invariant.
LEMMA DisputesStepInv == DisputesInv /\ [DisputesNext]_vars => DisputesInv'
<1> SUFFICES ASSUME DisputesInv, [DisputesNext]_vars PROVE DisputesInv'
  OBVIOUS
<1>1. disputes \in [DisputeIds -> DisputeStatuses \cup {"NONE"}]
  BY DEF DisputesInv, RowTypesOK
<1>2. CASE UNCHANGED vars
  <2>1. WalletInv' /\ ledger' = ledger
    BY <1>2, RowTypes, WalletStays DEF vars
  <2> QED BY <2>1, <1>1, <1>2, BackgroundStep DEF vars
<1>3. ASSUME NEW d \in DisputeIds, NEW status \in DisputeStatuses,
             OpenDispute(d) \/ UpdateStatus(d, status)
      PROVE  DisputesInv'
  <2>1. /\ UNCHANGED <<walletVars, purchase, refunds, payouts, admins>>
        /\ SetDispute(d, "OPEN") \/ SetDispute(d, status)
    BY <1>3 DEF OpenDispute, UpdateStatus
  <2>2. disputes' \in [DisputeIds -> DisputeStatuses \cup {"NONE"}]
    BY <2>1, <1>1 DEF SetDispute, DisputeStatuses
  <2>3. WalletInv' /\ ledger' = ledger
    BY <2>1, RowTypes, WalletStays
  <2> QED BY <2>1, <2>2, <2>3, BackgroundStep
<1>4. CASE WalletSettings
  <2>1. PICK status \in WalletStatuses : UpdateWalletSettings(status, NoThreshold)
    BY <1>4 DEF WalletSettings, WalletStatuses
  <2>2. WalletInv' /\ ledger' = ledger
    <3>1. NoThreshold \in Thresholds \cup {NoThreshold}
      OBVIOUS
    <3> QED BY <2>1, <3>1, RowTypes, SettingsPreserve DEF UpdateWalletSettings
  <2> QED BY <2>2, <1>1, <1>4, BackgroundStep DEF WalletSettings, rows
<1>5. ASSUME NEW d \in DisputeIds, NEW a \in Admins,
             \/ AdminAction(a, d, Reject)
             \/ AdminAction(a, d, Escalate)
             \/ \E row \in 1..Len(ledger) : AdminAction(a, d, ReverseCharge(row))
             \/ \E adjustment \in Adjustments : AdminAction(a, d, Adjust(adjustment))
             \/ \E request \in RefundRequests : AdminAction(a, d, Refund(request))
      PROVE  DisputesInv'
  <2> PICK w \in AdminRow : Works(w) /\ w.refund = 0 /\ AdminAction(a, d, w)
    <3> HIDE DEF Reject, Escalate, ReverseCharge, Adjust, Refund
    <3> QED BY <1>5, FirstStatements
  <2> QED BY ActionStep
<1>6. ASSUME NEW d \in DisputeIds, NEW a \in Admins, AddMessage(a, d) PROVE DisputesInv'
  BY <1>6, CustomerStep
<1>7. ASSUME NEW a \in Admins, NEW request \in RefundRequests, CreateRefund(a, request)
      PROVE  DisputesInv'
  BY <1>7, CustomerStep
<1>8. ASSUME NEW a \in Admins,
             \/ CheckReversal(a) \/ Post(a) \/ WriteStatus(a)
             \/ CheckRefund(a) \/ InsertRefund(a) \/ PayOut(a) \/ PostRefund(a)
             \/ CompleteRefund(a) \/ MarkRefunded(a) \/ StatementFails(a)
             \/ FailRefund(a) \/ GiveUp(a)
      PROVE  DisputesInv'
  BY <1>8, ReadingStep, PostStep, CapStep, InsertStep, PayOutStep, PostRefundStep,
     CompleteStep, MarkStep, FailStep
<1>9. CASE DisputesNext
  BY <1>3, <1>4, <1>5, <1>6, <1>7, <1>8, <1>9 DEF DisputesNext, DisputeStatuses
<1> QED BY <1>2, <1>9

-----------------------------------------------------------------------------
(* Reversals: a request that found none may be one of many, but no more     *)
(* may be on their way than there are requests.                            *)

\* Requests that found no reversal of the charge in row and are about to post one.
Reversing(row) ==
    {a \in Admins : /\ admins[a].at = "post"
                    /\ admins[a].entry.type = "CHARGE_REVERSAL"
                    /\ admins[a].entry.ref = row}

\* Reversals posted and on their way are no more than there are requests.
ReversalsInv ==
    \A row \in Nat : Cardinality(Reversals(row)) + Cardinality(Reversing(row))
                        <= Cardinality(Admins)

\* The counts are numbers.
LEMMA ReversalCounts ==
    ASSUME DisputesInv, NEW row \in Nat
    PROVE  /\ IsFiniteSet(Reversals(row)) /\ Cardinality(Reversals(row)) \in Nat
           /\ IsFiniteSet(Reversing(row)) /\ Cardinality(Reversing(row)) \in Nat
           /\ Cardinality(Reversing(row)) <= Cardinality(Admins)
           /\ IsFiniteSet(Admins) /\ Cardinality(Admins) \in Nat
<1>1. IsFiniteSet(1..Len(ledger))
  <2>1. Len(ledger) \in Int /\ 1 \in Int
    BY RowTypes
  <2> QED BY <2>1, FS_Interval
<1>2. IsFiniteSet(Admins)
  BY DisputesAssumption
<1>3. Reversals(row) \in SUBSET (1..Len(ledger)) /\ Reversing(row) \in SUBSET Admins
  BY DEF Reversals, Reversing
<1>4. IsFiniteSet(Reversals(row))
  BY <1>1, <1>3, FS_Subset
<1>5. IsFiniteSet(Reversing(row)) /\ Cardinality(Reversing(row)) <= Cardinality(Admins)
  BY <1>2, <1>3, FS_Subset
<1> QED BY <1>2, <1>4, <1>5, FS_CardinalityType

\* A step after which no request is about to post a reversal that was not
\* about to before, and which posts none.
LEMMA NobodyReverses ==
    ASSUME DisputesInv, ReversalsInv, admins' \in [Admins -> AdminRow],
           \A a \in Admins : \/ admins'[a] = admins[a]
                             \/ admins'[a].at # "post"
                             \/ admins'[a].entry.type # "CHARGE_REVERSAL",
           \/ ledger' = ledger
           \/ \E entry \in LedgerEntry : /\ entry.type # "CHARGE_REVERSAL"
                                         /\ ledger' = Append(ledger, entry)
    PROVE  ReversalsInv'
<1> SUFFICES ASSUME NEW row \in Nat
             PROVE  Cardinality(Reversals(row)') + Cardinality(Reversing(row)')
                       <= Cardinality(Admins)
  BY DEF ReversalsInv
<1>1. Reversals(row)' = Reversals(row)
  <2>1. CASE ledger' = ledger
    BY <2>1 DEF Reversals
  <2>2. ASSUME NEW entry \in LedgerEntry, entry.type # "CHARGE_REVERSAL",
               ledger' = Append(ledger, entry)
        PROVE  Reversals(row)' = Reversals(row)
    <3>1. ledger \in Seq(LedgerEntry)
      BY RowTypes DEF TypeOK
    <3>2. /\ Len(ledger) \in Nat
          /\ Len(ledger') = Len(ledger) + 1
          /\ \A i \in 1..Len(ledger) : ledger'[i] = ledger[i]
          /\ ledger'[Len(ledger) + 1] = entry
      BY <2>2, <3>1, OneMoreRow
    <3>3. \A i : i \in 1..Len(ledger') <=> i \in 1..Len(ledger) \/ i = Len(ledger) + 1
      BY <3>2
    <3> QED BY <2>2, <3>2, <3>3 DEF Reversals
  <2> QED BY <2>1, <2>2
<1>2. Reversing(row)' \in SUBSET Reversing(row)
  BY DEF Reversing
<1>3. Cardinality(Reversing(row)') <= Cardinality(Reversing(row))
      /\ Cardinality(Reversing(row)') \in Nat
  BY <1>2, ReversalCounts, FS_Subset, FS_CardinalityType
<1> DEFINE before == Cardinality(Reversing(row))
           after == Cardinality(Reversing(row)')
           done == Cardinality(Reversals(row))
           all == Cardinality(Admins)
<1>4. before \in Nat /\ done \in Nat /\ all \in Nat /\ done + before <= all
  BY ReversalCounts DEF ReversalsInv
<1>5. after \in Nat /\ after <= before
  BY <1>3
<1> HIDE DEF before, after, done, all
<1>6. done + after <= all
  BY <1>4, <1>5
<1> QED BY <1>1, <1>6 DEF after, done, all

\* A request finds no reversal: then none is posted, and no more are on their
\* way than there are requests.
LEMMA OneReverses ==
    ASSUME DisputesInv, DisputesInv', ReversalsInv, NEW a \in Admins, Goto(a, "post"),
           Reversals(admins[a].entry.ref) = {}, ledger' = ledger
    PROVE  ReversalsInv'
<1>1. PICK w \in AdminRow : w = admins[a]
  BY RowTypes
<1>2. /\ admins'[a].entry = w.entry
      /\ \A b \in Admins \ {a} : admins'[b] = admins[b]
  BY <1>1 DEF Goto, DisputesInv, AdminRow
<1> SUFFICES ASSUME NEW row \in Nat
             PROVE  Cardinality(Reversals(row)') + Cardinality(Reversing(row)')
                       <= Cardinality(Admins)
  BY DEF ReversalsInv
<1>3. Reversals(row)' = Reversals(row)
  BY DEF Reversals
<1>4. CASE row = w.entry.ref
  <2>1. Reversals(row) = {} /\ Cardinality(Reversals(row)) = 0
    BY <1>1, <1>4, FS_EmptySet
  <2>2. Reversing(row)' \in SUBSET Admins
    BY DEF Reversing
  <2>3. /\ Cardinality(Reversing(row)') <= Cardinality(Admins)
        /\ Cardinality(Reversing(row)') \in Nat
    BY <2>2, ReversalCounts, FS_Subset, FS_CardinalityType
  <2>4. Cardinality(Admins) \in Nat
    BY ReversalCounts
  <2> QED BY <2>1, <2>3, <2>4, <1>3
<1>5. CASE row # w.entry.ref
  <2>1. Reversing(row)' \in SUBSET Reversing(row)
    BY <1>2, <1>5 DEF Reversing
  <2>2. Cardinality(Reversing(row)') <= Cardinality(Reversing(row))
        /\ Cardinality(Reversing(row)') \in Nat
    BY <2>1, ReversalCounts, FS_Subset, FS_CardinalityType
  <2>3. Cardinality(Reversals(row)) + Cardinality(Reversing(row)) <= Cardinality(Admins)
    BY DEF ReversalsInv
  <2>4. /\ Cardinality(Reversing(row)) \in Nat /\ Cardinality(Reversals(row)) \in Nat
        /\ Cardinality(Admins) \in Nat
    BY ReversalCounts
  <2> QED BY <2>2, <2>3, <2>4, <1>3
<1> QED BY <1>4, <1>5

\* Posting a reversal moves it from the ones on their way to the posted ones.
LEMMA ReversalPosted ==
    ASSUME DisputesInv, DisputesInv', ReversalsInv, NEW a \in Admins, Post(a)
    PROVE  ReversalsInv'
<1> DEFINE no == FALSE
<1>1. PICK w \in AdminRow : /\ w = admins[a] /\ Works(w)
                           /\ \A step : Goto(a, step) <=> Become(a, [w EXCEPT !.at = step])
  BY Worker
<1>2. /\ w.at = "post"
      /\ PostTransaction(w.entry.type, Exact(w.entry.amount), no, w.entry.ref)
      /\ Become(a, [w EXCEPT !.at = "setStatus"])
  BY <1>1 DEF Post
<1> HIDE DEF no
<1>3. w.entry.type \in Entries
  BY <1>1, <1>2 DEF Works
<1>4. /\ w.entry.type \in LedgerTypes \ {"USAGE_CHARGE", "REFUND"}
      /\ Exact(w.entry.amount) \in Int /\ w.entry.ref \in Nat
  BY <1>3, UnitsStored DEF AdminRow, Entries, LedgerTypes
<1> DEFINE entry == LedgerRow(wallet, w.entry.type, Exact(w.entry.amount), w.entry.ref)
           k == Len(ledger) + 1
<1>5. /\ TypeOK /\ ledger' = Append(ledger, entry) /\ entry \in LedgerEntry
      /\ entry.type = w.entry.type /\ entry.ref = w.entry.ref
  BY <1>2, <1>4, RowTypes, PostKeepsWallet
<1> HIDE DEF entry
<1>6. /\ admins'[a].at = "setStatus"
      /\ \A b \in Admins \ {a} : admins'[b] = admins[b]
  BY <1>2 DEF Become, DisputesInv, AdminRow
<1>7. /\ Len(ledger) \in Nat
      /\ Len(ledger') = k
      /\ \A i \in 1..Len(ledger) : ledger'[i] = ledger[i]
      /\ ledger'[k] = entry
  BY <1>5, OneMoreRow DEF TypeOK
<1>8. \A i : i \in 1..Len(ledger') <=> i \in 1..Len(ledger) \/ i = k
  BY <1>7
<1>9. CASE w.entry.type # "CHARGE_REVERSAL"
  BY <1>5, <1>6, <1>9, NobodyReverses DEF DisputesInv
<1>10. CASE w.entry.type = "CHARGE_REVERSAL"
  <2> SUFFICES ASSUME NEW row \in Nat
               PROVE  Cardinality(Reversals(row)') + Cardinality(Reversing(row)')
                         <= Cardinality(Admins)
    BY DEF ReversalsInv
  <2>1. Reversing(row)' = Reversing(row) \ {a}
    BY <1>6 DEF Reversing
  <2>2. a \in Reversing(row) <=> row = w.entry.ref
    BY <1>1, <1>2, <1>10 DEF Reversing
  <2>3. k \notin Reversals(row)
    BY <1>7 DEF Reversals
  <2>4. Reversals(row)' = IF row = w.entry.ref THEN Reversals(row) \cup {k} ELSE Reversals(row)
    BY <1>5, <1>7, <1>8, <1>10 DEF Reversals
  <2>5. /\ IsFiniteSet(Reversals(row)) /\ IsFiniteSet(Reversing(row))
        /\ Cardinality(Reversals(row)) \in Nat /\ Cardinality(Reversing(row)) \in Nat
        /\ Cardinality(Admins) \in Nat
    BY ReversalCounts
  <2>6. Cardinality(Reversals(row)) + Cardinality(Reversing(row)) <= Cardinality(Admins)
    BY DEF ReversalsInv
  <2>7. CASE row = w.entry.ref
    <3>1. Cardinality(Reversals(row)') = Cardinality(Reversals(row)) + 1
      BY <2>3, <2>4, <2>5, <2>7, FS_AddElement
    <3>2. Cardinality(Reversing(row)') = Cardinality(Reversing(row)) - 1
      <4>1. a \in Reversing(row)
        BY <2>2, <2>7
      <4>2. Cardinality(Reversing(row) \ {a}) = Cardinality(Reversing(row)) - 1
        BY <4>1, <2>5, FS_RemoveElement
      <4> QED BY <4>2, <2>1
    <3> QED BY <2>5, <2>6, <3>1, <3>2
  <2>8. CASE row # w.entry.ref
    <3>1. Reversals(row)' = Reversals(row) /\ Reversing(row)' = Reversing(row)
      BY <2>1, <2>2, <2>4, <2>8
    <3> QED BY <2>6, <3>1
  <2> QED BY <2>7, <2>8
<1> QED BY <1>9, <1>10

\* What a request posts first: no first statement of adminAction posts a reversal.
LEMMA FirstIsNoReversal ==
    ASSUME DisputesInv, NEW d \in DisputeIds
    PROVE  \A w \in AdminRow :
              \/ w = Reject \/ w = Escalate
              \/ \E row \in 1..Len(ledger) : w = ReverseCharge(row)
              \/ \E adjustment \in Adjustments : w = Adjust(adjustment)
              \/ \E request \in RefundRequests : w = Refund(request)
              => [w EXCEPT !.dispute = d].at # "post"
                    \/ [w EXCEPT !.dispute = d].entry.type # "CHARGE_REVERSAL"
<1>1. IdleAdmin \in AdminRow
  BY IdleWorks
<1>2. \A adjustment \in Adjustments : adjustment.type # "CHARGE_REVERSAL"
  BY DisputesAssumption
<1> HIDE DEF IdleAdmin
<1>3. Reject.at = "setStatus" /\ Escalate.at = "setStatus"
  BY <1>1 DEF Reject, Escalate, AdminRow
<1>4. \A row : ReverseCharge(row).at = "checkReversal"
  BY <1>1 DEF ReverseCharge, AdminRow
<1>5. \A adjustment \in Adjustments : Adjust(adjustment).entry.type # "CHARGE_REVERSAL"
  <2> SUFFICES ASSUME NEW adjustment \in Adjustments
               PROVE  Adjust(adjustment).entry.type # "CHARGE_REVERSAL"
    OBVIOUS
  <2> DEFINE entry == [type |-> adjustment.type, amount |-> adjustment.amount, ref |-> 0]
  <2>1. entry.type # "CHARGE_REVERSAL"
    BY <1>2
  <2>2. Adjust(adjustment) = [IdleAdmin EXCEPT !.at = "post", !.entry = entry]
    BY DEF Adjust
  <2> HIDE DEF entry
  <2> QED BY <1>1, <2>1, <2>2 DEF AdminRow
<1>6. \A request : Refund(request).at = "checkRefund"
  BY <1>1 DEF Refund, AdminRow
<1> HIDE DEF Reject, Escalate, ReverseCharge, Adjust, Refund
<1>7. \A w \in AdminRow : /\ [w EXCEPT !.dispute = d].at = w.at
                          /\ [w EXCEPT !.dispute = d].entry = w.entry
  BY DEF AdminRow
<1> QED BY <1>3, <1>4, <1>5, <1>6, <1>7

\* Every step keeps the count.
LEMMA ReversalsStepInv ==
    ASSUME DisputesInv, DisputesInv', ReversalsInv, [DisputesNext]_vars
    PROVE  ReversalsInv'
<1>1. admins \in [Admins -> AdminRow] /\ admins' \in [Admins -> AdminRow]
  BY DEF DisputesInv
<1>2. ASSUME NEW a \in Admins, NEW w, Become(a, w),
             w.at # "post" \/ w.entry.type # "CHARGE_REVERSAL",
             \/ ledger' = ledger
             \/ \E entry \in LedgerEntry : /\ entry.type # "CHARGE_REVERSAL"
                                           /\ ledger' = Append(ledger, entry)
      PROVE  ReversalsInv'
  <2>1. admins'[a] = w /\ \A b \in Admins \ {a} : admins'[b] = admins[b]
    BY <1>1, <1>2 DEF Become
  <2> QED BY <1>1, <1>2, <2>1, NobodyReverses
<1>3. IdleAdmin.at = "idle"
  BY DEF IdleAdmin
<1>4. ASSUME NEW a \in Admins, Become(a, IdleAdmin), ledger' = ledger PROVE ReversalsInv'
  <2> HIDE DEF IdleAdmin
  <2> QED BY <1>2, <1>3, <1>4
<1>5. ASSUME NEW a \in Admins, NEW step \in Steps \ {"post"}, Goto(a, step),
             \/ ledger' = ledger
             \/ \E entry \in LedgerEntry : /\ entry.type # "CHARGE_REVERSAL"
                                           /\ ledger' = Append(ledger, entry)
      PROVE  ReversalsInv'
  <2>1. PICK w \in AdminRow : w = admins[a]
    BY <1>1
  <2> DEFINE v == [w EXCEPT !.at = step]
  <2>2. Become(a, v)
    BY <2>1, <1>1, <1>5 DEF Goto, Become
  <2>3. v.at # "post"
    BY DEF AdminRow
  <2> HIDE DEF v
  <2> QED BY <1>2, <1>5, <2>2, <2>3
<1>6. CASE UNCHANGED <<admins, ledger>>
  BY <1>1, <1>6, NobodyReverses
<1>7. ASSUME NEW d \in DisputeIds, NEW status \in DisputeStatuses,
             OpenDispute(d) \/ UpdateStatus(d, status)
      PROVE  ReversalsInv'
  BY <1>6, <1>7 DEF OpenDispute, UpdateStatus, walletVars
<1>8. CASE WalletSettings \/ UNCHANGED vars
  BY <1>6, <1>8 DEF WalletSettings, UpdateWalletSettings, vars, walletVars
<1>9. ASSUME NEW d \in DisputeIds, NEW a \in Admins,
             \/ AdminAction(a, d, Reject)
             \/ AdminAction(a, d, Escalate)
             \/ \E row \in 1..Len(ledger) : AdminAction(a, d, ReverseCharge(row))
             \/ \E adjustment \in Adjustments : AdminAction(a, d, Adjust(adjustment))
             \/ \E request \in RefundRequests : AdminAction(a, d, Refund(request))
      PROVE  ReversalsInv'
  <2> PICK w \in AdminRow :
         /\ AdminAction(a, d, w)
         /\ \/ w = Reject \/ w = Escalate
            \/ \E row \in 1..Len(ledger) : w = ReverseCharge(row)
            \/ \E adjustment \in Adjustments : w = Adjust(adjustment)
            \/ \E request \in RefundRequests : w = Refund(request)
    <3> HIDE DEF Reject, Escalate, ReverseCharge, Adjust, Refund
    <3> QED BY <1>9, FirstStatements
  <2> DEFINE v == [w EXCEPT !.dispute = d]
  <2>1. v.at # "post" \/ v.entry.type # "CHARGE_REVERSAL"
    <3> HIDE DEF Reject, Escalate, ReverseCharge, Adjust, Refund
    <3> QED BY FirstIsNoReversal
  <2>2. Become(a, v) /\ ledger' = ledger
    BY DEF AdminAction, walletVars
  <2> HIDE DEF v
  <2> QED BY <1>2, <2>1, <2>2
<1>10. ASSUME NEW d \in DisputeIds, NEW a \in Admins, AddMessage(a, d) PROVE ReversalsInv'
  <2> DEFINE v == [IdleAdmin EXCEPT !.at = "setStatus", !.dispute = d,
                                    !.outcome = "UNDER_INVESTIGATION"]
  <2>1. Become(a, v) /\ ledger' = ledger
    BY <1>10 DEF AddMessage, walletVars
  <2>2. v.at = "setStatus"
    BY DEF IdleAdmin
  <2> HIDE DEF v
  <2> QED BY <1>2, <2>1, <2>2
<1>11. ASSUME NEW a \in Admins, NEW request \in RefundRequests, CreateRefund(a, request)
       PROVE  ReversalsInv'
  <2>1. Become(a, Refund(request)) /\ ledger' = ledger
    BY <1>11 DEF CreateRefund, walletVars
  <2>2. Refund(request).at = "checkRefund"
    BY DEF Refund, IdleAdmin
  <2> HIDE DEF Refund
  <2> QED BY <1>2, <2>1, <2>2
<1>12. ASSUME NEW a \in Admins, CheckReversal(a) PROVE ReversalsInv'
  <2>1. /\ ledger' = ledger
        /\ \/ Reversals(admins[a].entry.ref) = {} /\ Goto(a, "post")
           \/ Become(a, IdleAdmin)
    BY <1>12 DEF CheckReversal, walletVars
  <2> HIDE DEF IdleAdmin
  <2> QED BY <2>1, <1>4, OneReverses
<1>13. ASSUME NEW a \in Admins, CheckRefund(a) PROVE ReversalsInv'
  <2>1. PICK full : Become(a, IdleAdmin)
                    \/ Become(a, [admins[a] EXCEPT !.at = "createRefund", !.full = full])
    BY <1>13 DEF CheckRefund
  <2>2. ledger' = ledger
    BY <1>13 DEF CheckRefund, walletVars
  <2>3. PICK w \in AdminRow : w = admins[a]
    BY <1>1
  <2> DEFINE v == [w EXCEPT !.at = "createRefund", !.full = full]
  <2>4. v.at # "post"
    BY DEF AdminRow
  <2>5. Become(a, IdleAdmin) \/ Become(a, v)
    BY <2>1, <2>3
  <2> HIDE DEF v, IdleAdmin
  <2> QED BY <2>2, <2>4, <2>5, <1>2, <1>4
<1>14. ASSUME NEW a \in Admins, InsertRefund(a) PROVE ReversalsInv'
  <2>1. PICK w \in AdminRow : w = admins[a]
    BY <1>1
  <2>2. PICK step \in {"payOut", "postRefund"} :
           Become(a, [w EXCEPT !.at = step, !.refund = Len(refunds) + 1])
    BY <1>14, <2>1 DEF InsertRefund
  <2>3. ledger' = ledger
    BY <1>14 DEF InsertRefund, walletVars
  <2> DEFINE v == [w EXCEPT !.at = step, !.refund = Len(refunds) + 1]
  <2>4. v.at # "post"
    BY DEF AdminRow
  <2> HIDE DEF v
  <2> QED BY <2>2, <2>3, <2>4, <1>2 DEF v
<1>15. ASSUME NEW a \in Admins, PayOut(a) \/ StatementFails(a) PROVE ReversalsInv'
  <2>1. PICK step \in Steps \ {"post"} : Goto(a, step)
    BY <1>15 DEF PayOut, StatementFails, Steps
  <2>2. ledger' = ledger
    BY <1>15 DEF PayOut, StatementFails, walletVars
  <2> QED BY <2>1, <2>2, <1>5
<1>16. ASSUME NEW a \in Admins, PostRefund(a) PROVE ReversalsInv'
  <2>1. PICK w \in AdminRow : w = admins[a] /\ Works(w)
    BY Worker
  <2> DEFINE amount == RefundEntry(w.request)
             cash == w.request.kind = "CASH"
             row == LedgerRow(wallet, "REFUND", Exact(amount), w.refund)
  <2>2. CASE Goto(a, "failRefund") /\ UNCHANGED walletVars
    <3>1. "failRefund" \in Steps \ {"post"} /\ ledger' = ledger
      BY <2>2 DEF Steps, walletVars
    <3> QED BY <2>2, <3>1, <1>5
  <2>3. ASSUME PostTransaction("REFUND", Exact(amount), cash, w.refund),
               Goto(a, "completeRefund")
        PROVE  ReversalsInv'
    <3>1. amount \in Int
      <4>1. w.request.amount \in Nat
        BY DEF AdminRow, Request
      <4> QED BY <4>1 DEF RefundEntry
    <3>2. w.refund \in Nat /\ "REFUND" \in LedgerTypes \ {"USAGE_CHARGE"}
      BY DEF AdminRow, LedgerTypes
    <3> HIDE DEF amount, cash
    <3>3. Exact(amount) \in Int
      BY <3>1, UnitsStored
    <3>4. row \in LedgerEntry /\ ledger' = Append(ledger, row) /\ row.type = "REFUND"
      BY <2>3, <3>2, <3>3, RowTypes, PostKeepsWallet
    <3>5. "completeRefund" \in Steps \ {"post"} /\ row.type # "CHARGE_REVERSAL"
      BY <3>4 DEF Steps
    <3> HIDE DEF row
    <3> QED BY <2>3, <3>4, <3>5, <1>5
  <2> QED BY <1>16, <2>1, <2>2, <2>3 DEF PostRefund
<1>17. ASSUME NEW a \in Admins, Finish(a), ledger' = ledger PROVE ReversalsInv'
  <2>1. "setStatus" \in Steps \ {"post"}
    BY DEF Steps
  <2> QED BY <2>1, <1>4, <1>5, <1>17 DEF Finish
<1>18. ASSUME NEW a \in Admins, CompleteRefund(a) \/ MarkRefunded(a) PROVE ReversalsInv'
  <2>1. ledger' = ledger /\ (Finish(a) \/ Goto(a, "markRefunded"))
    BY <1>18 DEF CompleteRefund, MarkRefunded, walletVars
  <2>2. "markRefunded" \in Steps \ {"post"}
    BY DEF Steps
  <2> QED BY <2>1, <2>2, <1>5, <1>17
<1>19. ASSUME NEW a \in Admins, WriteStatus(a) \/ FailRefund(a) \/ GiveUp(a)
       PROVE  ReversalsInv'
  <2>1. Become(a, IdleAdmin) /\ ledger' = ledger
    BY <1>19 DEF WriteStatus, FailRefund, GiveUp, walletVars
  <2> QED BY <2>1, <1>4
<1>20. ASSUME NEW a \in Admins, Post(a) PROVE ReversalsInv'
  BY <1>20, ReversalPosted
<1>21. CASE DisputesNext
  BY <1>7, <1>8, <1>9, <1>10, <1>11, <1>12, <1>13, <1>14, <1>15, <1>16, <1>18, <1>19, <1>20,
     <1>21 DEF DisputesNext, DisputeStatuses
<1> QED BY <1>8, <1>21

\* At first nothing is reversed.
LEMMA ReversalsInitInv == DisputesInit => ReversalsInv
<1> SUFFICES ASSUME DisputesInit, NEW row \in Nat
             PROVE  Cardinality(Reversals(row)) + Cardinality(Reversing(row))
                       <= Cardinality(Admins)
  BY DEF ReversalsInv
<1>1. \A a \in Admins : admins[a].at = "idle"
  BY DEF DisputesInit, IdleAdmin
<1>2. Reversing(row) = {}
  BY <1>1 DEF Reversing
<1>3. Reversals(row) = {}
  <2> DEFINE row1 == LedgerRow(NewWallet, "PURCHASE", Exact(Price), 0)
             row2 == LedgerRow(Funded, "USAGE_CHARGE", Exact(-Charge), 1)
  <2>1. row1.type = "PURCHASE" /\ row2.type = "USAGE_CHARGE"
    BY DEF LedgerRow
  <2>2. ledger = <<row1, row2>>
    BY DEF DisputesInit
  <2> HIDE DEF row1, row2
  <2>3. Len(ledger) = 2 /\ ledger[1] = row1 /\ ledger[2] = row2
    BY <2>2
  <2>4. \A i \in 1..Len(ledger) : i = 1 \/ i = 2
    BY <2>3
  <2> QED BY <2>1, <2>3, <2>4 DEF Reversals
<1>4. Cardinality(Admins) \in Nat
  BY DisputesAssumption, FS_CardinalityType
<1> QED BY <1>2, <1>3, <1>4, FS_EmptySet

-----------------------------------------------------------------------------
(* The cap: a request that passes it may be overtaken by one refund of each  *)
(* other request, and a refund that it counted may fail, one for each other  *)
(* request that still worked on it.                                         *)

\* What the refunds of rs in set S that name the purchase add up to.
RefundedIn(rs, S) ==
    Total([r \in 1..Len(rs) |-> IF r \in S /\ rs[r].capped THEN rs[r].amount ELSE 0], Len(rs))

\* Requests that passed the cap and have not written their refund yet.
Capped == {a \in Admins : admins[a].at = "createRefund" /\ admins[a].request.capped}

\* A request at work on its refund has not failed it.
NotFailedYet ==
    \A a \in Admins : admins[a].at \in Paying
        => refunds[admins[a].refund].status # "FAILED"

\* Standing refunds that nobody works on: they never fail.
Carried(r) == \E a \in Admins : admins[a].at \in Paying /\ admins[a].refund = r
Settled == {r \in Standing : ~Carried(r)}

\* But for the refunds in K, the standing refunds are within the price; with
\* K there is a request to spare, or that request, the last to pass the cap, is
\* on its way and still fits.
WithinCap ==
    \E K \in SUBSET (1..Len(refunds)) :
        \/ /\ Refunded(Standing \ K) <= Price
           /\ Cardinality(K) + Cardinality(Capped) < Cardinality(Admins)
        \/ /\ Cardinality(K) + Cardinality(Capped) <= Cardinality(Admins)
           /\ \E a \in Capped :
                 Refunded(Standing \ K) + admins[a].request.amount <= Price

\* A request that saw the purchase used up: settled refunds, its own, and one of
\* each other request add up to the price.
SawFull(a) ==
    admins[a].full =>
        /\ admins[a].at = "createRefund" =>
              \E K \in FewerThanAdmins :
                 Refunded(Settled \cup K) + admins[a].request.amount >= Price
        /\ admins[a].at \in Paying =>
              \E K \in FewerThanAdmins :
                 Refunded(Settled \cup K \cup {admins[a].refund}) >= Price

RefundedWasSettled ==
    purchase = "REFUNDED" => \E K \in FewerThanAdmins : Refunded(Settled \cup K) >= Price

CapInv ==
    /\ NotFailedYet
    /\ WithinCap
    /\ \A a \in Admins : SawFull(a)
    /\ RefundedWasSettled

\* The sums are natural numbers.
LEMMA SumNat ==
    ASSUME NEW rs \in Seq(RefundRow), NEW S
    PROVE  RefundedIn(rs, S) \in Nat
<1> DEFINE f == [r \in 1..Len(rs) |-> IF r \in S /\ rs[r].capped THEN rs[r].amount ELSE 0]
<1>1. Len(rs) \in Nat /\ \A r \in 1..Len(rs) : rs[r] \in RefundRow
  BY LenProperties, ElementOfSeq
<1>2. \A r \in 1..Len(rs) : f[r] \in Nat
  BY <1>1 DEF RefundRow
<1>3. RefundedIn(rs, S) = Total(f, Len(rs))
  BY DEF RefundedIn
<1> HIDE DEF f
<1> QED BY <1>1, <1>2, <1>3, TotalNat

\* More refunds add up to no less; their statuses and kinds do not count.
LEMMA SumNoLess ==
    ASSUME NEW rs \in Seq(RefundRow), NEW ss \in Seq(RefundRow), Len(ss) = Len(rs),
           \A r \in 1..Len(rs) : ss[r].capped = rs[r].capped /\ ss[r].amount = rs[r].amount,
           NEW S, NEW T, \A r \in 1..Len(rs) : r \in S => r \in T
    PROVE  RefundedIn(rs, S) <= RefundedIn(ss, T)
<1> DEFINE n == Len(rs)
           f == [r \in 1..n |-> IF r \in S /\ rs[r].capped THEN rs[r].amount ELSE 0]
           g == [r \in 1..n |-> IF r \in T /\ ss[r].capped THEN ss[r].amount ELSE 0]
<1>1. n \in Nat /\ \A r \in 1..n : rs[r] \in RefundRow /\ ss[r] \in RefundRow
  BY LenProperties, ElementOfSeq
<1>2. RefundedIn(rs, S) = Total(f, n) /\ RefundedIn(ss, T) = Total(g, n)
  BY DEF RefundedIn
<1>3. \A r \in 1..n : f[r] \in Int /\ g[r] \in Int /\ f[r] <= g[r]
  BY <1>1 DEF RefundRow
<1> HIDE DEF f, g, n
<1> QED BY <1>1, <1>2, <1>3, TotalMonotone

\* A new refund adds its amount when it names the purchase.
LEMMA SumMore ==
    ASSUME NEW rs \in Seq(RefundRow), NEW row \in RefundRow, NEW S
    PROVE  RefundedIn(Append(rs, row), S)
              = RefundedIn(rs, S) + IF Len(rs) + 1 \in S /\ row.capped THEN row.amount ELSE 0
<1> DEFINE n == Len(rs)
           more == Append(rs, row)
           f == [r \in 1..n |-> IF r \in S /\ rs[r].capped THEN rs[r].amount ELSE 0]
           g == [r \in 1..(n + 1) |-> IF r \in S /\ more[r].capped THEN more[r].amount ELSE 0]
<1>1. /\ n \in Nat /\ Len(more) = n + 1
      /\ \A r \in 1..n : more[r] = rs[r]
      /\ more[n + 1] = row
  BY AppendProperties, LenProperties
<1>2. RefundedIn(rs, S) = Total(f, n) /\ RefundedIn(more, S) = Total(g, n + 1)
  BY <1>1 DEF RefundedIn
<1>3. \A r \in 1..n : g[r] = f[r]
  BY <1>1
<1>4. g[n + 1] = IF n + 1 \in S /\ row.capped THEN row.amount ELSE 0
  BY <1>1
<1> HIDE DEF f, g, n, more
<1>5. Total(g, n + 1) = Total(g, (n + 1) - 1) + g[n + 1] /\ (n + 1) - 1 = n
  BY <1>1, TotalStep
<1>6. Total(g, n) = Total(f, n)
  BY <1>1, <1>3, TotalSame
<1> QED BY <1>2, <1>4, <1>5, <1>6 DEF more, n

\* Sets of refunds and of requests are finite.
LEMMA CapCounts ==
    ASSUME DisputesInv
    PROVE  /\ refunds \in Seq(RefundRow) /\ Len(refunds) \in Nat
           /\ IsFiniteSet(Capped) /\ Cardinality(Capped) \in Nat /\ Capped \in SUBSET Admins
           /\ IsFiniteSet(Admins) /\ Cardinality(Admins) \in Nat \ {0}
           /\ Cardinality(Capped) <= Cardinality(Admins)
           /\ \A K \in SUBSET (1..Len(refunds)) : IsFiniteSet(K) /\ Cardinality(K) \in Nat
           /\ {} \in FewerThanAdmins
           /\ \A S : Refunded(S) = RefundedIn(refunds, S) /\ Refunded(S) \in Nat
           /\ Price \in Nat
           /\ \A a \in Admins : admins[a].request.amount \in Nat
<1>1. refunds \in Seq(RefundRow) /\ Len(refunds) \in Nat
  BY RowTypes DEF DisputesInv, RowTypesOK
<1>2. IsFiniteSet(Admins) /\ Admins # {}
  BY DisputesAssumption
<1>3. Cardinality(Admins) \in Nat \ {0}
  BY <1>2, FS_CardinalityType, FS_EmptySet
<1>4. Capped \in SUBSET Admins
  BY DEF Capped
<1>5. IsFiniteSet(Capped) /\ Cardinality(Capped) <= Cardinality(Admins)
      /\ Cardinality(Capped) \in Nat
  BY <1>2, <1>4, FS_Subset, FS_CardinalityType
<1>6. ASSUME NEW K \in SUBSET (1..Len(refunds))
      PROVE  IsFiniteSet(K) /\ Cardinality(K) \in Nat
  <2>1. IsFiniteSet(1..Len(refunds))
    BY <1>1, FS_Interval
  <2> QED BY <2>1, FS_Subset, FS_CardinalityType
<1>7. {} \in FewerThanAdmins
  BY <1>3, FS_EmptySet DEF FewerThanAdmins
<1>8. ASSUME NEW S
      PROVE  Refunded(S) = RefundedIn(refunds, S) /\ Refunded(S) \in Nat
  <2>1. Refunded(S) = RefundedIn(refunds, S)
    BY DEF Refunded, RefundedIn
  <2> QED BY <2>1, <1>1, SumNat
<1>9. \A a \in Admins : admins[a].request.amount \in Nat
  BY RowTypes DEF AdminRow, Request
<1> QED BY <1>1, <1>2, <1>3, <1>4, <1>5, <1>6, <1>7, <1>8, <1>9, RowTypes

\* A step that lets no request past the cap and adds no refund.
LEMMA CapKept ==
    ASSUME DisputesInv, DisputesInv', CapInv, NotFailedYet',
           Len(refunds') = Len(refunds),
           \A r \in 1..Len(refunds) : /\ refunds'[r].capped = refunds[r].capped
                                     /\ refunds'[r].amount = refunds[r].amount,
           Standing' \subseteq Standing,
           Settled \subseteq Settled',
           \A a \in Admins : admins'[a].at = "createRefund" => admins'[a] = admins[a],
           \A a \in Admins : admins'[a].at \in Paying
              => /\ admins[a].at \in Paying
                 /\ admins'[a].refund = admins[a].refund /\ admins'[a].full = admins[a].full,
           \/ purchase' = purchase
           \/ \E a \in Admins : /\ admins[a].at \in Paying /\ admins[a].full
                                /\ admins[a].refund \in Settled'
    PROVE  CapInv'
<1> DEFINE rs == refunds
           ss == refunds'
<1>1. /\ rs \in Seq(RefundRow) /\ ss \in Seq(RefundRow)
      /\ \A S : Refunded(S) = RefundedIn(rs, S) /\ Refunded(S) \in Nat
      /\ Price \in Nat
      /\ \A K \in SUBSET (1..Len(rs)) : IsFiniteSet(K) /\ Cardinality(K) \in Nat
      /\ Cardinality(Admins) \in Nat
      /\ IsFiniteSet(Capped) /\ Cardinality(Capped) \in Nat
      /\ \A a \in Capped : admins[a].request.amount \in Nat
  BY CapCounts DEF DisputesInv, RowTypesOK, Capped
<1>2. FewerThanAdmins' = FewerThanAdmins
  BY DEF FewerThanAdmins
<1>3. ASSUME NEW S, NEW T, \A r \in 1..Len(rs) : r \in S => r \in T
      PROVE  RefundedIn(rs, S) <= RefundedIn(ss, T)
             /\ RefundedIn(rs, S) \in Nat /\ RefundedIn(ss, T) \in Nat
  BY <1>1, <1>3, SumNoLess, SumNat
<1>4. ASSUME NEW S, NEW T, \A r \in 1..Len(rs) : r \in S => r \in T
      PROVE  RefundedIn(ss, S) <= RefundedIn(rs, T)
             /\ RefundedIn(ss, S) \in Nat /\ RefundedIn(rs, T) \in Nat
  BY <1>1, <1>4, SumNoLess, SumNat
<1>5. WithinCap'
  <2>1. Capped' \in SUBSET Capped
    BY DEF Capped
  <2>2. Cardinality(Capped') \in Nat /\ Cardinality(Capped') <= Cardinality(Capped)
    BY <2>1, <1>1, FS_Subset, FS_CardinalityType
  <2>3. PICK K \in SUBSET (1..Len(rs)) :
          \/ /\ Refunded(Standing \ K) <= Price
             /\ Cardinality(K) + Cardinality(Capped) < Cardinality(Admins)
          \/ /\ Cardinality(K) + Cardinality(Capped) <= Cardinality(Admins)
             /\ \E a \in Capped :
                   Refunded(Standing \ K) + admins[a].request.amount <= Price
    BY DEF CapInv, WithinCap
  <2>4. Cardinality(K) \in Nat /\ K \in SUBSET (1..Len(ss))
    BY <1>1
  <2>5. PICK s \in Nat : s = Refunded(Standing \ K)
    BY <1>1
  <2>6. PICK t \in Nat : t = RefundedIn(ss, Standing' \ K)
    BY <1>1, SumNat
  <2>7. t <= s
    <3>1. \A r \in 1..Len(rs) : r \in Standing' \ K => r \in Standing \ K
      OBVIOUS
    <3>2. t <= RefundedIn(rs, Standing \ K)
      BY <3>1, <1>4, <2>6
    <3> QED BY <3>2, <2>5, <1>1
  <2>8. Refunded(Standing \ K)' = t
    BY <2>6 DEF Refunded, RefundedIn
  <2>9. CASE s <= Price /\ Cardinality(K) + Cardinality(Capped) < Cardinality(Admins)
    <3>1. t <= Price /\ Cardinality(K) + Cardinality(Capped') < Cardinality(Admins)
      BY <2>2, <2>4, <2>7, <2>9, <1>1
    <3> QED BY <3>1, <2>4, <2>8 DEF WithinCap
  <2>10. ASSUME Cardinality(K) + Cardinality(Capped) <= Cardinality(Admins),
                NEW a \in Capped, s + admins[a].request.amount <= Price
         PROVE  WithinCap'
    <3>1. PICK x \in Nat : x = admins[a].request.amount
      BY <1>1
    <3>0. Price \in Nat
      BY <1>1
    <3>2. t + x <= Price /\ t <= Price
      BY <3>0, <3>1, <2>7, <2>10
    <3>3. CASE a \in Capped'
      <4>1. admins'[a] = admins[a]
        BY <3>3 DEF Capped
      <4>2. Cardinality(K) + Cardinality(Capped') <= Cardinality(Admins)
        BY <2>2, <2>4, <2>10, <1>1
      <4>3. Refunded(Standing \ K)' + admins'[a].request.amount <= Price
        BY <4>1, <3>1, <3>2, <2>8
      <4> QED BY <4>2, <4>3, <3>3, <2>4 DEF WithinCap
    <3>4. CASE a \notin Capped'
      <4>1. Capped' \in SUBSET (Capped \ {a})
        BY <2>1, <3>4
      <4>2. IsFiniteSet(Capped \ {a}) /\ Cardinality(Capped \ {a}) = Cardinality(Capped) - 1
        BY <1>1, FS_RemoveElement
      <4>3. Cardinality(Capped') <= Cardinality(Capped) - 1
        BY <4>1, <4>2, FS_Subset
      <4>4. Cardinality(K) + Cardinality(Capped') < Cardinality(Admins)
        BY <4>3, <2>2, <2>4, <2>10, <1>1
      <4> QED BY <4>4, <3>2, <2>4, <2>8 DEF WithinCap
    <3> QED BY <3>3, <3>4
  <2> QED BY <2>3, <2>5, <2>9, <2>10
<1>6. ASSUME NEW K \in FewerThanAdmins, NEW X
      PROVE  Refunded(Settled \cup K \cup X) <= Refunded(Settled \cup K \cup X)'
             /\ Refunded(Settled \cup K \cup X) \in Nat
             /\ Refunded(Settled \cup K \cup X)' \in Nat
  <2>1. \A r \in 1..Len(rs) : r \in Settled \cup K \cup X => r \in Settled' \cup K \cup X
    OBVIOUS
  <2>2. Refunded(Settled \cup K \cup X)' = RefundedIn(ss, Settled' \cup K \cup X)
    BY DEF Refunded, RefundedIn
  <2> QED BY <2>1, <2>2, <1>1, <1>3
<1>7. ASSUME NEW K
      PROVE  Settled \cup K \cup {} = Settled \cup K /\ (Settled \cup K \cup {} = Settled \cup K)'
  OBVIOUS
<1>8. ASSUME NEW a \in Admins PROVE SawFull(a)'
  <2>1. CASE admins'[a].full /\ admins'[a].at = "createRefund"
    <3>1. admins'[a] = admins[a]
      BY <2>1
    <3>2. PICK K \in FewerThanAdmins :
            Refunded(Settled \cup K) + admins[a].request.amount >= Price
      BY <3>1, <2>1 DEF CapInv, SawFull
    <3>3. /\ Refunded(Settled \cup K) <= Refunded(Settled \cup K)'
          /\ Refunded(Settled \cup K) \in Nat /\ Refunded(Settled \cup K)' \in Nat
      BY <1>6, <1>7
    <3>0. Price \in Nat
      BY <1>1
    <3>4. admins[a].request.amount \in Nat
      BY CapCounts
    <3>5. Refunded(Settled \cup K)' + admins[a].request.amount >= Price
      BY <3>0, <3>2, <3>3, <3>4
    <3>6. "createRefund" \notin Paying
      BY DEF Paying
    <3> QED BY <3>1, <3>5, <3>6, <2>1, <1>2 DEF SawFull
  <2>2. CASE admins'[a].full /\ admins'[a].at \in Paying
    <3>1. /\ admins[a].full /\ admins[a].at \in Paying
          /\ admins'[a].refund = admins[a].refund
      BY <2>2
    <3>2. PICK x \in Nat : x = admins[a].refund
      BY RowTypes
    <3>3. PICK K \in FewerThanAdmins : Refunded(Settled \cup K \cup {x}) >= Price
      BY <3>1, <3>2 DEF CapInv, SawFull
    <3>4. /\ Refunded(Settled \cup K \cup {x}) <= Refunded(Settled \cup K \cup {x})'
          /\ Refunded(Settled \cup K \cup {x}) \in Nat
          /\ Refunded(Settled \cup K \cup {x})' \in Nat
      BY <1>6
    <3>5. Refunded(Settled \cup K \cup {x})' >= Price
      BY <3>3, <3>4, <1>1
    <3>6. admins'[a].at # "createRefund"
      BY <2>2 DEF Paying
    <3> QED BY <3>1, <3>2, <3>5, <3>6, <1>2 DEF SawFull
  <2> QED BY <2>1, <2>2 DEF SawFull
<1>9. RefundedWasSettled'
  <2>1. CASE purchase' = purchase
    <3> SUFFICES ASSUME purchase = "REFUNDED"
                 PROVE  \E K \in FewerThanAdmins : Refunded(Settled \cup K)' >= Price
      BY <2>1, <1>2 DEF RefundedWasSettled
    <3>1. PICK K \in FewerThanAdmins : Refunded(Settled \cup K) >= Price
      BY DEF CapInv, RefundedWasSettled
    <3>2. /\ Refunded(Settled \cup K) <= Refunded(Settled \cup K)'
          /\ Refunded(Settled \cup K) \in Nat /\ Refunded(Settled \cup K)' \in Nat
      BY <1>6, <1>7
    <3>3. Refunded(Settled \cup K)' >= Price
      BY <3>1, <3>2, <1>1
    <3> QED BY <3>3
  <2>2. ASSUME NEW a \in Admins, admins[a].at \in Paying, admins[a].full,
               admins[a].refund \in Settled'
        PROVE  RefundedWasSettled'
    <3>1. PICK x \in Nat : x = admins[a].refund
      BY RowTypes
    <3>2. PICK K \in FewerThanAdmins : Refunded(Settled \cup K \cup {x}) >= Price
      BY <2>2, <3>1 DEF CapInv, SawFull
    <3>3. /\ Refunded(Settled \cup K \cup {x}) <= Refunded(Settled \cup K \cup {x})'
          /\ Refunded(Settled \cup K \cup {x}) \in Nat
          /\ Refunded(Settled \cup K \cup {x})' \in Nat
      BY <1>6
    <3>4. Refunded(Settled \cup K \cup {x})' >= Price
      BY <3>2, <3>3, <1>1
    <3>5. Settled' \cup K \cup {x} = Settled' \cup K
      BY <2>2, <3>1
    <3>6. Refunded(Settled \cup K)' >= Price
      BY <3>4, <3>5
    <3> QED BY <3>6, <1>2 DEF RefundedWasSettled
  <2> QED BY <2>1, <2>2
<1> QED BY <1>5, <1>8, <1>9 DEF CapInv

\* The refunds that requests work on are fewer than the requests when one of
\* them is not at work.
LEMMA CarriedAreFew ==
    ASSUME DisputesInv, NEW a \in Admins, admins[a].at \notin Paying
    PROVE  {r \in 1..Len(refunds) : Carried(r)} \in FewerThanAdmins
<1> DEFINE C == {b \in Admins : admins[b].at \in Paying}
           K == {r \in 1..Len(refunds) : Carried(r)}
           f == [b \in C |-> admins[b].refund]
<1>1. ASSUME NEW b \in C PROVE f[b] \in K
  <2>1. admins[b].refund \in 1..Len(refunds)
    BY AtWork DEF DisputesInv, EachWorks
  <2> QED BY <2>1 DEF Carried
<1>2. \A r \in K : \E b \in C : f[b] = r
  BY DEF Carried
<1>3. f \in Surjection(C, K)
  BY <1>1, <1>2 DEF Surjection
<1>4. C \in SUBSET (Admins \ {a})
  OBVIOUS
<1>5. IsFiniteSet(Admins \ {a}) /\ Cardinality(Admins \ {a}) = Cardinality(Admins) - 1
      /\ Cardinality(Admins) \in Nat
  BY CapCounts, FS_RemoveElement
<1>6. IsFiniteSet(C) /\ Cardinality(C) <= Cardinality(Admins) - 1 /\ Cardinality(C) \in Nat
  BY <1>4, <1>5, FS_Subset, FS_CardinalityType
<1>7. IsFiniteSet(K) /\ Cardinality(K) <= Cardinality(C)
  BY <1>3, <1>6, FS_Surjection
<1>8. Cardinality(K) \in Nat
  BY <1>7, FS_CardinalityType
<1> HIDE DEF C
<1>9. Cardinality(K) < Cardinality(Admins)
  <2> HIDE DEF K
  <2> QED BY <1>5, <1>6, <1>7, <1>8
<1> QED BY <1>9 DEF FewerThanAdmins

\* A request passes the cap: no exception is needed any more, and if it sees
\* the purchase used up, what it counted is settled or at work.
LEMMA OneIsCapped ==
    ASSUME DisputesInv, DisputesInv', CapInv, NEW a \in Admins, CheckRefund(a),
           ~Become(a, IdleAdmin)
    PROVE  CapInv'
<1>1. PICK w \in AdminRow : w = admins[a]
  BY RowTypes
<1>2. PICK full \in BOOLEAN :
        /\ full = (w.request.capped /\ RefundedSoFar + w.request.amount >= Price)
        /\ Become(a, [w EXCEPT !.at = "createRefund", !.full = full])
  BY <1>1 DEF CheckRefund
<1>3. /\ w.at = "checkRefund" /\ refunds' = refunds /\ purchase' = purchase
      /\ ~(w.request.capped /\ RefundedSoFar + w.request.amount > Price)
  BY <1>1 DEF CheckRefund, rows
<1> DEFINE v == [w EXCEPT !.at = "createRefund", !.full = full]
<1>4. v.at = "createRefund" /\ v.request = w.request /\ v.full = full
  BY DEF AdminRow
<1>5. admins'[a] = v /\ \A b \in Admins \ {a} : admins'[b] = admins[b]
  BY <1>2 DEF Become, DisputesInv
<1> HIDE DEF v
<1>6. NotFailedYet'
  BY <1>3, <1>4, <1>5 DEF CapInv, NotFailedYet, Paying
<1>7. \A S : Refunded(S)' = Refunded(S')
  BY <1>3 DEF Refunded
<1>8. /\ Standing' = Standing /\ FewerThanAdmins' = FewerThanAdmins
      /\ \A r : Carried(r)' = Carried(r)
  BY <1>1, <1>3, <1>4, <1>5 DEF Standing, FewerThanAdmins, Carried, Paying
<1>9. Settled' = Settled
  BY <1>8 DEF Settled
<1>10. /\ RefundedSoFar \in Nat /\ w.request.amount \in Nat /\ Price \in Nat
       /\ \A S : Refunded(S) \in Nat
       /\ Cardinality(Admins) \in Nat \ {0} /\ IsFiniteSet(Admins)
  BY <1>1, CapCounts DEF RefundedSoFar
<1>11. ASSUME NEW K \in SUBSET (1..Len(refunds))
       PROVE  /\ Refunded(Standing \ K)' = Refunded(Standing \ K)
              /\ Refunded(Settled \cup K)' = Refunded(Settled \cup K)
              /\ \A x : Refunded(Settled \cup K \cup {x})' = Refunded(Settled \cup K \cup {x})
  BY <1>3, <1>8, <1>9 DEF Refunded
<1>12. WithinCap'
  <2>1. CASE ~w.request.capped
    <3>1. Capped' = Capped /\ \A b \in Capped : admins'[b] = admins[b]
      BY <1>1, <1>3, <1>4, <1>5, <2>1 DEF Capped
    <3> QED BY <3>1, <1>3, <1>11 DEF CapInv, WithinCap
  <2>2. CASE w.request.capped
    <3>1. Refunded(Standing) + w.request.amount <= Price
      BY <2>2, <1>3, <1>10 DEF RefundedSoFar
    <3>2. a \in Capped' /\ Capped' \in SUBSET Admins
      BY <2>2, <1>4, <1>5 DEF Capped
    <3>3. Cardinality(Capped') <= Cardinality(Admins) /\ Cardinality(Capped') \in Nat
      BY <3>2, <1>10, FS_Subset, FS_CardinalityType
    <3>4. Cardinality({}) + Cardinality(Capped') <= Cardinality(Admins)
      BY <3>3, <1>10, FS_EmptySet
    <3>5. Standing \ {} = Standing /\ {} \in SUBSET (1..Len(refunds'))
      OBVIOUS
    <3>6. Refunded(Standing \ {})' + admins'[a].request.amount <= Price
      BY <3>1, <3>5, <1>4, <1>5, <1>11
    <3> QED BY <3>2, <3>4, <3>5, <3>6 DEF WithinCap
  <2> QED BY <2>1, <2>2
<1>13. ASSUME NEW b \in Admins PROVE SawFull(b)'
  <2>1. CASE b # a
    <3>1. admins'[b] = admins[b] /\ SawFull(b)
      BY <2>1, <1>5 DEF CapInv
    <3> QED BY <3>1, <1>8, <1>11 DEF SawFull, FewerThanAdmins
  <2>2. CASE b = a /\ full
    <3>1. PICK K \in FewerThanAdmins : K = {r \in 1..Len(refunds) : Carried(r)}
      BY <1>1, <1>3, CarriedAreFew DEF Paying
    <3>2. \A r \in 1..Len(refunds) : r \in Standing => r \in Settled \cup K
      BY <3>1 DEF Settled
    <3>3. Refunded(Standing) <= Refunded(Settled \cup K)
      BY <3>2, CapCounts, SumNoLess
    <3>4. Refunded(Standing) + w.request.amount >= Price
      BY <2>2, <1>2 DEF RefundedSoFar
    <3>5. Refunded(Settled \cup K) + w.request.amount >= Price
      BY <3>3, <3>4, <1>10
    <3>6. Refunded(Settled \cup K)' + admins'[a].request.amount >= Price
      <4>1. K \in SUBSET (1..Len(refunds))
        BY DEF FewerThanAdmins
      <4> QED BY <4>1, <3>5, <1>4, <1>5, <1>11
    <3>7. "createRefund" \notin Paying
      BY DEF Paying
    <3> QED BY <2>2, <3>6, <3>7, <1>4, <1>5, <1>8 DEF SawFull
  <2>3. CASE b = a /\ ~full
    BY <2>3, <1>4, <1>5 DEF SawFull
  <2> QED BY <2>1, <2>2, <2>3
<1>14. RefundedWasSettled'
  BY <1>3, <1>8, <1>11 DEF CapInv, RefundedWasSettled, FewerThanAdmins
<1> QED BY <1>6, <1>12, <1>13, <1>14 DEF CapInv

\* The refund is written: it takes the place of its request.
LEMMA OneIsInserted ==
    ASSUME DisputesInv, DisputesInv', CapInv, NEW a \in Admins, InsertRefund(a)
    PROVE  CapInv'
<1>1. PICK w \in AdminRow : w = admins[a] /\ Works(w)
  BY Worker
<1> DEFINE row == [kind |-> w.request.kind, amount |-> w.request.amount,
                   capped |-> w.request.capped, status |-> "PENDING"]
<1>2. PICK n \in Nat : n = Len(refunds)
  BY RowTypes
<1>3. w.at = "createRefund" /\ refunds' = Append(refunds, row) /\ purchase' = purchase
  BY <1>1 DEF InsertRefund
<1>4. PICK step \in {"payOut", "postRefund"} :
         Become(a, [w EXCEPT !.at = step, !.refund = n + 1])
  BY <1>1, <1>2 DEF InsertRefund
<1> DEFINE v == [w EXCEPT !.at = step, !.refund = n + 1]
<1>5. v.at = step /\ v.refund = n + 1 /\ v.full = w.full /\ step \in Paying
  BY DEF AdminRow, Paying
<1>6. admins'[a] = v /\ \A b \in Admins \ {a} : admins'[b] = admins[b]
  BY <1>4 DEF Become, DisputesInv
<1> HIDE DEF v
<1>7. row \in RefundRow /\ row.status = "PENDING" /\ row.amount = w.request.amount
      /\ row.capped = w.request.capped
  <2>1. w.request \in RefundRequests
    BY <1>1, <1>3 DEF Works
  <2>2. w.request.kind \in RefundKinds /\ w.request.amount \in Nat \ {0}
        /\ w.request.capped \in BOOLEAN
    BY <2>1, DisputesAssumption
  <2> QED BY <2>2 DEF RefundRow, RefundStatuses
<1> HIDE DEF row
<1>8. /\ refunds \in Seq(RefundRow) /\ Len(refunds') = n + 1
      /\ \A r \in 1..n : refunds'[r] = refunds[r]
      /\ refunds'[n + 1] = row
  <2>1. refunds \in Seq(RefundRow)
    BY CapCounts
  <2> QED BY <2>1, <1>2, <1>3, <1>7, AppendProperties, LenProperties
<1>9. PICK x \in Nat : x = w.request.amount
  BY <1>1, CapCounts
<1>10. ASSUME NEW b \in Admins, admins[b].at \in Paying
       PROVE  admins[b].refund \in 1..n
  BY <1>2, <1>10, AtWork DEF DisputesInv, EachWorks
<1>11. NotFailedYet'
  <2> SUFFICES ASSUME NEW b \in Admins, admins'[b].at \in Paying
               PROVE  refunds'[admins'[b].refund].status # "FAILED"
    BY DEF NotFailedYet
  <2>1. CASE b = a
    BY <2>1, <1>5, <1>6, <1>7, <1>8
  <2>2. CASE b # a
    <3>1. admins'[b] = admins[b] /\ admins[b].at \in Paying
      BY <2>2, <1>6
    <3> QED BY <3>1, <1>8, <1>10 DEF CapInv, NotFailedYet
  <2> QED BY <2>1, <2>2
<1>12. Standing' = Standing \cup {n + 1}
  BY <1>2, <1>7, <1>8 DEF Standing
<1>13. Settled' = Settled
  <2>1. Carried(n + 1)' /\ n + 1 \notin Standing
    BY <1>2, <1>5, <1>6 DEF Carried, Standing
  <2>2. ASSUME NEW r \in Standing PROVE Carried(r)' <=> Carried(r)
    <3>1. r # n + 1 /\ admins[a].at \notin Paying
      BY <2>1, <1>1, <1>3 DEF Paying
    <3> QED BY <3>1, <1>5, <1>6 DEF Carried
  <2> QED BY <2>1, <2>2, <1>12 DEF Settled
<1>14. ASSUME NEW S
       PROVE  /\ RefundedIn(refunds', S)
                    = Refunded(S) + IF n + 1 \in S /\ w.request.capped THEN x ELSE 0
              /\ Refunded(S) \in Nat
  BY <1>2, <1>3, <1>7, <1>8, <1>9, CapCounts, SumMore
<1>15. FewerThanAdmins \subseteq FewerThanAdmins'
  <2>1. 1..Len(refunds) \subseteq 1..Len(refunds')
    BY <1>2, <1>8
  <2> QED BY <2>1 DEF FewerThanAdmins
<1>16. Capped' = Capped \ {a} /\ (a \in Capped <=> w.request.capped)
       /\ \A b \in Capped' : admins'[b] = admins[b]
  BY <1>1, <1>3, <1>5, <1>6 DEF Capped, Paying
<1>17. /\ IsFiniteSet(Capped) /\ Cardinality(Capped) \in Nat /\ Cardinality(Admins) \in Nat
       /\ Price \in Nat /\ \A b \in Admins : admins[b].request.amount \in Nat
       /\ \A K \in SUBSET (1..n) : IsFiniteSet(K) /\ Cardinality(K) \in Nat
  BY <1>2, CapCounts
<1>18. WithinCap'
  <2>1. PICK K \in SUBSET (1..n) :
          \/ /\ Refunded(Standing \ K) <= Price
             /\ Cardinality(K) + Cardinality(Capped) < Cardinality(Admins)
          \/ /\ Cardinality(K) + Cardinality(Capped) <= Cardinality(Admins)
             /\ \E b \in Capped :
                   Refunded(Standing \ K) + admins[b].request.amount <= Price
    BY <1>2 DEF CapInv, WithinCap
  <2>2. PICK s \in Nat : s = Refunded(Standing \ K)
    BY <1>14
  <2>3. Cardinality(K) \in Nat /\ IsFiniteSet(K) /\ n + 1 \notin K
    BY <1>17
  <2> DEFINE L == K \cup {n + 1}
  <2>4. K \in SUBSET (1..Len(refunds')) /\ L \in SUBSET (1..Len(refunds'))
    BY <1>8
  <2>5. Cardinality(L) = Cardinality(K) + 1
    BY <2>3, FS_AddElement
  <2>6. Refunded(Standing \ K)' = s + IF w.request.capped THEN x ELSE 0
    <3>1. Refunded(Standing \ K)' = RefundedIn(refunds', Standing' \ K)
      BY DEF Refunded, RefundedIn
    <3>2. n + 1 \in Standing' \ K
      BY <2>3, <1>12
    <3>3. Refunded(Standing' \ K) = s
      <4>1. \A r \in 1..Len(refunds) : r \in Standing' \ K <=> r \in Standing \ K
        BY <1>2, <1>12
      <4>2. /\ Refunded(Standing' \ K) <= Refunded(Standing \ K)
            /\ Refunded(Standing \ K) <= Refunded(Standing' \ K)
            /\ Refunded(Standing' \ K) \in Nat
        BY <4>1, CapCounts, SumNoLess
      <4> QED BY <4>2, <2>2
    <3> QED BY <3>1, <3>2, <3>3, <1>14
  <2>7. Refunded(Standing \ L)' = s
    <3>1. Refunded(Standing \ L)' = RefundedIn(refunds', Standing' \ L)
      BY DEF Refunded, RefundedIn
    <3>2. Standing' \ L = Standing \ K /\ n + 1 \notin Standing \ K
      BY <1>2, <1>12 DEF Standing
    <3> QED BY <3>1, <3>2, <2>2, <1>14
  <2> HIDE DEF L
  <2>8. CASE ~w.request.capped
    <3>1. Capped' = Capped /\ Refunded(Standing \ K)' = s
      BY <2>6, <2>8, <1>16
    <3> QED BY <3>1, <2>1, <2>2, <2>4, <1>16 DEF WithinCap
  <2>9. CASE w.request.capped
    <3>1. /\ Cardinality(Capped') = Cardinality(Capped) - 1
          /\ Cardinality(Capped') \in Nat
      <4>1. IsFiniteSet(Capped') /\ Cardinality(Capped') = Cardinality(Capped) - 1
        BY <2>9, <1>16, <1>17, FS_RemoveElement
      <4> QED BY <4>1, FS_CardinalityType
    <3>2. CASE s <= Price /\ Cardinality(K) + Cardinality(Capped) < Cardinality(Admins)
      <4>1. Cardinality(L) + Cardinality(Capped') < Cardinality(Admins)
        BY <3>1, <3>2, <2>3, <2>5, <1>17
      <4> QED BY <4>1, <3>2, <2>4, <2>7 DEF WithinCap
    <3>3. ASSUME Cardinality(K) + Cardinality(Capped) <= Cardinality(Admins),
                 NEW b \in Capped, s + admins[b].request.amount <= Price
          PROVE  WithinCap'
      <4>1. CASE b = a
        <5>1. Refunded(Standing \ K)' <= Price
          BY <4>1, <3>3, <2>6, <2>9, <1>1, <1>9
        <5>2. Cardinality(K) + Cardinality(Capped') < Cardinality(Admins)
          BY <3>1, <3>3, <2>3, <1>17
        <5> QED BY <5>1, <5>2, <2>4 DEF WithinCap
      <4>2. CASE b # a
        <5>1. b \in Capped' /\ admins'[b] = admins[b]
          BY <4>2, <1>16
        <5>2. Cardinality(L) + Cardinality(Capped') <= Cardinality(Admins)
          BY <3>1, <3>3, <2>3, <2>5, <1>17
        <5>3. Refunded(Standing \ L)' + admins'[b].request.amount <= Price
          BY <5>1, <3>3, <2>7
        <5> QED BY <5>1, <5>2, <5>3, <2>4 DEF WithinCap
      <4> QED BY <4>1, <4>2
    <3> QED BY <3>2, <3>3, <2>1, <2>2
  <2> QED BY <2>8, <2>9
<1>19. ASSUME NEW K \in FewerThanAdmins, NEW X
       PROVE  /\ Refunded(Settled \cup K \cup X) <= Refunded(Settled \cup K \cup X)'
              /\ w.request.capped /\ n + 1 \in X
                   => Refunded(Settled \cup K \cup X)' = Refunded(Settled \cup K \cup X) + x
              /\ Refunded(Settled \cup K \cup X) \in Nat
              /\ Refunded(Settled \cup K \cup X)' \in Nat
  <2> DEFINE S == Settled \cup K \cup X
  <2>1. Refunded(S)' = RefundedIn(refunds', S)
    BY <1>13 DEF Refunded, RefundedIn
  <2>2. /\ Refunded(S) \in Nat
        /\ Refunded(S)' = Refunded(S) + IF n + 1 \in S /\ w.request.capped THEN x ELSE 0
    BY <2>1, <1>14
  <2> QED BY <2>2
<1>20. ASSUME NEW b \in Admins PROVE SawFull(b)'
  <2>1. CASE b # a
    <3>1. admins'[b] = admins[b] /\ SawFull(b)
      BY <2>1, <1>6 DEF CapInv
    <3>2. PICK y \in Nat : y = admins[b].request.amount
      BY <1>17
    <3>3. ASSUME admins[b].full, admins[b].at = "createRefund"
          PROVE  \E K \in FewerThanAdmins' : Refunded(Settled \cup K)' + y >= Price
      <4>1. PICK K \in FewerThanAdmins : Refunded(Settled \cup K) + y >= Price
        BY <3>1, <3>2, <3>3 DEF SawFull
      <4>2. /\ Refunded(Settled \cup K \cup {}) <= Refunded(Settled \cup K \cup {})'
            /\ Refunded(Settled \cup K \cup {}) \in Nat
            /\ Refunded(Settled \cup K \cup {})' \in Nat
        BY <1>19
      <4>3. Settled \cup K \cup {} = Settled \cup K /\ (Settled \cup K \cup {} = Settled \cup K)'
        OBVIOUS
      <4>4. Refunded(Settled \cup K)' + y >= Price
        BY <4>1, <4>2, <4>3, <1>17
      <4> QED BY <4>4, <1>15
    <3>4. ASSUME admins[b].full, admins[b].at \in Paying
          PROVE  \E K \in FewerThanAdmins' :
                    Refunded(Settled \cup K \cup {admins[b].refund})' >= Price
      <4>1. PICK z \in Nat : z = admins[b].refund /\ z = admins'[b].refund
        BY <3>1, RowTypes
      <4>2. PICK K \in FewerThanAdmins : Refunded(Settled \cup K \cup {z}) >= Price
        BY <3>1, <3>4, <4>1 DEF SawFull
      <4>3. /\ Refunded(Settled \cup K \cup {z}) <= Refunded(Settled \cup K \cup {z})'
            /\ Refunded(Settled \cup K \cup {z}) \in Nat
            /\ Refunded(Settled \cup K \cup {z})' \in Nat
        BY <1>19
      <4>4. Refunded(Settled \cup K \cup {z})' >= Price
        BY <4>2, <4>3, <1>17
      <4> QED BY <4>1, <4>4, <1>15
    <3> QED BY <3>1, <3>2, <3>3, <3>4 DEF SawFull
  <2>2. CASE b = a /\ w.full
    <3>1. PICK K \in FewerThanAdmins : Refunded(Settled \cup K) + x >= Price
      BY <2>2, <1>1, <1>3, <1>9 DEF CapInv, SawFull
    <3>2. w.request.capped
      BY <2>2, <1>1, <1>3 DEF Works
    <3>3. /\ Refunded(Settled \cup K \cup {n + 1})' = Refunded(Settled \cup K \cup {n + 1}) + x
          /\ Refunded(Settled \cup K \cup {n + 1}) \in Nat
      BY <3>2, <1>19
    <3>4. Refunded(Settled \cup K) <= Refunded(Settled \cup K \cup {n + 1})
          /\ Refunded(Settled \cup K) \in Nat
      BY CapCounts, SumNoLess
    <3>5. Refunded(Settled \cup K \cup {n + 1})' >= Price
      BY <3>1, <3>3, <3>4, <1>17
    <3>6. step # "createRefund"
      OBVIOUS
    <3> QED BY <2>2, <3>5, <3>6, <1>5, <1>6, <1>15 DEF SawFull
  <2>3. CASE b = a /\ ~w.full
    BY <2>3, <1>5, <1>6 DEF SawFull
  <2> QED BY <2>1, <2>2, <2>3
<1>21. RefundedWasSettled'
  <2> SUFFICES ASSUME purchase = "REFUNDED"
               PROVE  \E K \in FewerThanAdmins' : Refunded(Settled \cup K)' >= Price
    BY <1>3 DEF RefundedWasSettled
  <2>1. PICK K \in FewerThanAdmins : Refunded(Settled \cup K) >= Price
    BY DEF CapInv, RefundedWasSettled
  <2>2. /\ Refunded(Settled \cup K \cup {}) <= Refunded(Settled \cup K \cup {})'
        /\ Refunded(Settled \cup K \cup {}) \in Nat
        /\ Refunded(Settled \cup K \cup {})' \in Nat
    BY <1>19
  <2>3. Settled \cup K \cup {} = Settled \cup K /\ (Settled \cup K \cup {} = Settled \cup K)'
    OBVIOUS
  <2>4. Refunded(Settled \cup K)' >= Price
    BY <2>1, <2>2, <2>3, <1>17
  <2> QED BY <2>4, <1>15
<1> QED BY <1>11, <1>18, <1>20, <1>21 DEF CapInv

\* A step in which nobody begins to work on a refund that was there, and no
\* settled refund fails, leaves the settled refunds settled.
LEMMA SettledStay ==
    ASSUME DisputesInv, Len(refunds') = Len(refunds),
           \A r \in Settled : refunds'[r].status # "FAILED",
           \A a \in Admins : admins'[a].at \in Paying
              => admins[a].at \in Paying /\ admins'[a].refund = admins[a].refund
    PROVE  Settled \subseteq Settled'
<1> SUFFICES ASSUME NEW r \in Settled PROVE r \in Settled'
  OBVIOUS
<1>1. r \in Standing'
  BY DEF Settled, Standing
<1>2. ~Carried(r)'
  BY DEF Settled, Carried
<1> QED BY <1>1, <1>2 DEF Settled

\* A new status on the refund that the request worked on.
LEMMA StatusCap ==
    ASSUME DisputesInv, DisputesInv', CapInv, NEW a \in Admins,
           NEW w \in AdminRow, w = admins[a], w.at \in Paying,
           NEW status \in RefundStatuses, purchase' = purchase,
           refunds' = [refunds EXCEPT ![w.refund].status = status],
           \A b \in Admins \ {a} : admins'[b] = admins[b],
           admins'[a].at # "createRefund",
           admins'[a].at \in Paying => /\ status = "COMPLETED" /\ admins'[a].refund = w.refund
                                       /\ admins'[a].full = w.full
    PROVE  CapInv'
<1>1. /\ w.refund \in 1..Len(refunds) /\ w.refund # 0 /\ refunds \in Seq(RefundRow)
  BY AtWork DEF DisputesInv, EachWorks
<1>2. /\ Len(refunds') = Len(refunds)
      /\ \A r \in 1..Len(refunds) :
            /\ refunds'[r].capped = refunds[r].capped /\ refunds'[r].amount = refunds[r].amount
            /\ r # w.refund => refunds'[r] = refunds[r]
      /\ refunds'[w.refund].status = status
  BY <1>1, StatusWritten
<1>3. refunds[w.refund].status # "FAILED"
  BY DEF CapInv, NotFailedYet
<1>4. Standing' \subseteq Standing
  BY <1>2, <1>3 DEF Standing
<1>5. Settled \subseteq Settled'
  <2>1. Carried(w.refund)
    BY DEF Carried
  <2>2. \A r \in Settled : refunds'[r].status # "FAILED"
    BY <2>1, <1>2 DEF Settled, Standing
  <2> QED BY <2>2, <1>2, SettledStay
<1>6. NotFailedYet'
  <2> SUFFICES ASSUME NEW b \in Admins, admins'[b].at \in Paying
               PROVE  refunds'[admins'[b].refund].status # "FAILED"
    BY DEF NotFailedYet
  <2>1. CASE b = a
    BY <2>1, <1>2
  <2>2. CASE b # a
    <3>1. admins'[b] = admins[b] /\ admins[b].at \in Paying
      BY <2>2
    <3>2. admins[b].refund \in 1..Len(refunds) /\ admins[b].refund # 0
      <4>1. Works(admins[b]) /\ admins[b].refund \in Nat /\ Len(refunds) \in Nat
        BY RowTypes DEF DisputesInv, EachWorks
      <4> QED BY <3>1, <4>1 DEF Works
    <3>3. admins[b].refund # w.refund
      BY <2>2, <3>2 DEF DisputesInv, EachHasItsRefund
    <3> QED BY <3>1, <3>2, <3>3, <1>2 DEF CapInv, NotFailedYet
  <2> QED BY <2>1, <2>2
<1>7. /\ \A b \in Admins : admins'[b].at = "createRefund" => admins'[b] = admins[b]
      /\ \A b \in Admins : admins'[b].at \in Paying
            => /\ admins[b].at \in Paying
               /\ admins'[b].refund = admins[b].refund /\ admins'[b].full = admins[b].full
  OBVIOUS
<1> QED BY <1>2, <1>4, <1>5, <1>6, <1>7, CapKept

\* Every step keeps what is known of the cap.
LEMMA CapStepInv ==
    ASSUME DisputesInv, DisputesInv', CapInv, [DisputesNext]_vars
    PROVE  CapInv'
<1>1. admins \in [Admins -> AdminRow] /\ admins' \in [Admins -> AdminRow]
  BY DEF DisputesInv
<1>2. ASSUME NEW a \in Admins, NEW w, Become(a, w), refunds' = refunds, w.at # "createRefund",
             w.at \in Paying => /\ admins[a].at \in Paying
                                /\ w.refund = admins[a].refund /\ w.full = admins[a].full,
             \/ purchase' = purchase
             \/ admins[a].at \in Paying /\ admins[a].full /\ admins[a].refund \in Settled'
      PROVE  CapInv'
  <2>1. admins'[a] = w /\ \A b \in Admins \ {a} : admins'[b] = admins[b]
    BY <1>1, <1>2 DEF Become
  <2>2. NotFailedYet'
    BY <1>2, <2>1 DEF CapInv, NotFailedYet
  <2>3. /\ Len(refunds') = Len(refunds) /\ Standing' = Standing
        /\ \A r \in 1..Len(refunds) : /\ refunds'[r].capped = refunds[r].capped
                                       /\ refunds'[r].amount = refunds[r].amount
    BY <1>2 DEF Standing
  <2>4. \A b \in Admins : admins'[b].at = "createRefund" => admins'[b] = admins[b]
    BY <1>2, <2>1
  <2>5. \A b \in Admins : admins'[b].at \in Paying
           => /\ admins[b].at \in Paying
              /\ admins'[b].refund = admins[b].refund /\ admins'[b].full = admins[b].full
    BY <1>2, <2>1
  <2>6. Settled \subseteq Settled'
    <3>1. \A r \in Settled : refunds'[r].status # "FAILED"
      BY <1>2 DEF Settled, Standing
    <3> QED BY <3>1, <2>3, <2>5, SettledStay
  <2> QED BY <1>2, <2>2, <2>3, <2>4, <2>5, <2>6, CapKept
<1>3. IdleAdmin.at = "idle" /\ IdleAdmin.at \notin Paying
  BY DEF IdleAdmin, Paying
<1>4. ASSUME NEW a \in Admins, Become(a, IdleAdmin), UNCHANGED <<refunds, purchase>>
      PROVE  CapInv'
  <2> HIDE DEF IdleAdmin
  <2> QED BY <1>2, <1>3, <1>4
<1>5. ASSUME NEW a \in Admins, NEW step \in Steps \ {"createRefund"}, Goto(a, step),
             UNCHANGED <<refunds, purchase>>, step \in Paying => admins[a].at \in Paying
      PROVE  CapInv'
  <2>1. PICK w \in AdminRow : w = admins[a]
    BY <1>1
  <2> DEFINE v == [w EXCEPT !.at = step]
  <2>2. Become(a, v)
    BY <2>1, <1>1, <1>5 DEF Goto, Become
  <2>3. v.at = step /\ v.refund = w.refund /\ v.full = w.full
    BY DEF AdminRow
  <2> HIDE DEF v
  <2> QED BY <1>2, <1>5, <2>1, <2>2, <2>3
<1>6. CASE UNCHANGED <<admins, refunds, purchase>>
  <2>1. /\ NotFailedYet' /\ Standing' = Standing
        /\ \A r \in Settled : refunds'[r].status # "FAILED"
    BY <1>6 DEF CapInv, NotFailedYet, Standing, Settled
  <2>2. Settled \subseteq Settled'
    BY <2>1, <1>6, SettledStay
  <2> QED BY <2>1, <2>2, <1>6, CapKept
<1>7. ASSUME NEW d \in DisputeIds, NEW status \in DisputeStatuses,
             OpenDispute(d) \/ UpdateStatus(d, status)
      PROVE  CapInv'
  BY <1>6, <1>7 DEF OpenDispute, UpdateStatus
<1>8. CASE WalletSettings \/ UNCHANGED vars
  BY <1>6, <1>8 DEF WalletSettings, vars, rows
<1>9. ASSUME NEW d \in DisputeIds, NEW a \in Admins,
             \/ AdminAction(a, d, Reject)
             \/ AdminAction(a, d, Escalate)
             \/ \E row \in 1..Len(ledger) : AdminAction(a, d, ReverseCharge(row))
             \/ \E adjustment \in Adjustments : AdminAction(a, d, Adjust(adjustment))
             \/ \E request \in RefundRequests : AdminAction(a, d, Refund(request))
      PROVE  CapInv'
  <2> PICK w \in AdminRow :
         /\ AdminAction(a, d, w)
         /\ w.at \in {"setStatus", "checkReversal", "post", "checkRefund"}
    <3>1. IdleAdmin \in AdminRow
      BY IdleWorks
    <3> HIDE DEF IdleAdmin
    <3>2. /\ Reject.at = "setStatus" /\ Escalate.at = "setStatus"
          /\ \A row : ReverseCharge(row).at = "checkReversal"
          /\ \A adjustment : Adjust(adjustment).at = "post"
          /\ \A request : Refund(request).at = "checkRefund"
      BY <3>1 DEF Reject, Escalate, ReverseCharge, Adjust, Refund, AdminRow
    <3> HIDE DEF Reject, Escalate, ReverseCharge, Adjust, Refund
    <3> QED BY <1>9, <3>2, FirstStatements
  <2> DEFINE v == [w EXCEPT !.dispute = d]
  <2>1. v.at # "createRefund" /\ v.at \notin Paying
    BY DEF AdminRow, Paying
  <2>2. Become(a, v) /\ UNCHANGED <<refunds, purchase>>
    BY DEF AdminAction, rows
  <2> HIDE DEF v
  <2> QED BY <1>2, <2>1, <2>2
<1>10. ASSUME NEW d \in DisputeIds, NEW a \in Admins, AddMessage(a, d) PROVE CapInv'
  <2> DEFINE v == [IdleAdmin EXCEPT !.at = "setStatus", !.dispute = d,
                                    !.outcome = "UNDER_INVESTIGATION"]
  <2>1. Become(a, v) /\ UNCHANGED <<refunds, purchase>>
    BY <1>10 DEF AddMessage, rows
  <2>2. v.at = "setStatus" /\ v.at \notin Paying
    BY DEF IdleAdmin, Paying
  <2> HIDE DEF v
  <2> QED BY <1>2, <2>1, <2>2
<1>11. ASSUME NEW a \in Admins, NEW request \in RefundRequests, CreateRefund(a, request)
       PROVE  CapInv'
  <2>1. Become(a, Refund(request)) /\ UNCHANGED <<refunds, purchase>>
    BY <1>11 DEF CreateRefund, rows
  <2>2. Refund(request).at = "checkRefund" /\ Refund(request).at \notin Paying
    BY DEF Refund, IdleAdmin, Paying
  <2> HIDE DEF Refund
  <2> QED BY <1>2, <2>1, <2>2
<1>12. ASSUME NEW a \in Admins, CheckReversal(a) \/ Post(a) PROVE CapInv'
  <2>1. /\ UNCHANGED <<refunds, purchase>>
        /\ Goto(a, "post") \/ Goto(a, "setStatus") \/ Become(a, IdleAdmin)
    BY <1>12 DEF CheckReversal, Post, rows
  <2>2. {"post", "setStatus"} \subseteq Steps \ {"createRefund"}
        /\ "post" \notin Paying /\ "setStatus" \notin Paying
    BY DEF Steps, Paying
  <2> HIDE DEF IdleAdmin
  <2> QED BY <2>1, <2>2, <1>4, <1>5
<1>13. ASSUME NEW a \in Admins, CheckRefund(a) PROVE CapInv'
  <2>1. UNCHANGED <<refunds, purchase>>
    BY <1>13 DEF CheckRefund, rows
  <2> QED BY <2>1, <1>4, <1>13, OneIsCapped
<1>14. ASSUME NEW a \in Admins, InsertRefund(a) PROVE CapInv'
  BY <1>14, OneIsInserted
<1>15. ASSUME NEW a \in Admins, PayOut(a) \/ PostRefund(a) \/ StatementFails(a)
       PROVE  CapInv'
  <2>1. PICK step \in {"postRefund", "completeRefund", "failRefund"} : Goto(a, step)
    BY <1>15 DEF PayOut, PostRefund, StatementFails
  <2>2. UNCHANGED <<refunds, purchase>> /\ admins[a].at \in Paying
    BY <1>15 DEF PayOut, PostRefund, StatementFails, rows, Paying
  <2>3. step \in Steps \ {"createRefund"}
    BY DEF Steps
  <2> QED BY <2>1, <2>2, <2>3, <1>5
<1>16. ASSUME NEW a \in Admins, MarkRefunded(a) PROVE CapInv'
  <2>1. PICK w \in AdminRow : w = admins[a] /\ Works(w)
    BY Worker
  <2>2. /\ w.at = "markRefunded" /\ w.at \in Paying /\ refunds' = refunds
        /\ Become(a, IdleAdmin) \/ Goto(a, "setStatus")
    BY <1>16, <2>1 DEF MarkRefunded, Finish, Paying
  <2>3. PICK v : Become(a, v) /\ v.at \in {"idle", "setStatus"}
    <3>1. CASE Become(a, IdleAdmin)
      <4> HIDE DEF IdleAdmin
      <4> QED BY <3>1, <1>3
    <3>2. CASE Goto(a, "setStatus")
      <4>1. [w EXCEPT !.at = "setStatus"].at = "setStatus"
        BY DEF AdminRow
      <4> QED BY <3>2, <4>1, <2>1 DEF Goto, Become
    <3> QED BY <2>2, <3>1, <3>2
  <2>4. v.at # "createRefund" /\ v.at \notin Paying
    BY <2>3 DEF Paying
  <2>5. /\ w.refund \in 1..Len(refunds) /\ w.refund # 0 /\ MadeRefund(w)
        /\ \A b \in Admins \ {a} : admins[b].refund # 0 => admins[b].refund # w.refund
    BY <2>1, <2>2, AtWork
  <2>6. admins'[a].at \notin Paying /\ \A b \in Admins \ {a} : admins'[b] = admins[b]
    BY <2>3, <2>4, <1>1 DEF Become
  <2>7. ~Carried(w.refund)'
    BY <2>5, <2>6 DEF Carried
  <2>8. refunds'[w.refund].status = "COMPLETED"
    BY <2>2, <2>5 DEF MadeRefund
  <2>9. w.refund \in Settled'
    BY <2>2, <2>5, <2>7, <2>8 DEF Settled, Standing
  <2>10. w.full
    BY <2>2, <2>5 DEF MadeRefund
  <2> QED BY <2>1, <2>2, <2>3, <2>4, <2>9, <2>10, <1>2
<1>17. ASSUME NEW a \in Admins, WriteStatus(a) \/ GiveUp(a) PROVE CapInv'
  <2>1. Become(a, IdleAdmin) /\ UNCHANGED <<refunds, purchase>>
    BY <1>17 DEF WriteStatus, GiveUp, rows
  <2> QED BY <2>1, <1>4
<1>18. ASSUME NEW a \in Admins, FailRefund(a) PROVE CapInv'
  <2>1. PICK w \in AdminRow : w = admins[a]
    BY <1>1
  <2>2. /\ w.at \in Paying /\ Become(a, IdleAdmin) /\ purchase' = purchase
        /\ refunds' = [refunds EXCEPT ![w.refund].status = "FAILED"]
    BY <1>18, <2>1 DEF FailRefund, Paying
  <2> HIDE DEF IdleAdmin
  <2>3. admins'[a] = IdleAdmin /\ \A b \in Admins \ {a} : admins'[b] = admins[b]
    BY <2>2, <1>1 DEF Become
  <2>4. "FAILED" \in RefundStatuses
    BY DEF RefundStatuses
  <2> QED BY <2>1, <2>2, <2>3, <2>4, <1>3, StatusCap
<1>19. ASSUME NEW a \in Admins, CompleteRefund(a) PROVE CapInv'
  <2>1. PICK w \in AdminRow : w = admins[a]
    BY <1>1
  <2>2. /\ w.at \in Paying /\ purchase' = purchase
        /\ refunds' = [refunds EXCEPT ![w.refund].status = "COMPLETED"]
        /\ Goto(a, "markRefunded") \/ Goto(a, "setStatus") \/ Become(a, IdleAdmin)
    BY <1>19, <2>1 DEF CompleteRefund, Finish, Paying
  <2>3. \A b \in Admins \ {a} : admins'[b] = admins[b]
    BY <2>2, <1>1 DEF Become, Goto
  <2>4. admins'[a].at # "createRefund"
        /\ (admins'[a].at \in Paying
               => admins'[a].refund = w.refund /\ admins'[a].full = w.full)
    <3>1. CASE Become(a, IdleAdmin)
      <4> HIDE DEF IdleAdmin
      <4> QED BY <3>1, <1>1, <1>3 DEF Become
    <3>2. CASE Goto(a, "markRefunded") \/ Goto(a, "setStatus")
      BY <3>2, <2>1, <1>1 DEF Goto, AdminRow
    <3> QED BY <2>2, <3>1, <3>2
  <2>5. "COMPLETED" \in RefundStatuses
    BY DEF RefundStatuses
  <2> QED BY <2>1, <2>2, <2>3, <2>4, <2>5, StatusCap
<1>20. CASE DisputesNext
  BY <1>7, <1>8, <1>9, <1>10, <1>11, <1>12, <1>13, <1>14, <1>15, <1>16, <1>17, <1>18, <1>19,
     <1>20 DEF DisputesNext, DisputeStatuses
<1> QED BY <1>8, <1>20

\* At first nothing is refunded.
LEMMA CapInitInv == DisputesInit => CapInv
<1> SUFFICES ASSUME DisputesInit PROVE CapInv
  OBVIOUS
<1>1. \A a \in Admins : admins[a].at = "idle"
  BY DEF DisputesInit, IdleAdmin
<1>2. Capped = {} /\ NotFailedYet /\ (\A a \in Admins : SawFull(a))
  BY <1>1 DEF Capped, NotFailedYet, Paying, SawFull
<1>3. purchase # "REFUNDED" /\ refunds = <<>> /\ Len(refunds) = 0
  BY DEF DisputesInit
<1>4. DisputesInv
  BY DisputesInitInv
<1>5. Cardinality(Admins) \in Nat \ {0} /\ Price \in Nat
  BY <1>4, CapCounts
<1>6. Refunded(Standing \ {}) = 0
  <2> DEFINE f == [r \in 1..Len(refunds) |->
                     IF r \in Standing \ {} /\ refunds[r].capped THEN refunds[r].amount ELSE 0]
  <2>1. Refunded(Standing \ {}) = Total(f, 0)
    BY <1>3 DEF Refunded
  <2> HIDE DEF f
  <2> QED BY <2>1, TotalZero
<1>7. Cardinality({}) + Cardinality(Capped) < Cardinality(Admins)
  BY <1>2, <1>5, FS_EmptySet
<1>8. WithinCap
  <2>1. {} \in SUBSET (1..Len(refunds)) /\ Refunded(Standing \ {}) <= Price
    BY <1>5, <1>6
  <2> QED BY <2>1, <1>7 DEF WithinCap
<1> QED BY <1>2, <1>3, <1>8 DEF CapInv, RefundedWasSettled

-----------------------------------------------------------------------------
(* The theorems.                                                           *)

\* Every execution of refunds and disputes keeps the invariant, with failures
\* and deaths at any statement of refund.service.ts and dispute.service.ts.
THEOREM DisputesInvariant == DisputesSpec => []DisputesInv
  BY DisputesInitInv, DisputesStepInv, PTL DEF DisputesSpec

\* Refund and dispute rows and requests in flight keep their types, and a
\* request works on a refund that exists.
THEOREM DisputesTypes == DisputesSpec => []DisputesTypeOK
<1>1. DisputesInv => DisputesTypeOK
  <2> SUFFICES ASSUME DisputesInv PROVE DisputesTypeOK
    OBVIOUS
  <2>1. /\ TypeOK /\ Len(refunds) \in Nat /\ RowTypesOK /\ admins \in [Admins -> AdminRow]
        /\ EachWorks
    BY RowTypes DEF DisputesInv
  <2> DEFINE Row == [at : Steps, dispute : DisputeIds \cup {0},
                     entry : [type : LedgerTypes, amount : Int, ref : Nat],
                     request : Request, refund : 0..Len(refunds), full : BOOLEAN,
                     outcome : DisputeStatuses]
  <2>2. ASSUME NEW a \in Admins PROVE admins[a] \in Row
    <3>1. admins[a] \in AdminRow /\ admins[a].refund <= Len(refunds)
      BY <2>1 DEF EachWorks, Works
    <3> QED BY <3>1, <2>1 DEF AdminRow
  <2>3. admins \in [Admins -> Row]
    BY <2>1, <2>2
  <2> QED BY <2>1, <2>3 DEF DisputesTypeOK, RowTypesOK, RefundRow
<1> QED BY <1>1, DisputesInvariant, PTL

\* RefundService.create never ledgers a refund twice, and a COMPLETED refund is
\* in the ledger with its own amount and sign.
THEOREM RefundsAreLedgered == DisputesSpec => []CompletedRefundIsLedgered
<1>1. DisputesInv => CompletedRefundIsLedgered
  BY DEF DisputesInv, CompletedRefundIsLedgered, RefundIsRight
<1> QED BY <1>1, DisputesInvariant, PTL

\* Credits are only taken for a cash refund once Stripe paid the card.
THEOREM DebitsFollowPayouts == DisputesSpec => []DebitFollowsPayout
<1>1. DisputesInv => DebitFollowsPayout
  BY DEF DisputesInv, DebitFollowsPayout, RefundIsRight
<1> QED BY <1>1, DisputesInvariant, PTL

\* What is known of the cap of RefundService.create holds at every step,
\* however the requests overlap, fail and die.
THEOREM CapInvariant == DisputesSpec => []CapInv
<1>1. DisputesInit => CapInv
  BY CapInitInv
<1>2. DisputesInv /\ DisputesInv' /\ CapInv /\ [DisputesNext]_vars => CapInv'
  BY CapStepInv
<1> QED BY <1>1, <1>2, DisputesInvariant, PTL DEF DisputesSpec

\* RefundService.create marks a purchase REFUNDED only when the refunds that stand
\* add up to its price, but for those that failed after they were counted, one of
\* each other request at most, and the card was paid.
THEOREM RefundedIsCovered == DisputesSpec => []RefundedWasCovered
<1>1. DisputesInv /\ CapInv => RefundedWasCovered
  <2> SUFFICES ASSUME DisputesInv, CapInv, purchase = "REFUNDED"
               PROVE  /\ \E K \in FewerThanAdmins : Refunded(Standing \cup K) >= Price
                      /\ \E r \in 1..Len(refunds) : refunds[r].kind = "CASH" /\ payouts[r] > 0
    BY DEF RefundedWasCovered
  <2>1. PICK K \in FewerThanAdmins : Refunded(Settled \cup K) >= Price
    BY DEF CapInv, RefundedWasSettled
  <2>2. Refunded(Settled \cup K) <= Refunded(Standing \cup K)
    <3>1. \A r \in 1..Len(refunds) : r \in Settled \cup K => r \in Standing \cup K
      BY DEF Settled
    <3> QED BY <3>1, CapCounts, SumNoLess
  <2>3. /\ Refunded(Settled \cup K) \in Nat /\ Refunded(Standing \cup K) \in Nat
        /\ Price \in Nat
    BY CapCounts
  <2>4. Refunded(Standing \cup K) >= Price
    BY <2>1, <2>2, <2>3
  <2> QED BY <2>4 DEF DisputesInv, RefundedWasPaid
<1> QED BY <1>1, DisputesInvariant, CapInvariant, PTL

\* adminAction settles a dispute by a refund only when the refund is COMPLETED
\* and in the ledger.
THEOREM DisputesAreResolvedByMoney == DisputesSpec => []ResolvedByMoney
<1>1. DisputesInv => ResolvedByMoney
  <2> SUFFICES ASSUME DisputesInv, NEW a \in Admins, admins[a].at = "setStatus",
                      admins[a].request # NoRequest
               PROVE  /\ refunds[admins[a].refund].status = "COMPLETED"
                      /\ RefundRows(admins[a].refund) # {}
    BY DEF ResolvedByMoney
  <2>1. Works(admins[a])
    BY DEF DisputesInv, EachWorks
  <2> QED BY <2>1 DEF Works, MadeRefund
<1> QED BY <1>1, DisputesInvariant, PTL

\* The duplicate-reversal guard of adminAction lets a charge be reversed at
\* most once for each request, however the requests overlap.
THEOREM ReversalsAreBounded == DisputesSpec => []ReversalsBounded
<1>1. DisputesInit => ReversalsInv
  BY ReversalsInitInv
<1>2. DisputesInv /\ DisputesInv' /\ ReversalsInv /\ [DisputesNext]_vars => ReversalsInv'
  BY ReversalsStepInv
<1>3. DisputesInv /\ ReversalsInv => ReversalsBounded
  <2> SUFFICES ASSUME DisputesInv, ReversalsInv, NEW row \in 1..Len(ledger)
               PROVE  Cardinality(Reversals(row)) <= Cardinality(Admins)
    BY DEF ReversalsBounded
  <2>1. row \in Nat
    OBVIOUS
  <2>2. Cardinality(Reversals(row)) + Cardinality(Reversing(row)) <= Cardinality(Admins)
    BY <2>1 DEF ReversalsInv
  <2> QED BY <2>1, <2>2, ReversalCounts
<1> QED BY <1>1, <1>2, <1>3, DisputesInvariant, PTL DEF DisputesSpec

\* The cap of RefundService.create keeps the refunds that stand within the price,
\* but for one of each other request at most; exactly, when there is one request.
THEOREM RefundsAreBounded == DisputesSpec => []RefundsBounded
<1>1. DisputesInv /\ CapInv => RefundsBounded
  <2> SUFFICES ASSUME DisputesInv, CapInv
               PROVE  \E K \in FewerThanAdmins : Refunded(Standing \ K) <= Price
    BY DEF RefundsBounded
  <2>1. PICK K \in SUBSET (1..Len(refunds)) :
          \/ /\ Refunded(Standing \ K) <= Price
             /\ Cardinality(K) + Cardinality(Capped) < Cardinality(Admins)
          \/ /\ Cardinality(K) + Cardinality(Capped) <= Cardinality(Admins)
             /\ \E a \in Capped :
                   Refunded(Standing \ K) + admins[a].request.amount <= Price
    BY DEF CapInv, WithinCap
  <2>2. /\ Cardinality(K) \in Nat /\ Cardinality(Capped) \in Nat
        /\ Cardinality(Admins) \in Nat /\ IsFiniteSet(Capped)
        /\ Refunded(Standing \ K) \in Nat /\ Price \in Nat
        /\ \A a \in Admins : admins[a].request.amount \in Nat
    BY CapCounts
  <2>3. CASE /\ Refunded(Standing \ K) <= Price
             /\ Cardinality(K) + Cardinality(Capped) < Cardinality(Admins)
    <3>1. Cardinality(K) < Cardinality(Admins)
      BY <2>2, <2>3
    <3> QED BY <3>1, <2>3 DEF FewerThanAdmins
  <2>4. ASSUME Cardinality(K) + Cardinality(Capped) <= Cardinality(Admins),
               NEW a \in Capped, Refunded(Standing \ K) + admins[a].request.amount <= Price
        PROVE  K \in FewerThanAdmins /\ Refunded(Standing \ K) <= Price
    <3>1. Cardinality(Capped) # 0
      BY <2>2, FS_EmptySet
    <3>2. Cardinality(K) < Cardinality(Admins)
      BY <3>1, <2>2, <2>4
    <3>3. PICK x \in Nat : x = admins[a].request.amount
      BY <2>2 DEF Capped
    <3>4. Refunded(Standing \ K) <= Price
      BY <3>3, <2>2, <2>4
    <3> QED BY <3>2, <3>4 DEF FewerThanAdmins
  <2> QED BY <2>1, <2>3, <2>4
<1> QED BY <1>1, DisputesInvariant, CapInvariant, PTL

\* The wallet under refunds and disputes keeps its own invariant.
THEOREM WalletUnderDisputes == DisputesSpec => []WalletInv
<1>1. DisputesInv => WalletInv
  BY DEF DisputesInv
<1> QED BY <1>1, DisputesInvariant, PTL
=============================================================================
