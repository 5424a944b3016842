-------------------------- MODULE PurchasesProofs ---------------------------
(***************************************************************************)
(* Proofs about Purchases: for any purchases, prices, workers and amounts, *)
(* and any order, repetition and loss of Stripe's events.                  *)
(***************************************************************************)
EXTENDS Purchases, WalletProofs

\* What a purchase that was credited may say: it left PENDING for COMPLETED,
\* and only a request that had read it before overwrites that.
CreditedSaysSo ==
    \A p \in PurchaseIds :
        Credited(p) => purchases[p].status \in {"COMPLETED", "REJECTED", "CANCELLED"}

\* Stripe's word: an event that says paid was sent by a session that is paid,
\* and money that arrives late is announced as paid.
EventsAreTrue ==
    \A e \in events :
        /\ e.paid => stripe[e.purchase] = "paid"
        /\ e.type = "async_payment_succeeded" => e.paid

\* A request that is about to write has read a purchase that exists, and only
\* bank transfers are approved by hand.
WorkersAreBusy ==
    \A w \in Workers :
        /\ workers[w].task # "idle" => workers[w].purchase \in PurchaseIds
        /\ workers[w].task = "approve" => workers[w].purchase \in BankPurchases

PurchasesInv ==
    /\ WalletInv
    /\ PurchasesTypeOK
    /\ CreditedSaysSo
    /\ CreditedOnce
    /\ CreditNeedsMoney
    /\ ExpiredIsUncredited
    /\ EventsAreTrue
    /\ WorkersAreBusy

PurchaseRow == [status : PurchaseStatuses, session : BOOLEAN, old : BOOLEAN]
-----------------------------------------------------------------------------
(* Ledger rows and rows of one purchase.                                   *)

\* The credits of a purchase after one more ledger row.
LEMMA CreditsAfter ==
    ASSUME TypeOK, NEW row \in LedgerEntry, ledger' = Append(ledger, row),
           NEW p \in PurchaseIds
    PROVE  /\ row.type = "PURCHASE" /\ row.ref = p
                 => CreditRows(p)' = CreditRows(p) \cup {Len(ledger) + 1}
           /\ row.type # "PURCHASE" \/ row.ref # p => CreditRows(p)' = CreditRows(p)
           /\ \A i \in CreditRows(p) : ledger'[i] = ledger[i]
           /\ ledger'[Len(ledger) + 1] = row
<1>1. /\ Len(ledger) \in Nat
      /\ Len(ledger') = Len(ledger) + 1
      /\ \A i \in 1..Len(ledger) : ledger'[i] = ledger[i]
      /\ ledger'[Len(ledger) + 1] = row
  BY OneMoreRow DEF TypeOK
<1>2. \A i : i \in 1..(Len(ledger) + 1) <=> i \in 1..Len(ledger) \/ i = Len(ledger) + 1
  BY <1>1
<1> QED BY <1>1, <1>2 DEF CreditRows

\* The other ledger rows leave the credits of every purchase alone.
LEMMA CreditsStay ==
    ASSUME TypeOK, NEW row \in LedgerEntry, ledger' = Append(ledger, row),
           row.type # "PURCHASE" \/ row.ref = 0, NEW p \in PurchaseIds
    PROVE  /\ CreditRows(p)' = CreditRows(p)
           /\ \A i \in CreditRows(p) : ledger'[i] = ledger[i]
<1>1. p # 0
  BY PurchasesAssumption
<1>2. row.type # "PURCHASE" \/ row.ref # p
  BY <1>1
<1>3. row.type # "PURCHASE" \/ row.ref # p => CreditRows(p)' = CreditRows(p)
  BY CreditsAfter
<1>4. \A i \in CreditRows(p) : ledger'[i] = ledger[i]
  BY CreditsAfter
<1> QED BY <1>2, <1>3, <1>4

\* A step that writes no ledger row.
LEMMA CreditsUntouched ==
    ASSUME ledger' = ledger, NEW p
    PROVE  /\ CreditRows(p)' = CreditRows(p)
           /\ \A i \in CreditRows(p) : ledger'[i] = ledger[i]
  BY DEF CreditRows

-----------------------------------------------------------------------------
(* Steps that leave the wallet alone.                                      *)

\* How a status moves without a credit: a row is created, a card purchase
\* expires, or a request writes the outcome it decided on earlier.
StatusMoves(p) ==
    \/ purchases'[p].status = purchases[p].status
    \/ purchases[p].status = "NONE" /\ purchases'[p].status = "PENDING"
    \/ /\ purchases[p].status = "PENDING" /\ purchases'[p].status = "EXPIRED"
       /\ p \in CardPurchases
    \/ purchases'[p].status \in {"REJECTED", "CANCELLED"}

LEMMA QuietStep ==
    ASSUME PurchasesInv, UNCHANGED walletVars, PurchasesTypeOK',
           \A p \in PurchaseIds : StatusMoves(p),
           events \subseteq events',
           \A p \in CardPurchases : stripe[p] = "paid" => stripe'[p] = "paid",
           EventsAreTrue', WorkersAreBusy'
    PROVE  PurchasesInv'
<1>1. WalletInv' /\ ledger' = ledger
  BY WalletStays DEF PurchasesInv
<1>2. ASSUME NEW p PROVE CreditRows(p)' = CreditRows(p) /\ (Credited(p)' <=> Credited(p))
  BY <1>1, CreditsUntouched DEF Credited
<1>3. CreditedSaysSo'
  BY <1>2 DEF PurchasesInv, CreditedSaysSo, StatusMoves
<1>4. CreditedOnce'
  <2> SUFFICES ASSUME NEW p \in PurchaseIds
               PROVE  /\ \A i, j \in CreditRows(p)' : i = j
                      /\ \A i \in CreditRows(p)' : ledger'[i].amount = Price[p]
                      /\ purchases'[p].status = "COMPLETED" => Credited(p)'
    BY DEF CreditedOnce
  <2>1. purchases'[p].status = "COMPLETED" => purchases[p].status = "COMPLETED"
    BY DEF StatusMoves
  <2> QED BY <1>1, <1>2, <2>1 DEF PurchasesInv, CreditedOnce
<1>5. CreditNeedsMoney'
  <2>1. CardPurchases \subseteq PurchaseIds
    BY DEF PurchaseIds
  <2> QED BY <1>2, <2>1 DEF PurchasesInv, CreditNeedsMoney
<1>6. ExpiredIsUncredited'
  BY <1>2 DEF PurchasesInv, ExpiredIsUncredited, CreditedSaysSo, StatusMoves
<1> QED BY <1>1, <1>3, <1>4, <1>5, <1>6 DEF PurchasesInv

\* SetStatus changes one field of one row.
LEMMA StatusSet ==
    ASSUME purchases \in [PurchaseIds -> PurchaseRow], NEW p \in PurchaseIds,
           NEW status \in PurchaseStatuses, SetStatus(p, status)
    PROVE  /\ purchases' \in [PurchaseIds -> PurchaseRow]
           /\ purchases'[p].status = status
           /\ \A q \in PurchaseIds \ {p} : purchases'[q] = purchases[q]
<1>1. purchases[p] \in PurchaseRow
  OBVIOUS
<1>2. purchases' = [purchases EXCEPT ![p] = [purchases[p] EXCEPT !.status = status]]
  BY DEF SetStatus
<1>3. [purchases[p] EXCEPT !.status = status] \in PurchaseRow
  BY <1>1 DEF PurchaseRow
<1>4. [purchases[p] EXCEPT !.status = status].status = status
  BY <1>1 DEF PurchaseRow
<1> QED BY <1>2, <1>3, <1>4

\* The invariant's parts about rows, spelled out.
LEMMA RowTypes ==
    ASSUME PurchasesInv
    PROVE  /\ WalletInv /\ TypeOK
           /\ purchases \in [PurchaseIds -> PurchaseRow]
           /\ stripe \in [CardPurchases -> SessionStates]
           /\ CardPurchases \subseteq PurchaseIds
           /\ BankPurchases \subseteq PurchaseIds
           /\ \A p \in PurchaseIds : p \in Nat \ {0} /\ Price[p] \in Nat
           /\ \A e \in events : e.purchase \in CardPurchases
  BY PurchasesAssumption
     DEF PurchasesInv, PurchasesTypeOK, PurchaseRow, PurchaseIds

\* A step that only changes the status of one purchase.
LEMMA StatusStep ==
    ASSUME PurchasesInv, NEW p \in PurchaseIds, NEW status \in PurchaseStatuses,
           SetStatus(p, status), UNCHANGED <<walletVars, stripe, events>>,
           \/ purchases[p].status = "NONE" /\ status = "PENDING"
           \/ purchases[p].status = "PENDING" /\ status = "EXPIRED" /\ p \in CardPurchases
           \/ status \in {"REJECTED", "CANCELLED"},
           \A w \in Workers : workers'[w] = workers[w] \/ workers'[w] = IdleWorker,
           workers' \in [Workers -> [task : {"idle", "fail", "cancel", "reject", "approve"},
                                     purchase : PurchaseIds \cup {0}]]
    PROVE  PurchasesInv'
<1>1. /\ purchases' \in [PurchaseIds -> PurchaseRow]
      /\ purchases'[p].status = status
      /\ \A q \in PurchaseIds \ {p} : purchases'[q] = purchases[q]
  BY RowTypes, StatusSet
<1>2. \A q \in PurchaseIds : StatusMoves(q)
  BY <1>1 DEF StatusMoves
<1>3. TypeOK'
  BY RowTypes, WalletStays
<1>4. PurchasesTypeOK'
  BY <1>1, <1>3 DEF PurchasesInv, PurchasesTypeOK, PurchaseRow
<1>5. EventsAreTrue'
  BY DEF PurchasesInv, EventsAreTrue
<1>6. WorkersAreBusy'
  BY DEF PurchasesInv, WorkersAreBusy, IdleWorker
<1> QED BY <1>2, <1>4, <1>5, <1>6, QuietStep

-----------------------------------------------------------------------------
(* Steps that move the wallet.                                             *)

\* completePurchase, asked for by a true event or for a bank transfer.
LEMMA CompleteStep ==
    ASSUME PurchasesInv, NEW p \in PurchaseIds, CompletePurchase(p),
           p \in CardPurchases =>
               /\ stripe[p] = "paid"
               /\ \E e \in events : e.purchase = p /\ e.paid /\ e.matches,
           \A w \in Workers : workers'[w] = workers[w] \/ workers'[w] = IdleWorker,
           workers' \in [Workers -> [task : {"idle", "fail", "cancel", "reject", "approve"},
                                     purchase : PurchaseIds \cup {0}]]
    PROVE  PurchasesInv'
<1> DEFINE row == LedgerRow(wallet, "PURCHASE", Exact(Price[p]), p)
           allowNegative == FALSE
<1>1. /\ purchases[p].status = "PENDING" /\ SetStatus(p, "COMPLETED")
      /\ PostTransaction("PURCHASE", Exact(Price[p]), allowNegative, p)
      /\ stripe' = stripe /\ events' = events
  BY DEF CompletePurchase
<1>2. p \in Nat /\ Exact(Price[p]) \in Int /\ Stored(Exact(Price[p])) = Price[p]
  BY RowTypes, UnitsStored
<1>3. "PURCHASE" \in LedgerTypes \ {"USAGE_CHARGE"}
  BY DEF LedgerTypes
<1> HIDE DEF allowNegative
<1>4. /\ WalletInv' /\ TypeOK /\ TypeOK' /\ row \in LedgerEntry
      /\ ledger' = Append(ledger, row)
      /\ row.type = "PURCHASE" /\ row.amount = Price[p] /\ row.ref = p
  BY <1>1, <1>2, <1>3, RowTypes, PostKeepsWallet
<1> HIDE DEF row
<1>5. /\ purchases' \in [PurchaseIds -> PurchaseRow]
      /\ purchases'[p].status = "COMPLETED"
      /\ \A q \in PurchaseIds \ {p} : purchases'[q] = purchases[q]
  BY <1>1, RowTypes, StatusSet DEF PurchaseStatuses
<1>6. CreditRows(p) = {}
  BY <1>1 DEF PurchasesInv, CreditedSaysSo, Credited
<1>7. /\ CreditRows(p)' = {Len(ledger) + 1}
      /\ ledger'[Len(ledger) + 1].amount = Price[p]
  BY <1>4, <1>6, CreditsAfter
<1>8. ASSUME NEW q \in PurchaseIds \ {p}
      PROVE  /\ CreditRows(q)' = CreditRows(q)
             /\ \A i \in CreditRows(q) : ledger'[i] = ledger[i]
  BY <1>4, CreditsAfter
<1>9. ASSUME NEW q \in PurchaseIds \ {p} PROVE Credited(q)' <=> Credited(q)
  BY <1>8 DEF Credited
<1>10. CreditedSaysSo'
  BY <1>5, <1>9 DEF PurchasesInv, CreditedSaysSo
<1>11. CreditedOnce'
  <2> SUFFICES ASSUME NEW q \in PurchaseIds
               PROVE  /\ \A i, j \in CreditRows(q)' : i = j
                      /\ \A i \in CreditRows(q)' : ledger'[i].amount = Price[q]
                      /\ purchases'[q].status = "COMPLETED" => Credited(q)'
    BY DEF CreditedOnce
  <2>1. CASE q = p
    BY <2>1, <1>7 DEF Credited
  <2>2. CASE q # p
    BY <2>2, <1>5, <1>8, <1>9 DEF PurchasesInv, CreditedOnce
  <2> QED BY <2>1, <2>2
<1>12. CreditNeedsMoney'
  BY <1>1, <1>9, RowTypes DEF PurchasesInv, CreditNeedsMoney
<1>13. ExpiredIsUncredited'
  BY <1>5, <1>9 DEF PurchasesInv, ExpiredIsUncredited
<1>14. PurchasesTypeOK'
  BY <1>1, <1>4, <1>5 DEF PurchasesInv, PurchasesTypeOK, PurchaseRow
<1>15. EventsAreTrue'
  BY <1>1 DEF PurchasesInv, EventsAreTrue
<1>16. WorkersAreBusy'
  BY DEF PurchasesInv, WorkersAreBusy, IdleWorker
<1> QED BY <1>4, <1>10, <1>11, <1>12, <1>13, <1>14, <1>15, <1>16 DEF PurchasesInv

\* Entries and settings that other components make.
LEMMA ElsewhereStep ==
    ASSUME PurchasesInv, Elsewhere
    PROVE  PurchasesInv'
<1>1. UNCHANGED <<purchases, stripe, events, workers>>
  BY DEF Elsewhere, purchaseVars
<1>2. ASSUME WalletInv', TypeOK',
             \A q \in PurchaseIds : /\ CreditRows(q)' = CreditRows(q)
                                    /\ \A i \in CreditRows(q) : ledger'[i] = ledger[i]
      PROVE  PurchasesInv'
  <2>1. \A q \in PurchaseIds : Credited(q)' <=> Credited(q)
    BY <1>2 DEF Credited
  <2>2. CreditedSaysSo' /\ ExpiredIsUncredited'
    BY <1>1, <2>1 DEF PurchasesInv, CreditedSaysSo, ExpiredIsUncredited
  <2>3. CreditedOnce'
    BY <1>1, <1>2, <2>1 DEF PurchasesInv, CreditedOnce
  <2>4. CreditNeedsMoney'
    BY <1>1, <2>1, RowTypes DEF PurchasesInv, CreditNeedsMoney
  <2>5. PurchasesTypeOK' /\ EventsAreTrue' /\ WorkersAreBusy'
    BY <1>1, <1>2 DEF PurchasesInv, PurchasesTypeOK, EventsAreTrue, WorkersAreBusy
  <2> QED BY <1>2, <2>2, <2>3, <2>4, <2>5 DEF PurchasesInv
<1>3. ASSUME NEW p \in Postings,
             PostTransaction(p.type, p.amount, p.allowNegative, 0)
      PROVE  PurchasesInv'
  <2>1. p.type \in LedgerTypes \ {"USAGE_CHARGE"} /\ p.amount \in Int
    BY AmountsAssumption
  <2> DEFINE row == LedgerRow(wallet, p.type, p.amount, 0)
  <2>2. /\ WalletInv' /\ TypeOK /\ TypeOK' /\ row \in LedgerEntry
        /\ ledger' = Append(ledger, row) /\ row.ref = 0
    BY <2>1, <1>3, RowTypes, PostKeepsWallet
  <2> HIDE DEF row
  <2> QED BY <2>2, <1>2, CreditsStay
<1>4. ASSUME NEW status \in WalletStatuses, UpdateWalletSettings(status, NoThreshold)
      PROVE  PurchasesInv'
  <2>1. WalletInv' /\ TypeOK'
    BY <1>4, SettingsPreserve, RowTypes DEF WalletInv
  <2>2. ledger' = ledger
    BY <1>4 DEF UpdateWalletSettings
  <2> QED BY <2>1, <2>2, <1>2, CreditsUntouched
<1> QED BY <1>3, <1>4 DEF Elsewhere

-----------------------------------------------------------------------------
(* Steps of the rails.                                                     *)

WorkerTasks == {"idle", "fail", "cancel", "reject", "approve"}
WorkerRow == [task : WorkerTasks, purchase : PurchaseIds \cup {0}]

LEMMA WorkerTypes ==
    ASSUME PurchasesInv
    PROVE  /\ workers \in [Workers -> WorkerRow]
           /\ IdleWorker \in WorkerRow
           /\ \A w \in Workers : workers[w].task \in WorkerTasks
  BY DEF PurchasesInv, PurchasesTypeOK, WorkerRow, WorkerTasks, IdleWorker

\* A request is over: the other requests go on.
LEMMA DoneIdles ==
    ASSUME PurchasesInv, NEW w \in Workers, Done(w)
    PROVE  /\ \A v \in Workers : workers'[v] = workers[v] \/ workers'[v] = IdleWorker
           /\ workers' \in [Workers -> [task : WorkerTasks, purchase : PurchaseIds \cup {0}]]
<1>1. workers' \in [Workers -> WorkerRow]
  BY WorkerTypes DEF Done
<1>2. \A v \in Workers : workers'[v] = workers[v] \/ workers'[v] = IdleWorker
  BY WorkerTypes DEF Done
<1> QED BY <1>1, <1>2 DEF WorkerRow

\* A step that only changes what requests are about.
LEMMA WorkerStep ==
    ASSUME PurchasesInv, UNCHANGED <<walletVars, purchases, stripe, events>>,
           workers' \in [Workers -> WorkerRow], WorkersAreBusy'
    PROVE  PurchasesInv'
<1>1. TypeOK'
  BY RowTypes, WalletStays
<1>2. PurchasesTypeOK' /\ EventsAreTrue'
  BY <1>1 DEF PurchasesInv, PurchasesTypeOK, EventsAreTrue, WorkerRow, WorkerTasks
<1>3. \A p \in PurchaseIds : StatusMoves(p)
  BY DEF StatusMoves
<1> QED BY <1>2, <1>3, QuietStep

\* A request reads a purchase.
LEMMA ReadStep ==
    ASSUME PurchasesInv, NEW w \in Workers, NEW p \in PurchaseIds,
           NEW task \in WorkerTasks, task = "approve" => p \in BankPurchases,
           workers' = [workers EXCEPT ![w] = [task |-> task, purchase |-> p]],
           UNCHANGED <<walletVars, purchases, stripe, events>>
    PROVE  PurchasesInv'
<1>1. [task |-> task, purchase |-> p] \in WorkerRow
  BY DEF WorkerRow
<1>2. /\ workers' \in [Workers -> WorkerRow]
      /\ \A v \in Workers : workers'[v] = IF v = w THEN [task |-> task, purchase |-> p]
                                                  ELSE workers[v]
  BY <1>1, WorkerTypes
<1>3. WorkersAreBusy'
  BY <1>2 DEF PurchasesInv, WorkersAreBusy
<1> QED BY <1>2, <1>3, WorkerStep

\* A purchase row whose flags change and whose status does not.
LEMMA FlagStep ==
    ASSUME PurchasesInv, NEW p \in PurchaseIds, NEW row \in PurchaseRow,
           row.status = purchases[p].status,
           purchases' = [purchases EXCEPT ![p] = row],
           UNCHANGED <<walletVars, stripe, events, workers>>
    PROVE  PurchasesInv'
<1>1. /\ purchases' \in [PurchaseIds -> PurchaseRow]
      /\ \A q \in PurchaseIds : purchases'[q].status = purchases[q].status
  BY RowTypes
<1>2. TypeOK'
  BY RowTypes, WalletStays
<1>3. PurchasesTypeOK' /\ EventsAreTrue' /\ WorkersAreBusy'
  BY <1>1, <1>2
     DEF PurchasesInv, PurchasesTypeOK, EventsAreTrue, WorkersAreBusy, PurchaseRow
<1> QED BY <1>1, <1>3, QuietStep DEF StatusMoves

\* Stripe moves a session that is not paid and sends an event that is true.
LEMMA StripeStep ==
    ASSUME PurchasesInv, NEW p \in CardPurchases, NEW from \in SessionStates \ {"paid"},
           NEW to \in SessionStates, NEW type \in EventTypes, NEW matches \in BOOLEAN,
           type = "async_payment_succeeded" => to = "paid",
           StripeMoves(p, from, to, type, matches)
    PROVE  PurchasesInv'
<1> DEFINE paid == to = "paid"
           event == [type |-> type, purchase |-> p, paid |-> paid, matches |-> matches]
<1>1. /\ stripe[p] = from /\ stripe' = [stripe EXCEPT ![p] = to]
      /\ events' = events \cup {event}
      /\ UNCHANGED <<walletVars, purchases, workers>>
  BY DEF StripeMoves
<1>2. /\ paid \in BOOLEAN /\ (paid <=> to = "paid")
  OBVIOUS
<1> HIDE DEF paid
<1>3. /\ event \in [type : EventTypes, purchase : CardPurchases,
                    paid : BOOLEAN, matches : BOOLEAN]
      /\ event.purchase = p /\ event.type = type
  BY <1>2
<1>4. event.paid => to = "paid"
  BY <1>2
<1>5. type = "async_payment_succeeded" => event.paid
  BY <1>2
<1> HIDE DEF event
<1>6. /\ stripe' \in [CardPurchases -> SessionStates]
      /\ \A q \in CardPurchases : stripe'[q] = IF q = p THEN to ELSE stripe[q]
  BY <1>1, RowTypes
<1>7. \A q \in CardPurchases : stripe[q] = "paid" => stripe'[q] = "paid"
  BY <1>1, <1>6
<1>8. EventsAreTrue'
  <2> SUFFICES ASSUME NEW e \in events'
               PROVE  /\ e.paid => stripe'[e.purchase] = "paid"
                      /\ e.type = "async_payment_succeeded" => e.paid
    BY DEF EventsAreTrue
  <2>1. CASE e \in events
    BY <2>1, <1>7, RowTypes DEF PurchasesInv, EventsAreTrue
  <2>2. CASE e = event
    <3>1. e.paid => stripe'[e.purchase] = "paid"
      BY <2>2, <1>3, <1>4, <1>6
    <3>2. e.type = "async_payment_succeeded" => e.paid
      BY <2>2, <1>3, <1>5
    <3> QED BY <3>1, <3>2
  <2> QED BY <2>1, <2>2, <1>1
<1>9. TypeOK'
  BY <1>1, RowTypes, WalletStays
<1>10. PurchasesTypeOK'
  <2>1. events' \subseteq [type : EventTypes, purchase : CardPurchases,
                          paid : BOOLEAN, matches : BOOLEAN]
    BY <1>1, <1>3 DEF PurchasesInv, PurchasesTypeOK
  <2> QED BY <1>1, <1>6, <1>9, <2>1 DEF PurchasesInv, PurchasesTypeOK
<1>11. WorkersAreBusy'
  BY <1>1 DEF PurchasesInv, WorkersAreBusy
<1>12. \A q \in PurchaseIds : StatusMoves(q)
  BY <1>1 DEF StatusMoves
<1>13. events \subseteq events' /\ UNCHANGED walletVars
  BY <1>1
<1> QED BY <1>7, <1>8, <1>10, <1>11, <1>12, <1>13, QuietStep

-----------------------------------------------------------------------------
(* The invariant.                                                          *)

LEMMA PurchasesInitInv == PurchasesInit => PurchasesInv
<1> SUFFICES ASSUME PurchasesInit PROVE PurchasesInv
  OBVIOUS
<1>1. WalletInv /\ TypeOK
  BY InitInv DEF PurchasesInit, WalletInv
<1>2. \A p : CreditRows(p) = {} /\ ~Credited(p)
  <2>1. Len(ledger) = 0
    BY EmptySeq DEF PurchasesInit, Init
  <2> QED BY <2>1 DEF CreditRows, Credited
<1>3. \A p \in PurchaseIds : purchases[p] = NewPurchase
  BY DEF PurchasesInit
<1>4. NewPurchase \in PurchaseRow /\ NewPurchase.status = "NONE"
  BY DEF NewPurchase, PurchaseRow, PurchaseStatuses
<1>5. PurchasesTypeOK
  <2>1. purchases \in [PurchaseIds -> PurchaseRow]
    BY <1>4 DEF PurchasesInit
  <2>2. stripe \in [CardPurchases -> SessionStates]
    BY DEF PurchasesInit, SessionStates
  <2>3. workers \in [Workers -> WorkerRow]
    BY DEF PurchasesInit, WorkerRow, WorkerTasks, IdleWorker
  <2>4. events = {}
    BY DEF PurchasesInit
  <2> QED BY <1>1, <2>1, <2>2, <2>3, <2>4
          DEF PurchasesTypeOK, PurchaseRow, WorkerRow, WorkerTasks
<1>6. CardPurchases \subseteq PurchaseIds
  BY DEF PurchaseIds
<1>7. CreditedSaysSo /\ CreditedOnce /\ CreditNeedsMoney /\ ExpiredIsUncredited
  BY <1>2, <1>3, <1>4, <1>6
     DEF CreditedSaysSo, CreditedOnce, CreditNeedsMoney, ExpiredIsUncredited
<1>8. EventsAreTrue /\ WorkersAreBusy
  BY DEF PurchasesInit, EventsAreTrue, WorkersAreBusy, IdleWorker
<1> QED BY <1>1, <1>5, <1>7, <1>8 DEF PurchasesInv

\* One step of a card purchase, of Stripe or of time.
LEMMA CardStepInv ==
    ASSUME PurchasesInv, NEW p \in CardPurchases,
           \/ CreateStripeCheckout(p) \/ OpenSession(p) \/ SaveSession(p)
           \/ Pay(p) \/ PayLater(p) \/ FundsArrive(p) \/ FundsFail(p)
           \/ SessionExpires(p)
    PROVE  PurchasesInv'
<1>1. p \in PurchaseIds /\ purchases[p] \in PurchaseRow
  BY RowTypes
<1>w. \A w \in Workers : workers' = workers => workers'[w] = workers[w]
  OBVIOUS
<1>2. CASE CreateStripeCheckout(p)
  <2>1. /\ purchases[p].status = "NONE" /\ SetStatus(p, "PENDING")
        /\ UNCHANGED <<walletVars, stripe, events, workers>>
    BY <1>2 DEF CreateStripeCheckout
  <2>2. workers' \in [Workers -> [task : WorkerTasks, purchase : PurchaseIds \cup {0}]]
    BY <2>1, WorkerTypes DEF WorkerRow
  <2>3. "PENDING" \in PurchaseStatuses
    BY DEF PurchaseStatuses
  <2> QED BY <1>1, <2>1, <2>2, <2>3, StatusStep DEF WorkerTasks
<1>3. CASE OpenSession(p)
  <2>1. /\ stripe[p] = "none" /\ stripe' = [stripe EXCEPT ![p] = "open"]
        /\ UNCHANGED <<walletVars, purchases, events, workers>>
    BY <1>3 DEF OpenSession
  <2>2. /\ stripe' \in [CardPurchases -> SessionStates]
        /\ \A q \in CardPurchases : stripe[q] = "paid" => stripe'[q] = "paid"
    BY <2>1, RowTypes DEF SessionStates
  <2>3. TypeOK'
    BY <2>1, RowTypes, WalletStays
  <2>4. PurchasesTypeOK'
    BY <2>1, <2>2, <2>3 DEF PurchasesInv, PurchasesTypeOK
  <2>5. EventsAreTrue'
    BY <2>1, <2>2, RowTypes DEF PurchasesInv, EventsAreTrue
  <2>6. WorkersAreBusy' /\ \A q \in PurchaseIds : StatusMoves(q)
    BY <2>1 DEF PurchasesInv, WorkersAreBusy, StatusMoves
  <2> QED BY <2>1, <2>2, <2>4, <2>5, <2>6, QuietStep
<1>4. CASE SaveSession(p)
  <2> DEFINE row == [purchases[p] EXCEPT !.session = TRUE]
  <2>1. /\ row \in PurchaseRow /\ row.status = purchases[p].status
        /\ purchases' = [purchases EXCEPT ![p] = row]
        /\ UNCHANGED <<walletVars, stripe, events, workers>>
    BY <1>1, <1>4 DEF SaveSession, PurchaseRow
  <2> HIDE DEF row
  <2> QED BY <1>1, <2>1, FlagStep
<1>5. CASE Pay(p)
  <2>1. PICK matches \in BOOLEAN : StripeMoves(p, "open", "paid", "completed", matches)
    BY <1>5 DEF Pay
  <2> QED BY <2>1, StripeStep DEF SessionStates, EventTypes
<1>6. CASE PayLater(p) \/ FundsArrive(p) \/ FundsFail(p) \/ SessionExpires(p)
  <2> DEFINE matches == TRUE
  <2>1. matches \in BOOLEAN
    OBVIOUS
  <2>2. \/ StripeMoves(p, "open", "unpaid", "completed", matches)
        \/ StripeMoves(p, "unpaid", "paid", "async_payment_succeeded", matches)
        \/ StripeMoves(p, "unpaid", "failed", "async_payment_failed", matches)
        \/ StripeMoves(p, "open", "expired", "expired", matches)
    BY <1>6 DEF PayLater, FundsArrive, FundsFail, SessionExpires
  <2> HIDE DEF matches
  <2> QED BY <2>1, <2>2, StripeStep DEF SessionStates, EventTypes
<1> QED BY <1>2, <1>3, <1>4, <1>5, <1>6

\* The delivery of an event.
LEMMA EventStepInv ==
    ASSUME PurchasesInv, NEW e \in events,
           \/ HandlePaid(e) \/ HandleExpired(e)
           \/ \E w \in Workers : HandleFailed(w, e)
    PROVE  PurchasesInv'
<1>1. e.purchase \in CardPurchases /\ e.purchase \in PurchaseIds
  BY RowTypes
<1>2. CASE HandlePaid(e)
  <2>1. /\ CompletePurchase(e.purchase) /\ workers' = workers
        /\ e.paid /\ e.matches
    BY <1>2 DEF HandlePaid, GrantsCredit, PurchasesInv, EventsAreTrue
  <2>2. stripe[e.purchase] = "paid"
    BY <2>1 DEF PurchasesInv, EventsAreTrue
  <2>3. /\ workers' \in [Workers -> [task : WorkerTasks, purchase : PurchaseIds \cup {0}]]
        /\ \A w \in Workers : workers'[w] = workers[w] \/ workers'[w] = IdleWorker
    BY <2>1, WorkerTypes DEF WorkerRow
  <2> QED BY <1>1, <2>1, <2>2, <2>3, CompleteStep DEF WorkerTasks
<1>3. CASE HandleExpired(e)
  <2>1. /\ purchases[e.purchase].status = "PENDING" /\ SetStatus(e.purchase, "EXPIRED")
        /\ UNCHANGED <<walletVars, stripe, events, workers>>
    BY <1>3 DEF HandleExpired
  <2>2. workers' \in [Workers -> [task : WorkerTasks, purchase : PurchaseIds \cup {0}]]
    BY <2>1, WorkerTypes DEF WorkerRow
  <2>3. "EXPIRED" \in PurchaseStatuses
    BY DEF PurchaseStatuses
  <2> QED BY <1>1, <2>1, <2>2, <2>3, StatusStep DEF WorkerTasks
<1>4. ASSUME NEW w \in Workers, HandleFailed(w, e) PROVE PurchasesInv'
  BY <1>1, <1>4, ReadStep DEF HandleFailed, WorkerTasks
<1> QED BY <1>2, <1>3, <1>4

\* The sweep expires what it finds abandoned, and nothing else.
LEMMA SweepStepInv ==
    ASSUME PurchasesInv, ExpireStaleStripePurchases
    PROVE  PurchasesInv'
<1>1. /\ purchases' = [p \in PurchaseIds |->
              IF Abandoned(p) THEN [purchases[p] EXCEPT !.status = "EXPIRED"]
                              ELSE purchases[p]]
      /\ UNCHANGED <<walletVars, stripe, events, workers>>
  BY DEF ExpireStaleStripePurchases
<1>2. ASSUME NEW p \in PurchaseIds
      PROVE  /\ purchases'[p] \in PurchaseRow
             /\ StatusMoves(p)
  <2>1. purchases[p] \in PurchaseRow
    BY RowTypes
  <2>2. CASE Abandoned(p)
    BY <1>1, <2>1, <2>2 DEF StatusMoves, Abandoned, PurchaseRow, PurchaseStatuses
  <2>3. CASE ~Abandoned(p)
    BY <1>1, <2>1, <2>3 DEF StatusMoves
  <2> QED BY <2>2, <2>3
<1>3. purchases' \in [PurchaseIds -> PurchaseRow]
  BY <1>1, <1>2
<1>4. TypeOK'
  BY <1>1, RowTypes, WalletStays
<1>5. PurchasesTypeOK' /\ EventsAreTrue' /\ WorkersAreBusy'
  BY <1>1, <1>3, <1>4
     DEF PurchasesInv, PurchasesTypeOK, EventsAreTrue, WorkersAreBusy, PurchaseRow
<1> QED BY <1>1, <1>2, <1>5, QuietStep

\* A step of a request or a reviewer.
LEMMA RequestStepInv ==
    ASSUME PurchasesInv, NEW w \in Workers,
           \/ \E p \in PurchaseIds : CancelOwnPending(w, p) \/ ReviewBankTransfer(w, p)
           \/ WriteOutcome(w) \/ Approve(w) \/ GiveUp(w)
    PROVE  PurchasesInv'
<1>1. ASSUME NEW p \in PurchaseIds, CancelOwnPending(w, p) \/ ReviewBankTransfer(w, p)
      PROVE  PurchasesInv'
  <2>1. PICK task \in WorkerTasks :
          Start(w, p, task) /\ (task = "approve" => p \in BankPurchases)
    BY <1>1 DEF CancelOwnPending, ReviewBankTransfer, WorkerTasks
  <2> QED BY <2>1, ReadStep DEF Start
<1>2. CASE WriteOutcome(w)
  <2> DEFINE p == workers[w].purchase
             status == Outcome[workers[w].task]
  <2>1. /\ workers[w].task \in {"fail", "cancel", "reject"}
        /\ SetStatus(p, status) /\ Done(w)
        /\ UNCHANGED <<walletVars, stripe, events>>
    BY <1>2 DEF WriteOutcome, Outcome
  <2>2. p \in PurchaseIds
    BY <2>1 DEF PurchasesInv, WorkersAreBusy
  <2>3. status \in {"REJECTED", "CANCELLED"}
    BY <2>1 DEF Outcome
  <2> HIDE DEF status, p
  <2>4. status \in PurchaseStatuses
    BY <2>3 DEF PurchaseStatuses
  <2> QED BY <2>1, <2>2, <2>3, <2>4, DoneIdles, StatusStep DEF WorkerTasks
<1>3. CASE Approve(w)
  <2>1. /\ workers[w].task = "approve" /\ CompletePurchase(workers[w].purchase) /\ Done(w)
    BY <1>3 DEF Approve
  <2>2. /\ workers[w].purchase \in PurchaseIds
        /\ workers[w].purchase \notin CardPurchases
    BY <2>1, PurchasesAssumption DEF PurchasesInv, WorkersAreBusy
  <2> QED BY <2>1, <2>2, DoneIdles, CompleteStep DEF WorkerTasks
<1>4. CASE GiveUp(w)
  <2>1. Done(w) /\ UNCHANGED <<walletVars, purchases, stripe, events>>
    BY <1>4 DEF GiveUp
  <2>2. workers' \in [Workers -> WorkerRow]
    BY <2>1, DoneIdles DEF WorkerRow
  <2>3. WorkersAreBusy'
    BY <2>1, DoneIdles DEF PurchasesInv, WorkersAreBusy, IdleWorker
  <2> QED BY <2>1, <2>2, <2>3, WorkerStep
<1> QED BY <1>1, <1>2, <1>3, <1>4

LEMMA PurchasesStepInv == PurchasesInv /\ [PurchasesNext]_vars => PurchasesInv'
<1> SUFFICES ASSUME PurchasesInv, [PurchasesNext]_vars PROVE PurchasesInv'
  OBVIOUS
<1>1. CASE UNCHANGED vars
  <2>1. UNCHANGED <<walletVars, purchases, stripe, events, workers>>
    BY <1>1 DEF vars
  <2>2. workers' \in [Workers -> WorkerRow] /\ WorkersAreBusy'
    BY <2>1, WorkerTypes DEF PurchasesInv, WorkersAreBusy
  <2> QED BY <2>1, <2>2, WorkerStep
<1>2. ASSUME NEW p \in BankPurchases, SubmitBankTransfer(p) PROVE PurchasesInv'
  <2>1. /\ purchases[p].status = "NONE" /\ SetStatus(p, "PENDING")
        /\ UNCHANGED <<walletVars, stripe, events, workers>>
    BY <1>2 DEF SubmitBankTransfer
  <2>2. /\ workers' \in [Workers -> [task : WorkerTasks, purchase : PurchaseIds \cup {0}]]
        /\ p \in PurchaseIds
    BY <2>1, WorkerTypes, RowTypes DEF WorkerRow
  <2>3. "PENDING" \in PurchaseStatuses
    BY DEF PurchaseStatuses
  <2> QED BY <2>1, <2>2, <2>3, StatusStep DEF WorkerTasks
<1>3. ASSUME NEW p \in PurchaseIds, GrowsOld(p) PROVE PurchasesInv'
  <2> DEFINE row == [purchases[p] EXCEPT !.old = TRUE]
  <2>1. purchases[p] \in PurchaseRow
    BY RowTypes
  <2>2. /\ row \in PurchaseRow /\ row.status = purchases[p].status
        /\ purchases' = [purchases EXCEPT ![p] = row]
        /\ UNCHANGED <<walletVars, stripe, events, workers>>
    BY <1>3, <2>1 DEF GrowsOld, PurchaseRow
  <2> HIDE DEF row
  <2> QED BY <2>2, FlagStep
<1> QED BY <1>1, <1>2, <1>3, CardStepInv, EventStepInv, SweepStepInv, RequestStepInv,
           ElsewhereStep DEF PurchasesNext

-----------------------------------------------------------------------------
(* The theorems.                                                           *)

\* Every execution of the two purchase rails keeps the invariant.
THEOREM PurchasesInvariant == PurchasesSpec => []PurchasesInv
  BY PurchasesInitInv, PurchasesStepInv, PTL DEF PurchasesSpec

\* Purchase rows, sessions, events and requests in flight keep their types.
THEOREM PurchasesTypes == PurchasesSpec => []PurchasesTypeOK
<1>1. PurchasesInv => PurchasesTypeOK
  BY DEF PurchasesInv
<1> QED BY <1>1, PurchasesInvariant, PTL

\* completePurchase credits a purchase at most once and with its own amount,
\* whatever events, approvals, cancellations and sweeps race it.
THEOREM PurchaseCreditedOnce == PurchasesSpec => []CreditedOnce
<1>1. PurchasesInv => CreditedOnce
  BY DEF PurchasesInv
<1> QED BY <1>1, PurchasesInvariant, PTL

\* handleStripeEvent credits a card purchase only on an event that Stripe sent
\* when it had the money, in the right amount.
THEOREM CreditIsPaidFor == PurchasesSpec => []CreditNeedsMoney
<1>1. PurchasesInv => CreditNeedsMoney
  BY DEF PurchasesInv
<1> QED BY <1>1, PurchasesInvariant, PTL

\* Neither the expiry event nor the sweep ever expires a purchase that was
\* credited, or a bank transfer.
THEOREM ExpiryIsSafe == PurchasesSpec => []ExpiredIsUncredited
<1>1. PurchasesInv => ExpiredIsUncredited
  BY DEF PurchasesInv
<1> QED BY <1>1, PurchasesInvariant, PTL

\* The wallet under the purchases keeps its own invariant.
THEOREM WalletUnderPurchases == PurchasesSpec => []WalletInv
<1>1. PurchasesInv => WalletInv
  BY DEF PurchasesInv
<1> QED BY <1>1, PurchasesInvariant, PTL
=============================================================================
