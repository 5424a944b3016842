---------------------------- MODULE ChargingProofs ---------------------------
(***************************************************************************)
(* Proofs about Charging: for any set of requests, any policies, any       *)
(* estimates and charges, enforcement on or off, and deaths anywhere.      *)
(***************************************************************************)
EXTENDS Charging, WalletProofs, FiniteSetTheorems

\* What a usage log may say of hold h once settle is done with it.
Outcome(h, status, charge) ==
    /\ holds[h].status # "ACTIVE" /\ status # "UNBILLED"
    /\ status = "CHARGED" =>
          /\ holds[h].status = "FINALIZED"
          /\ \A row \in ChargeRows(h) : ledger[row].amount = -charge
          /\ charge # 0 => ChargeRows(h) # {}
    /\ status # "CHARGED" => ChargeRows(h) = {}

\* A request holds credits from prepare to the usage log; until settle only the
\* sweep can have ended its hold, and afterwards the hold's story is what the
\* request is about to log.
Own(request) ==
    /\ request.at \in {"usage", "reserve"} => request.billed
    /\ request.at = "idle" => ~request.billed
    /\ request.hold <= Len(holds)
    /\ request.hold # 0 <=> request.billed /\ request.at \in {"call", "settle", "log"}
    /\ request.hold # 0 /\ request.at \in {"call", "settle"}
          => holds[request.hold].status \in {"ACTIVE", "EXPIRED"}
    /\ request.hold # 0 /\ request.at = "log"
          => Outcome(request.hold, request.status,
                     IF request.success /\ request.billed THEN Stored(request.charge) ELSE 0)
Owned == \A r \in Requests : Own(requests[r])

\* No hold has two requests, and none that was logged has one.
Alone ==
    \A r \in Requests : requests[r].hold # 0 =>
        /\ \A s \in Requests \ {r} : requests[s].hold # requests[r].hold
        /\ \A i \in 1..Len(logs) : logs[i].hold # requests[r].hold

\* What was logged of a hold is true, and it was logged once.
LogsAreTrue ==
    \A i \in 1..Len(logs) : logs[i].hold # 0 =>
        /\ logs[i].hold <= Len(holds)
        /\ Outcome(logs[i].hold, logs[i].status, logs[i].charge)
        /\ \A j \in 1..Len(logs) : logs[j].hold = logs[i].hold => i = j

BillingStatuses == {"CHARGED", "FAILED", "UNBILLED"}
RequestRow == [at : Places, billed : BOOLEAN, limit : Nat \cup {NoLimit},
               maxSpend : Nat \cup {NoLimit}, estimate : HoldAmounts \cup {0},
               hold : Nat, success : BOOLEAN, charge : Charges \cup {0},
               status : BillingStatuses]
LogRow == [user : Callers, hold : Nat, charge : Nat, status : BillingStatuses]
PolicyTable == [user : [Users -> UserRows \cup {NoRow}],
                tenant : TenantRows \cup {NoRow}, plan : {PlanRow}]

ChargingInv ==
    /\ WalletInv
    /\ policies \in PolicyTable
    /\ requests \in [Requests -> RequestRow]
    /\ logs \in Seq(LogRow)
    /\ Owned
    /\ Alone
    /\ LogsAreTrue

\* A hold whose story is over: neither its status nor its charge changes.
Frozen(h) ==
    /\ holds'[h].status = holds[h].status
    /\ ChargeRows(h)' = ChargeRows(h)
    /\ \A i \in ChargeRows(h) : ledger'[i] = ledger[i]

\* No step rewrites the story of a hold that ended.
EndedStay ==
    /\ Len(holds) <= Len(holds')
    /\ \A h \in 1..Len(holds) : holds[h].status # "ACTIVE" => Frozen(h)

-----------------------------------------------------------------------------
(* What each wallet operation does to the holds and their charges.         *)

\* A step that writes no ledger row writes no charge.
LEMMA NoRowNoCharge ==
    ASSUME ledger' = ledger, NEW h
    PROVE  /\ ChargeRows(h)' = ChargeRows(h)
           /\ \A i \in ChargeRows(h) : ledger'[i] = ledger[i]
  BY DEF ChargeRows

\* An ACTIVE hold was not charged yet.
LEMMA ActiveUncharged ==
    ASSUME WalletInv, NEW h, holds[h].status # "FINALIZED"
    PROVE  ChargeRows(h) = {}
<1>1. OneChargePerHold
  BY DEF WalletInv
<1> QED BY <1>1 DEF OneChargePerHold, ChargeRows

\* reserveCredits adds an ACTIVE hold.
LEMMA ReserveFrame ==
    ASSUME WalletInv, NEW amount \in Nat, ReserveCredits(amount)
    PROVE  /\ Len(holds) \in Nat
           /\ Len(holds') = Len(holds) + 1
           /\ holds'[Len(holds) + 1].status = "ACTIVE"
           /\ \A h \in 1..Len(holds) : Frozen(h)
<1> DEFINE hold == [amount |-> Stored(amount), status |-> "ACTIVE", overdue |-> FALSE]
<1>1. holds' = Append(holds, hold) /\ ledger' = ledger
  BY DEF ReserveCredits
<1>2. hold \in Hold /\ hold.status = "ACTIVE"
  BY StoredNat DEF Hold, HoldStatuses
<1>3. holds \in Seq(Hold)
  BY DEF WalletInv, TypeOK
<1> HIDE DEF hold
<1>4. /\ Len(holds) \in Nat
      /\ Len(holds') = Len(holds) + 1
      /\ \A h \in 1..Len(holds) : holds'[h] = holds[h]
      /\ holds'[Len(holds) + 1] = hold
  BY <1>1, <1>2, <1>3, AppendProperties, LenProperties
<1>5. \A h \in 1..Len(holds) : Frozen(h)
  BY <1>1, <1>4, NoRowNoCharge DEF Frozen
<1> QED BY <1>2, <1>4, <1>5

\* Release and sweep end one hold and write no charge.
LEMMA EndFrame ==
    ASSUME WalletInv, NEW h \in 1..Len(holds), NEW status \in HoldStatuses,
           ReleaseReservation(h, status)
    PROVE  /\ holds[h].status = "ACTIVE" /\ holds'[h].status = status
           /\ Len(holds') = Len(holds)
           /\ \A k \in 1..Len(holds) : k # h => Frozen(k)
           /\ ChargeRows(h)' = {}
<1>1. holds[h].status = "ACTIVE" /\ holds' = Ended(h, status) /\ ledger' = ledger
  BY DEF ReleaseReservation
<1>2. /\ Len(holds') = Len(holds)
      /\ \A k \in 1..Len(holds) :
            holds'[k].status = IF k = h THEN status ELSE holds[k].status
  BY <1>1, EndedHolds DEF WalletInv, TypeOK
<1>3. ChargeRows(h) = {}
  BY <1>1, ActiveUncharged
<1> QED BY <1>1, <1>2, <1>3, NoRowNoCharge DEF Frozen

\* The time to live changes no status.
LEMMA TtlFrame ==
    ASSUME WalletInv, NEW h \in 1..Len(holds), TtlPasses(h)
    PROVE  /\ Len(holds') = Len(holds)
           /\ \A k \in 1..Len(holds) : Frozen(k)
<1>1. holds' = [holds EXCEPT ![h].overdue = TRUE] /\ ledger' = ledger
  BY DEF TtlPasses
<1>2. holds \in Seq(Hold)
  BY DEF WalletInv, TypeOK
<1>3. /\ Len(holds') = Len(holds)
      /\ \A k \in 1..Len(holds) : holds'[k].status = holds[k].status
  <2>1. /\ Len(holds) \in Nat
        /\ holds \in [1..Len(holds) -> Hold]
    BY <1>2, LenProperties
  <2>2. DOMAIN holds' = 1..Len(holds)
    BY <1>1, <2>1
  <2>3. holds' \in [1..Len(holds) -> Hold]
    BY <1>1, <2>1 DEF Hold
  <2>4. Len(holds') = Len(holds)
    BY <2>1, <2>3, LenProperties
  <2> QED BY <1>1, <2>1, <2>4 DEF Hold
<1> QED BY <1>1, <1>3, NoRowNoCharge DEF Frozen

\* One more ledger row, for the charge of hold h.
LEMMA OneMoreCharge ==
    ASSUME ledger \in Seq(LedgerEntry), NEW row \in LedgerEntry,
           ledger' = Append(ledger, row), row.type = "USAGE_CHARGE",
           NEW h, ChargeRows(h) = {}, row.ref = h
    PROVE  /\ ChargeRows(h)' = {Len(ledger) + 1}
           /\ ledger'[Len(ledger) + 1] = row
           /\ \A k : k # h => ChargeRows(k)' = ChargeRows(k)
           /\ \A k : k # h => \A i \in ChargeRows(k) : ledger'[i] = ledger[i]
<1>1. /\ Len(ledger) \in Nat
      /\ Len(ledger') = Len(ledger) + 1
      /\ \A i \in 1..Len(ledger) : ledger'[i] = ledger[i]
      /\ ledger'[Len(ledger) + 1] = row
  BY OneMoreRow
<1>2. \A i : i \in 1..Len(ledger') <=> i \in 1..Len(ledger) \/ i = Len(ledger) + 1
  BY <1>1
<1>3. ChargeRows(h)' = {Len(ledger) + 1}
  BY <1>1, <1>2 DEF ChargeRows
<1>4. ASSUME NEW k, k # h
      PROVE  /\ ChargeRows(k)' = ChargeRows(k)
             /\ \A i \in ChargeRows(k) : ledger'[i] = ledger[i]
  BY <1>1, <1>2, <1>4 DEF ChargeRows
<1> QED BY <1>1, <1>3, <1>4

\* A charge is recorded as a debit of its stored amount.
LEMMA StoredCharge ==
    ASSUME NEW x \in Nat
    PROVE  Stored(-x) = -Stored(x) /\ Stored(x) \in Nat
  BY SMT DEF Stored, Scale

\* Settling a success ends the hold and charges it what the log will say.
LEMMA FinalizeFrame ==
    ASSUME WalletInv, NEW h \in 1..Len(holds), NEW charge \in Nat,
           FinalizeReservation(h, charge)
    PROVE  /\ holds[h].status = "ACTIVE" /\ holds'[h].status = "FINALIZED"
           /\ Len(holds') = Len(holds)
           /\ \A k \in 1..Len(holds) : k # h => Frozen(k)
           /\ \A row \in ChargeRows(h)' : ledger'[row].amount = -Stored(charge)
           /\ Stored(charge) # 0 => ChargeRows(h)' # {}
<1>1. holds[h].status = "ACTIVE" /\ holds' = Ended(h, "FINALIZED")
  BY DEF FinalizeReservation, FinalizeForFree, FinalizeWithCharge
<1>2. /\ Len(holds') = Len(holds)
      /\ \A k \in 1..Len(holds) :
            holds'[k].status = IF k = h THEN "FINALIZED" ELSE holds[k].status
  BY <1>1, EndedHolds DEF WalletInv, TypeOK, HoldStatuses
<1>3. ChargeRows(h) = {}
  BY <1>1, ActiveUncharged
<1>4. CASE charge = 0 /\ FinalizeForFree(h)
  <2>1. ledger' = ledger /\ Stored(charge) = 0
    BY <1>4, SMT DEF FinalizeForFree, Stored, Scale
  <2> QED BY <2>1, <1>1, <1>2, <1>3, NoRowNoCharge DEF Frozen
<1>5. CASE FinalizeWithCharge(h, charge)
  <2> DEFINE freed == Freed(wallet, holds[h].amount)
             debit == -charge
             row == LedgerRow(freed, "USAGE_CHARGE", debit, h)
  <2>1. ledger' = Append(ledger, row)
    BY <1>5 DEF FinalizeWithCharge
  <2>2. freed \in WalletRow
    <3>1. wallet \in WalletRow /\ holds[h].amount \in Nat
      BY Typing DEF WalletInv, TypeOK
    <3> QED BY <3>1, FreedRow
  <2>3. "USAGE_CHARGE" \in LedgerTypes
    BY DEF LedgerTypes
  <2>4. h \in Nat /\ debit \in Int /\ Stored(debit) = -Stored(charge)
    BY StoredCharge
  <2> HIDE DEF freed, debit
  <2>5. /\ row \in LedgerEntry /\ row.type = "USAGE_CHARGE"
        /\ row.amount = Stored(debit) /\ row.ref = h
    BY <2>2, <2>3, <2>4, LedgerRowFields
  <2>6. ledger \in Seq(LedgerEntry)
    BY DEF WalletInv, TypeOK
  <2> HIDE DEF row
  <2>7. row \in LedgerEntry /\ row.type = "USAGE_CHARGE" /\ row.ref = h
    BY <2>5
  <2>8. /\ ChargeRows(h)' = {Len(ledger) + 1}
        /\ ledger'[Len(ledger) + 1] = row
        /\ \A k : k # h => ChargeRows(k)' = ChargeRows(k)
        /\ \A k : k # h => \A i \in ChargeRows(k) : ledger'[i] = ledger[i]
    BY <2>1, <2>6, <2>7, <1>3, OneMoreCharge, ZenonT(60)
  <2> QED BY <2>4, <2>5, <2>8, <1>1, <1>2 DEF Frozen
<1> QED BY <1>4, <1>5 DEF FinalizeReservation

-----------------------------------------------------------------------------
(* Steps of the invariant.                                                 *)

\* The types of the rows, spelled out.
LEMMA RowTypes ==
    ASSUME ChargingInv
    PROVE  /\ WalletInv /\ Len(holds) \in Nat /\ Len(logs) \in Nat
           /\ \A r \in Requests : requests[r] \in RequestRow /\ requests[r].hold \in Nat
           /\ \A i \in 1..Len(logs) : logs[i] \in LogRow /\ logs[i].hold \in Nat
<1>1. WalletInv /\ Len(holds) \in Nat
  BY Typing DEF ChargingInv, WalletInv
<1>2. logs \in Seq(LogRow)
  BY DEF ChargingInv
<1>3. Len(logs) \in Nat /\ \A i \in 1..Len(logs) : logs[i] \in LogRow
  BY <1>2, LenProperties, ElementOfSeq
<1>4. \A i \in 1..Len(logs) : logs[i].hold \in Nat
  BY <1>3 DEF LogRow
<1>5. \A r \in Requests : requests[r] \in RequestRow
  BY DEF ChargingInv
<1>6. \A r \in Requests : requests[r].hold \in Nat
  BY <1>5 DEF RequestRow
<1> QED BY <1>1, <1>3, <1>4, <1>5, <1>6

\* What a request may say of its hold stays true, also when the sweep takes
\* the hold from it before settle.
LEMMA OwnStays ==
    ASSUME ChargingInv, NEW s \in Requests, requests'[s] = requests[s],
           Len(holds') \in Nat, Len(holds) <= Len(holds'),
           \/ requests[s].hold = 0
           \/ Frozen(requests[s].hold)
           \/ /\ holds[requests[s].hold].status = "ACTIVE"
              /\ holds'[requests[s].hold].status = "EXPIRED"
    PROVE  Own(requests[s])'
<1> DEFINE request == requests[s]
           h == request.hold
           status == request.status
           charge == IF request.success /\ request.billed THEN Stored(request.charge) ELSE 0
<1>1. h \in Nat /\ Len(holds) \in Nat /\ Own(request)
  BY RowTypes DEF ChargingInv, Owned
<1>2. h <= Len(holds')
  BY <1>1 DEF Own
<1>3. CASE h = 0
  BY <1>1, <1>2, <1>3 DEF Own
<1>4. CASE h # 0 /\ Frozen(h)
  <2>1. request.at = "log" => Outcome(h, status, charge)
    BY <1>1, <1>4 DEF Own
  <2>2. request.at \in {"call", "settle"} => holds'[h].status \in {"ACTIVE", "EXPIRED"}
    BY <1>1, <1>4 DEF Own, Frozen
  <2>3. request.at = "log" =>
           /\ holds'[h].status # "ACTIVE" /\ status # "UNBILLED"
           /\ status = "CHARGED" =>
                 /\ holds'[h].status = "FINALIZED"
                 /\ \A row \in ChargeRows(h)' : ledger'[row].amount = -charge
                 /\ charge # 0 => ChargeRows(h)' # {}
           /\ status # "CHARGED" => ChargeRows(h)' = {}
    BY <2>1, <1>4 DEF Outcome, Frozen
  <2> QED BY <1>1, <1>2, <2>2, <2>3 DEF Own, Outcome
<1>5. CASE /\ h # 0 /\ holds[h].status = "ACTIVE"
           /\ holds'[h].status = "EXPIRED"
  <2>1. request.at # "log"
    BY <1>1, <1>5 DEF Own, Outcome
  <2> QED BY <1>1, <1>2, <1>5, <2>1 DEF Own
<1> QED BY <1>3, <1>4, <1>5

\* The logs stay true as long as ended holds keep their story.
LEMMA LogsStay ==
    ASSUME ChargingInv, EndedStay, logs' = logs, Len(holds') \in Nat
    PROVE  LogsAreTrue'
<1> SUFFICES ASSUME NEW i \in 1..Len(logs), logs[i].hold # 0
             PROVE  /\ logs[i].hold <= Len(holds')
                    /\ Outcome(logs[i].hold, logs[i].status, logs[i].charge)'
                    /\ \A j \in 1..Len(logs) : logs[j].hold = logs[i].hold => i = j
  BY DEF LogsAreTrue
<1>1. /\ logs[i].hold <= Len(holds)
      /\ Outcome(logs[i].hold, logs[i].status, logs[i].charge)
      /\ \A j \in 1..Len(logs) : logs[j].hold = logs[i].hold => i = j
  BY DEF ChargingInv, LogsAreTrue
<1>2. logs[i].hold \in 1..Len(holds)
  BY <1>1, RowTypes
<1>3. Frozen(logs[i].hold) /\ Len(holds) <= Len(holds')
  BY <1>1, <1>2 DEF EndedStay, Outcome
<1>4. Outcome(logs[i].hold, logs[i].status, logs[i].charge)'
  <2> DEFINE h == logs[i].hold
             status == logs[i].status
             charge == logs[i].charge
  <2>1. Outcome(h, status, charge) /\ Frozen(h)
    BY <1>1, <1>3
  <2> QED BY <2>1 DEF Outcome, Frozen
<1> QED BY <1>1, <1>2, <1>3, <1>4, RowTypes

\* A step of one request: it turns into q, and whatever it does to the wallet
\* leaves the ended holds and the holds of the other requests alone.
LEMMA RequestStep ==
    ASSUME ChargingInv, NEW r \in Requests, NEW q \in RequestRow, Become(r, q),
           UNCHANGED <<policies, logs>>, WalletInv', EndedStay,
           \A s \in Requests \ {r} : requests[s].hold # 0 => Frozen(requests[s].hold),
           Own(requests[r])',
           q.hold \in {0, requests[r].hold} \/ q.hold = Len(holds) + 1
    PROVE  ChargingInv'
<1>1. /\ requests' \in [Requests -> RequestRow]
      /\ requests'[r] = q
      /\ \A s \in Requests \ {r} : requests'[s] = requests[s]
  BY DEF ChargingInv, Become
<1>2. Len(holds') \in Nat /\ Len(holds) \in Nat
  BY RowTypes, Typing DEF WalletInv
<1>3. LogsAreTrue'
  BY <1>2, LogsStay
<1>4. Owned'
  <2> SUFFICES ASSUME NEW s \in Requests PROVE Own(requests[s])'
    BY DEF Owned
  <2>1. CASE s = r
    BY <2>1
  <2>2. CASE s # r
    <3>1. requests[s].hold = 0 \/ Frozen(requests[s].hold)
      BY <2>2
    <3>2. requests'[s] = requests[s] /\ Len(holds) <= Len(holds')
      BY <2>2, <1>1 DEF EndedStay
    <3> QED BY <3>1, <3>2, <1>2, OwnStays
  <2> QED BY <2>1, <2>2
<1>5. Alone'
  <2> SUFFICES ASSUME NEW s \in Requests, requests'[s].hold # 0
               PROVE  /\ \A t \in Requests \ {s} : requests'[t].hold # requests'[s].hold
                      /\ \A i \in 1..Len(logs) : logs[i].hold # requests'[s].hold
    BY DEF Alone
  <2>1. \A t \in Requests : requests[t].hold <= Len(holds) /\ requests[t].hold \in Nat
    BY RowTypes DEF ChargingInv, Owned, Own
  <2>2. \A i \in 1..Len(logs) : logs[i].hold \in Nat /\ logs[i].hold <= Len(holds)
    BY <1>2, RowTypes DEF ChargingInv, LogsAreTrue
  <2>3. \A t \in Requests : requests[t].hold # Len(holds) + 1
    BY <2>1, <1>2
  <2>4. \A i \in 1..Len(logs) : logs[i].hold # Len(holds) + 1
    BY <2>2, <1>2
  <2> QED BY <2>3, <2>4, <1>1 DEF ChargingInv, Alone
<1> QED BY <1>1, <1>3, <1>4, <1>5 DEF ChargingInv

\* A step of no request: time, the sweep, an administrator.
LEMMA BackgroundStep ==
    ASSUME ChargingInv, WalletInv', UNCHANGED <<requests, logs>>,
           policies' \in PolicyTable, Len(holds) <= Len(holds'),
           \A h \in 1..Len(holds) :
              \/ Frozen(h)
              \/ holds[h].status = "ACTIVE" /\ holds'[h].status = "EXPIRED"
    PROVE  ChargingInv'
<1>1. Len(holds') \in Nat /\ Len(holds) \in Nat
  BY RowTypes, Typing DEF WalletInv
<1>2. EndedStay
  BY DEF EndedStay
<1>3. LogsAreTrue'
  BY <1>1, <1>2, LogsStay
<1>4. Owned'
  <2> SUFFICES ASSUME NEW s \in Requests PROVE Own(requests[s])'
    BY DEF Owned
  <2>1. requests[s].hold = 0 \/ requests[s].hold \in 1..Len(holds)
    BY RowTypes DEF ChargingInv, Owned, Own
  <2> QED BY <2>1, <1>1, OwnStays
<1>5. Alone'
  BY DEF ChargingInv, Alone
<1> QED BY <1>3, <1>4, <1>5 DEF ChargingInv

\* A step that leaves the wallet alone freezes every hold.
LEMMA WalletUntouched ==
    ASSUME ChargingInv, UNCHANGED walletVars
    PROVE  /\ WalletInv' /\ EndedStay
           /\ Len(holds) \in Nat /\ Len(holds') = Len(holds)
           /\ \A h : Frozen(h)
<1>1. WalletInv'
  BY StepInv DEF ChargingInv
<1>2. holds' = holds /\ ledger' = ledger
  BY DEF walletVars
<1>3. \A h : Frozen(h)
  BY <1>2, NoRowNoCharge DEF Frozen
<1>4. Len(holds) \in Nat
  BY RowTypes
<1> QED BY <1>1, <1>2, <1>3, <1>4 DEF EndedStay

\* A step of one request that leaves the wallet alone and takes no hold.
LEMMA QuietRequestStep ==
    ASSUME ChargingInv, NEW r \in Requests, NEW q \in RequestRow, Become(r, q),
           UNCHANGED <<walletVars, policies, logs>>,
           q.hold = 0 \/ q.hold = requests[r].hold, Own(q)
    PROVE  ChargingInv'
<1>1. WalletInv' /\ EndedStay /\ \A h : Frozen(h)
  BY WalletUntouched
<1>2. Own(requests[r])'
  <2>1. holds' = holds /\ ledger' = ledger /\ requests'[r] = q
    BY DEF walletVars, ChargingInv, Become
  <2> QED BY <2>1 DEF Own, Outcome, ChargeRows
<1>3. q.hold \in {0, requests[r].hold} \/ q.hold = Len(holds) + 1
  OBVIOUS
<1> QED BY <1>1, <1>2, <1>3, RequestStep

\* A request that is over holds nothing.
LEMMA IdleOwnsNothing ==
    ASSUME ChargingInv
    PROVE  /\ IdleRequest \in RequestRow /\ IdleRequest.hold = 0 /\ Own(IdleRequest)
           /\ IdleRequest.at = "idle" /\ ~IdleRequest.billed
  BY RowTypes DEF IdleRequest, RequestRow, Places, BillingStatuses, Own

\* Goto moves a request to another place.
LEMMA GotoBecomes ==
    ASSUME ChargingInv, NEW r \in Requests, NEW place \in Places, Goto(r, place)
    PROVE  /\ Become(r, [requests[r] EXCEPT !.at = place])
           /\ [requests[r] EXCEPT !.at = place] \in RequestRow
<1>1. requests[r] \in RequestRow
  BY RowTypes
<1> QED BY <1>1 DEF Goto, Become, RequestRow

-----------------------------------------------------------------------------
(* The actions.                                                            *)

\* End, Abandon: the request is over.
LEMMA EndStep ==
    ASSUME ChargingInv, NEW r \in Requests, End(r),
           UNCHANGED <<walletVars, policies, logs>>
    PROVE  ChargingInv'
  BY IdleOwnsNothing, QuietRequestStep DEF End

\* Some place of three that qualifies is the first.
LEMMA FirstOfThree ==
    ASSUME NEW S \in SUBSET (1..3), 3 \in S
    PROVE  \E i \in 1..3 : i \in S /\ \A m \in 1..(i - 1) : m \notin S
<1>1. CASE 1 \in S
  BY <1>1
<1>2. CASE 1 \notin S /\ 2 \in S
  <2>1. \A m \in 1..(2 - 1) : m = 1
    OBVIOUS
  <2> QED BY <1>2, <2>1
<1>3. CASE 1 \notin S /\ 2 \notin S
  <2>1. \A m \in 1..(3 - 1) : m = 1 \/ m = 2
    OBVIOUS
  <2> QED BY <1>3, <2>1
<1> QED BY <1>1, <1>2, <1>3

\* A row of the chain that has a limit always exists: the plan's.
LEMMA LimitsRead ==
    ASSUME policies \in PolicyTable, NEW u \in Callers
    PROVE  /\ EffectiveLimit(u) \in Limits
           /\ EffectiveMaxSpend(u) \in Nat /\ EffectiveMaxSpend(u) \in SpendLimits
<1>1. \A i \in 1..3 : Chain(u)[i] \in TenantRows \cup UserRows \cup {PlanRow, NoRow}
  BY DEF Chain, PolicyTable, Callers
<1>2. Chain(u)[3] = PlanRow
  BY DEF Chain, PolicyTable
<1>3. TenantRows \cup UserRows \cup {PlanRow} \subseteq PolicyRows
  BY ChargingAssumption
<1>4. EffectiveLimit(u) \in Limits
  <2> DEFINE first(i) == /\ Chain(u)[i].limit # NoLimit
                         /\ \A m \in 1..(i - 1) : ~(Chain(u)[m].limit # NoLimit)
  <2>1. Chain(u)[3].limit # NoLimit
    BY <1>2, ChargingAssumption
  <2>2. \E i \in 1..3 : first(i)
    <3> DEFINE S == {i \in 1..3 : Chain(u)[i].limit # NoLimit}
    <3>1. \E i \in 1..3 : i \in S /\ \A m \in 1..(i - 1) : m \notin S
      BY <2>1, FirstOfThree
    <3>2. PICK i \in 1..3 : i \in S /\ \A m \in 1..(i - 1) : m \notin S
      BY <3>1
    <3>3. \A m \in 1..(i - 1) : m \in 1..3
      OBVIOUS
    <3> QED BY <3>2, <3>3
  <2>3. PICK i \in 1..3 : i = (CHOOSE k \in 1..3 : first(k)) /\ first(i)
    BY <2>2
  <2>4. EffectiveLimit(u) = Chain(u)[i].limit
    BY <2>3 DEF EffectiveLimit, FirstWith
  <2>5. Chain(u)[i] # NoRow
    BY <2>3 DEF NoRow
  <2> QED BY <1>1, <2>3, <2>4, <2>5 DEF Limits
<1>5. EffectiveMaxSpend(u) \in Nat /\ EffectiveMaxSpend(u) \in SpendLimits
  <2> DEFINE first(i) == /\ Chain(u)[i].maxSpend # NoLimit
                         /\ \A m \in 1..(i - 1) : ~(Chain(u)[m].maxSpend # NoLimit)
  <2>1. Chain(u)[3].maxSpend # NoLimit
    BY <1>2, ChargingAssumption
  <2>2. \E i \in 1..3 : first(i)
    <3> DEFINE S == {i \in 1..3 : Chain(u)[i].maxSpend # NoLimit}
    <3>1. \E i \in 1..3 : i \in S /\ \A m \in 1..(i - 1) : m \notin S
      BY <2>1, FirstOfThree
    <3>2. PICK i \in 1..3 : i \in S /\ \A m \in 1..(i - 1) : m \notin S
      BY <3>1
    <3>3. \A m \in 1..(i - 1) : m \in 1..3
      OBVIOUS
    <3> QED BY <3>2, <3>3
  <2>3. PICK i \in 1..3 : i = (CHOOSE k \in 1..3 : first(k)) /\ first(i)
    BY <2>2
  <2>4. EffectiveMaxSpend(u) = Chain(u)[i].maxSpend
    BY <2>3 DEF EffectiveMaxSpend, FirstWith
  <2>5. Chain(u)[i] # NoRow
    BY <2>3 DEF NoRow
  <2> QED BY <1>1, <1>3, <2>3, <2>4, <2>5 DEF PolicyRows, SpendLimits
<1> QED BY <1>4, <1>5

\* prepare, up to the hold.
LEMMA PrepareStep ==
    ASSUME ChargingInv, NEW r \in Requests,
           \/ PrepareUnbilled(r)
           \/ \E estimate \in HoldAmounts : ReadPolicy(r, estimate)
           \/ AssertAccess(r)
    PROVE  ChargingInv'
<1>1. requests[r] \in RequestRow /\ Own(requests[r])
  BY RowTypes DEF ChargingInv, Owned
<1>2. CASE PrepareUnbilled(r)
  <2> DEFINE q == [requests[r] EXCEPT !.at = "call"]
  <2>1. /\ requests[r] = IdleRequest
        /\ Become(r, q) /\ q \in RequestRow
    BY <1>2, GotoBecomes DEF PrepareUnbilled, Places
  <2>2. q.hold = 0 /\ ~q.billed /\ q.at = "call"
    BY <2>1 DEF IdleRequest
  <2>3. Own(q)
    BY <2>2, RowTypes DEF Own
  <2> HIDE DEF q
  <2> QED BY <2>1, <2>2, <2>3, <1>2, QuietRequestStep DEF PrepareUnbilled
<1>3. ASSUME NEW estimate \in HoldAmounts, ReadPolicy(r, estimate) PROVE ChargingInv'
  <2> DEFINE q == [IdleRequest EXCEPT !.at = "usage", !.billed = TRUE,
                       !.estimate = estimate, !.limit = EffectiveLimit(UserOf[r]),
                       !.maxSpend = EffectiveMaxSpend(UserOf[r])]
  <2>1. Become(r, q) /\ UNCHANGED <<walletVars, policies, logs>>
    BY <1>3 DEF ReadPolicy
  <2>2. /\ EffectiveLimit(UserOf[r]) \in Nat \cup {NoLimit}
        /\ EffectiveMaxSpend(UserOf[r]) \in Nat \cup {NoLimit}
    <3>1. UserOf[r] \in Callers
      BY ChargingAssumption DEF Callers
    <3> QED BY <3>1, LimitsRead, ChargingAssumption
            DEF ChargingInv, Limits, PolicyRows
  <2>3. q \in RequestRow /\ q.hold = 0 /\ q.at = "usage" /\ q.billed
    BY <2>2 DEF IdleRequest, RequestRow, Places, BillingStatuses
  <2>4. Own(q)
    BY <2>3, RowTypes DEF Own
  <2> HIDE DEF q
  <2> QED BY <2>1, <2>3, <2>4, QuietRequestStep
<1>4. CASE AssertAccess(r)
  <2>1. CASE End(r)
    BY <1>4, <2>1, EndStep DEF AssertAccess
  <2>2. CASE Goto(r, "reserve")
    <3> DEFINE q == [requests[r] EXCEPT !.at = "reserve"]
    <3>1. Become(r, q) /\ q \in RequestRow /\ requests[r].at = "usage"
      BY <1>4, <2>2, GotoBecomes DEF AssertAccess, Places
    <3>2. q.hold = requests[r].hold /\ q.at = "reserve" /\ q.billed = requests[r].billed
      BY <1>1 DEF RequestRow
    <3>3. requests[r].hold = 0 /\ requests[r].billed
      BY <3>1, <1>1 DEF Own
    <3>4. Own(q)
      BY <3>2, <3>3, RowTypes DEF Own
    <3> HIDE DEF q
    <3> QED BY <3>1, <3>2, <3>4, <1>4, QuietRequestStep DEF AssertAccess
  <2> QED BY <2>1, <2>2, <1>4 DEF AssertAccess
<1> QED BY <1>2, <1>3, <1>4

\* The hold: a new one, of this request alone.
LEMMA ReserveStep ==
    ASSUME ChargingInv, NEW r \in Requests, Reserve(r)
    PROVE  ChargingInv'
<1> DEFINE n == Len(holds) + 1
           q == [requests[r] EXCEPT !.at = "call", !.hold = n]
<1>1. /\ requests[r].at = "reserve" /\ ReserveCredits(requests[r].estimate)
      /\ Become(r, q) /\ UNCHANGED <<policies, logs>>
  BY DEF Reserve
<1>2. /\ requests[r] \in RequestRow /\ Own(requests[r])
      /\ WalletInv /\ Len(holds) \in Nat
  BY RowTypes DEF ChargingInv, Owned
<1>3. requests[r].estimate \in Nat
  <2>1. HoldAmounts \cup {0} \subseteq Nat
    BY AmountsAssumption
  <2>2. requests[r].estimate \in HoldAmounts \cup {0}
    BY <1>2 DEF RequestRow
  <2> QED BY <2>1, <2>2
<1>4. WalletInv'
  BY <1>1, <1>2, <1>3, ReservePreserves
<1>5. /\ Len(holds') = n /\ holds'[n].status = "ACTIVE"
      /\ \A h \in 1..Len(holds) : Frozen(h)
  BY <1>1, <1>2, <1>3, ReserveFrame
<1>6. EndedStay
  BY <1>2, <1>5 DEF EndedStay
<1>7. \A s \in Requests : requests[s].hold # 0 => Frozen(requests[s].hold)
  <2>1. \A s \in Requests : requests[s].hold <= Len(holds) /\ requests[s].hold \in Nat
    BY RowTypes DEF ChargingInv, Owned, Own
  <2> QED BY <2>1, <1>5
<1>8. n \in Nat \ {0} /\ n <= Len(holds')
  BY <1>2, <1>5
<1> HIDE DEF n
<1>9. q \in RequestRow /\ q.at = "call" /\ q.hold = n /\ q.billed = requests[r].billed
  BY <1>2, <1>8 DEF RequestRow, Places
<1> HIDE DEF q
<1>10. Own(requests[r])'
  <2>1. requests[r].billed
    BY <1>1, <1>2 DEF Own
  <2>2. requests'[r] = q
    BY <1>1 DEF ChargingInv, Become
  <2> QED BY <2>1, <2>2, <1>5, <1>8, <1>9 DEF Own
<1> QED BY <1>1, <1>4, <1>6, <1>7, <1>9, <1>10, RequestStep DEF n

\* The provider call.
LEMMA ProviderStep ==
    ASSUME ChargingInv, NEW r \in Requests,
           \/ \E charge \in Charges : ProviderAnswers(r, charge)
           \/ ProviderFails(r)
    PROVE  ChargingInv'
<1>1. requests[r] \in RequestRow /\ Own(requests[r]) /\ requests[r].at = "call"
  BY RowTypes DEF ChargingInv, Owned, ProviderAnswers, ProviderFails
<1>2. ASSUME NEW q \in RequestRow, q.at = "settle", q.hold = requests[r].hold,
             q.billed = requests[r].billed
      PROVE  Own(q)
  BY <1>1, <1>2 DEF Own
<1>3. ASSUME NEW charge \in Charges, ProviderAnswers(r, charge) PROVE ChargingInv'
  <2> DEFINE q == [requests[r] EXCEPT !.at = "settle", !.success = TRUE,
                                      !.charge = charge]
  <2>1. Become(r, q) /\ UNCHANGED <<walletVars, policies, logs>>
    BY <1>3 DEF ProviderAnswers
  <2>2. /\ q \in RequestRow /\ q.at = "settle" /\ q.hold = requests[r].hold
        /\ q.billed = requests[r].billed
    BY <1>1 DEF RequestRow, Places
  <2> HIDE DEF q
  <2> QED BY <2>1, <2>2, <1>2, QuietRequestStep
<1>4. CASE ProviderFails(r)
  <2> DEFINE q == [requests[r] EXCEPT !.at = "settle"]
  <2>1. /\ Become(r, q) /\ q \in RequestRow
        /\ UNCHANGED <<walletVars, policies, logs>>
    BY <1>4, GotoBecomes DEF ProviderFails, Places
  <2>2. /\ q.at = "settle" /\ q.hold = requests[r].hold
        /\ q.billed = requests[r].billed
    BY <1>1 DEF RequestRow
  <2> HIDE DEF q
  <2> QED BY <2>1, <2>2, <1>2, QuietRequestStep
<1> QED BY <1>3, <1>4

\* Settle, whatever it did to the hold, goes on to log the outcome.
LEMMA LogNextRow ==
    ASSUME ChargingInv, NEW r \in Requests, NEW status \in BillingStatuses,
           LogNext(r, status)
    PROVE  /\ Become(r, [requests[r] EXCEPT !.at = "log", !.status = status])
           /\ [requests[r] EXCEPT !.at = "log", !.status = status] \in RequestRow
           /\ [requests[r] EXCEPT !.at = "log", !.status = status].hold = requests[r].hold
           /\ requests'[r].at = "log" /\ requests'[r].status = status
           /\ requests'[r].hold = requests[r].hold
           /\ requests'[r].billed = requests[r].billed
           /\ requests'[r].success = requests[r].success
           /\ requests'[r].charge = requests[r].charge
<1>1. requests[r] \in RequestRow
  BY RowTypes
<1>2. [requests[r] EXCEPT !.at = "log", !.status = status] \in RequestRow
  BY <1>1 DEF RequestRow, Places
<1>3. requests'[r] = [requests[r] EXCEPT !.at = "log", !.status = status]
  BY DEF ChargingInv, LogNext, Become
<1> QED BY <1>1, <1>2, <1>3 DEF LogNext, RequestRow

\* Settle ends or keeps the hold of its own request only.
LEMMA SettledStep ==
    ASSUME ChargingInv, NEW r \in Requests, NEW status \in BillingStatuses,
           LogNext(r, status), UNCHANGED <<policies, logs>>, WalletInv',
           Len(holds') = Len(holds),
           \A h \in 1..Len(holds) :
              h # requests[r].hold \/ holds[h].status # "ACTIVE" => Frozen(h),
           Own(requests[r])'
    PROVE  ChargingInv'
<1> DEFINE q == [requests[r] EXCEPT !.at = "log", !.status = status]
<1>1. Become(r, q) /\ q \in RequestRow /\ q.hold = requests[r].hold
  BY LogNextRow
<1>2. EndedStay
  BY RowTypes DEF EndedStay
<1>3. ASSUME NEW s \in Requests \ {r}, requests[s].hold # 0
      PROVE  Frozen(requests[s].hold)
  <2>1. requests[s].hold \in 1..Len(holds)
    BY <1>3, RowTypes DEF ChargingInv, Owned, Own
  <2>2. requests[s].hold # requests[r].hold
    BY <1>3 DEF ChargingInv, Alone
  <2> QED BY <2>1, <2>2
<1> HIDE DEF q
<1> QED BY <1>1, <1>2, <1>3, RequestStep

LEMMA SettleStep ==
    ASSUME ChargingInv, NEW r \in Requests,
           SettleCharged(r) \/ SettleFailed(r) \/ SettleUnbilled(r)
    PROVE  ChargingInv'
<1>1. /\ requests[r] \in RequestRow /\ Own(requests[r]) /\ requests[r].at = "settle"
      /\ WalletInv /\ Len(holds) \in Nat
  BY RowTypes DEF ChargingInv, Owned, SettleCharged, SettleFailed, SettleUnbilled
<1>2. CASE requests[r].billed
  <2>1. requests[r].hold \in 1..Len(holds)
    BY <1>1, <1>2 DEF Own, RequestRow
  <2>2. PICK h \in 1..Len(holds) : h = requests[r].hold
    BY <2>1
  <2>3. holds[h].status \in {"ACTIVE", "EXPIRED"}
    BY <1>1, <2>2 DEF Own
  <2>4. CASE SettleCharged(r)
    <3>1. /\ requests[r].success
          /\ FinalizeReservation(requests[r].hold, requests[r].charge)
          /\ LogNext(r, "CHARGED") /\ UNCHANGED <<policies, logs>>
      BY <2>4 DEF SettleCharged
    <3>2. requests[r].charge \in Nat
      <4>1. Charges \cup {0} \subseteq Nat
        BY AmountsAssumption
      <4> QED BY <4>1, <1>1 DEF RequestRow
    <3>3. PICK charge \in Nat : charge = requests[r].charge
      BY <3>2
    <3>4. FinalizeReservation(h, charge)
      BY <3>1, <3>3, <2>2
    <3>5. WalletInv'
      <4>1. CASE charge = 0 /\ FinalizeForFree(h)
        BY <1>1, <4>1, EndPreserves DEF FinalizeForFree, HoldStatuses
      <4>2. CASE charge > 0 /\ FinalizeWithCharge(h, charge)
        BY <1>1, <4>2, ChargePreserves
      <4> QED BY <3>4, <4>1, <4>2 DEF FinalizeReservation
    <3>6. /\ holds[h].status = "ACTIVE" /\ holds'[h].status = "FINALIZED"
          /\ Len(holds') = Len(holds)
          /\ \A k \in 1..Len(holds) : k # h => Frozen(k)
          /\ \A row \in ChargeRows(h)' : ledger'[row].amount = -Stored(charge)
          /\ Stored(charge) # 0 => ChargeRows(h)' # {}
      BY <1>1, <3>4, FinalizeFrame
    <3>7. /\ requests'[r].at = "log" /\ requests'[r].status = "CHARGED"
          /\ requests'[r].hold = h /\ requests'[r].billed
          /\ requests'[r].success /\ requests'[r].charge = charge
      BY <3>1, <3>3, <2>2, <1>2, LogNextRow DEF BillingStatuses
    <3>8. Own(requests[r])'
      BY <1>1, <3>6, <3>7 DEF Own, Outcome
    <3> QED BY <3>1, <3>5, <3>6, <3>8, <2>2, SettledStep DEF BillingStatuses
  <2>5. CASE SettleFailed(r)
    <3>1. /\ LogNext(r, "FAILED") /\ UNCHANGED <<policies, logs>>
          /\ \/ ReleaseReservation(requests[r].hold, "RELEASED")
             \/ holds[requests[r].hold].status # "ACTIVE" /\ UNCHANGED walletVars
      BY <2>5 DEF SettleFailed
    <3>2. /\ WalletInv' /\ Len(holds') = Len(holds)
          /\ \A k \in 1..Len(holds) : k # h \/ holds[k].status # "ACTIVE" => Frozen(k)
          /\ holds'[h].status # "ACTIVE" /\ ChargeRows(h)' = {}
      <4>1. CASE ReleaseReservation(h, "RELEASED")
        <5>1. WalletInv'
          BY <1>1, <4>1, EndPreserves DEF ReleaseReservation, HoldStatuses
        <5> QED BY <5>1, <1>1, <4>1, EndFrame DEF HoldStatuses
      <4>2. CASE holds[h].status # "ACTIVE" /\ UNCHANGED walletVars
        <5>1. ChargeRows(h) = {}
          BY <1>1, <2>3, ActiveUncharged
        <5> QED BY <5>1, <4>2, WalletUntouched DEF Frozen
      <4> QED BY <3>1, <2>2, <4>1, <4>2
    <3>3. /\ requests'[r].at = "log" /\ requests'[r].status = "FAILED"
          /\ requests'[r].hold = h /\ requests'[r].billed
      BY <3>1, <2>2, <1>2, LogNextRow DEF BillingStatuses
    <3>4. Own(requests[r])'
      BY <1>1, <3>2, <3>3 DEF Own, Outcome
    <3> QED BY <3>1, <3>2, <3>4, <2>2, SettledStep DEF BillingStatuses
  <2>6. ~SettleUnbilled(r)
    BY <1>2 DEF SettleUnbilled
  <2> QED BY <2>4, <2>5, <2>6
<1>3. CASE ~requests[r].billed
  <2>1. PICK status \in BillingStatuses :
          LogNext(r, status) /\ UNCHANGED <<walletVars, policies, logs>>
    BY <1>3 DEF SettleCharged, SettleFailed, SettleUnbilled, BillingStatuses
  <2>2. /\ WalletInv' /\ Len(holds') = Len(holds)
        /\ \A h \in 1..Len(holds) : Frozen(h)
    BY <2>1, WalletUntouched
  <2>3. requests[r].hold = 0
    BY <1>1, <1>3 DEF Own
  <2>4. requests'[r].at = "log" /\ requests'[r].hold = 0 /\ ~requests'[r].billed
    BY <2>1, <2>3, <1>3, LogNextRow
  <2>5. Own(requests[r])'
    BY <2>2, <2>4, <1>1 DEF Own
  <2> QED BY <2>1, <2>2, <2>5, SettledStep
<1> QED BY <1>2, <1>3

\* The usage log takes over what the request knew of its hold.
LEMMA UsageLogStep ==
    ASSUME ChargingInv, NEW r \in Requests, WriteUsageLog(r)
    PROVE  ChargingInv'
<1> DEFINE n == Len(logs)
           h == requests[r].hold
           charge == IF requests[r].success /\ requests[r].billed
                     THEN Stored(requests[r].charge) ELSE 0
           log == [user |-> UserOf[r], hold |-> h, status |-> requests[r].status,
                   charge |-> charge]
<1>1. /\ requests[r].at = "log" /\ logs' = Append(logs, log) /\ End(r)
      /\ UNCHANGED <<walletVars, policies>>
  BY DEF WriteUsageLog
<1>2. requests[r] \in RequestRow /\ Own(requests[r]) /\ h \in Nat /\ Len(holds) \in Nat
  BY RowTypes DEF ChargingInv, Owned
<1>3. charge \in Nat
  <2>1. Charges \cup {0} \subseteq Nat
    BY AmountsAssumption
  <2>2. requests[r].charge \in Nat
    BY <1>2, <2>1 DEF RequestRow
  <2> QED BY <2>2, StoredNat
<1>4. h # 0 => Outcome(h, requests[r].status, charge)
  BY <1>1, <1>2 DEF Own
<1> HIDE DEF charge
<1>5. /\ log \in LogRow /\ log.hold = h /\ log.status = requests[r].status
      /\ log.charge = charge
  BY <1>2, <1>3, ChargingAssumption DEF LogRow, RequestRow, Callers
<1>6. logs \in Seq(LogRow)
  BY DEF ChargingInv
<1> HIDE DEF log
<1>7. /\ logs' \in Seq(LogRow) /\ n \in Nat /\ Len(logs') = n + 1
      /\ \A i \in 1..n : logs'[i] = logs[i]
      /\ logs'[n + 1] = log
  BY <1>1, <1>5, <1>6, AppendProperties, LenProperties
<1>8. /\ WalletInv' /\ holds' = holds /\ ledger' = ledger
  BY <1>1, WalletUntouched DEF walletVars
<1>9. /\ requests' \in [Requests -> RequestRow]
      /\ requests'[r] = IdleRequest
      /\ \A s \in Requests \ {r} : requests'[s] = requests[s]
  BY <1>1, IdleOwnsNothing DEF ChargingInv, End, Become
<1>10. \A i : i \in 1..Len(logs') <=> i \in 1..n \/ i = n + 1
  BY <1>7
<1>11. Owned'
  <2> SUFFICES ASSUME NEW s \in Requests PROVE Own(requests[s])'
    BY DEF Owned
  <2>1. CASE s = r
    BY <2>1, <1>8, <1>9, IdleOwnsNothing DEF Own, Outcome, ChargeRows
  <2>2. CASE s # r
    <3>1. requests'[s] = requests[s] /\ Own(requests[s])
      BY <2>2, <1>9 DEF ChargingInv, Owned
    <3> QED BY <3>1, <1>8 DEF Own, Outcome, ChargeRows
  <2> QED BY <2>1, <2>2
<1>12. Alone'
  <2> SUFFICES ASSUME NEW s \in Requests, requests'[s].hold # 0
               PROVE  /\ \A t \in Requests \ {s} : requests'[t].hold # requests'[s].hold
                      /\ \A i \in 1..Len(logs') : logs'[i].hold # requests'[s].hold
    BY DEF Alone
  <2>1. s # r /\ requests[s].hold # 0 /\ requests'[s] = requests[s]
    BY <1>9, IdleOwnsNothing
  <2>2. /\ \A t \in Requests \ {s} : requests[t].hold # requests[s].hold
        /\ \A i \in 1..n : logs[i].hold # requests[s].hold
    BY <2>1 DEF ChargingInv, Alone
  <2>3. \A t \in Requests \ {s} : requests'[t].hold # requests'[s].hold
    BY <2>1, <2>2, <1>9, IdleOwnsNothing
  <2>4. logs'[n + 1].hold # requests[s].hold
    BY <2>1, <2>2, <1>5, <1>7
  <2> QED BY <2>1, <2>2, <2>3, <2>4, <1>7, <1>10
<1>13. LogsAreTrue'
  <2> SUFFICES ASSUME NEW i \in 1..Len(logs'), logs'[i].hold # 0
               PROVE  /\ logs'[i].hold <= Len(holds)
                      /\ Outcome(logs[i].hold, logs[i].status, logs[i].charge)'
                      /\ \A j \in 1..Len(logs') : logs'[j].hold = logs'[i].hold => i = j
    BY <1>8 DEF LogsAreTrue
  <2>1. CASE i = n + 1
    <3>1. logs'[i] = log
      BY <2>1, <1>7
    <3>2. h # 0 /\ h <= Len(holds)
      BY <3>1, <1>2, <1>5 DEF Own
    <3>3. Outcome(h, requests[r].status, charge)
      BY <3>2, <1>4
    <3>4. Outcome(logs[i].hold, logs[i].status, logs[i].charge)'
      BY <3>1, <3>3, <1>5, <1>8 DEF Outcome, ChargeRows
    <3>5. \A j \in 1..n : logs[j].hold # h
      BY <3>2 DEF ChargingInv, Alone
    <3>6. \A j \in 1..Len(logs') : logs'[j].hold = h => j = n + 1
      BY <3>5, <1>7, <1>10
    <3> QED BY <2>1, <3>1, <3>2, <3>4, <3>6, <1>5
  <2>2. CASE i # n + 1
    <3>1. i \in 1..n /\ logs'[i] = logs[i]
      BY <2>2, <1>7, <1>10
    <3>2. /\ logs[i].hold <= Len(holds)
          /\ Outcome(logs[i].hold, logs[i].status, logs[i].charge)
          /\ \A j \in 1..n : logs[j].hold = logs[i].hold => i = j
      BY <3>1 DEF ChargingInv, LogsAreTrue
    <3>3. Outcome(logs[i].hold, logs[i].status, logs[i].charge)'
      BY <3>1, <3>2, <1>8 DEF Outcome, ChargeRows
    <3>4. log.hold # logs[i].hold
      BY <3>1, <1>5 DEF ChargingInv, Alone
    <3>5. \A j \in 1..Len(logs') : logs'[j].hold = logs'[i].hold => i = j
      BY <3>1, <3>2, <3>4, <1>7, <1>10
    <3> QED BY <3>1, <3>2, <3>3, <3>5
  <2> QED BY <2>1, <2>2
<1> QED BY <1>1, <1>7, <1>8, <1>9, <1>11, <1>12, <1>13 DEF ChargingInv

\* Time, the sweep and the administrator.
LEMMA AroundStep ==
    ASSUME ChargingInv,
           \/ \E h \in 1..Len(holds) : HoldAges(h) \/ Sweep(h)
           \/ ChangePolicy
           \/ UNCHANGED vars
    PROVE  ChargingInv'
<1>1. WalletInv /\ Len(holds) \in Nat /\ policies \in PolicyTable
  BY RowTypes DEF ChargingInv
<1>2. ASSUME NEW h \in 1..Len(holds), HoldAges(h) PROVE ChargingInv'
  <2>1. TtlPasses(h) /\ UNCHANGED <<policies, requests, logs>>
    BY <1>2 DEF HoldAges
  <2>2. WalletInv'
    BY <2>1, <1>1, TtlPreserves
  <2> QED BY <2>1, <2>2, <1>1, TtlFrame, BackgroundStep
<1>3. ASSUME NEW h \in 1..Len(holds), Sweep(h) PROVE ChargingInv'
  <2>1. ReleaseReservation(h, "EXPIRED") /\ UNCHANGED <<policies, requests, logs>>
    BY <1>3 DEF Sweep, ExpireStaleReservation
  <2>2. WalletInv'
    BY <2>1, <1>1, EndPreserves DEF ReleaseReservation, HoldStatuses
  <2>3. /\ holds[h].status = "ACTIVE" /\ holds'[h].status = "EXPIRED"
        /\ Len(holds') = Len(holds)
        /\ \A k \in 1..Len(holds) : k # h => Frozen(k)
    BY <2>1, <1>1, EndFrame DEF HoldStatuses
  <2> QED BY <2>1, <2>2, <2>3, <1>1, BackgroundStep
<1>4. CASE ChangePolicy
  <2>1. policies' \in PolicyTable
    BY <1>4, <1>1 DEF ChangePolicy, PolicyTable
  <2> QED BY <1>4, <2>1, WalletUntouched, BackgroundStep DEF ChangePolicy
<1>5. CASE UNCHANGED vars
  <2>1. UNCHANGED <<walletVars, policies, requests, logs>>
    BY <1>5 DEF vars
  <2> QED BY <2>1, <1>1, WalletUntouched, BackgroundStep
<1> QED BY <1>2, <1>3, <1>4, <1>5

LEMMA ChargingStepInv == ChargingInv /\ [ChargingNext]_vars => ChargingInv'
<1> SUFFICES ASSUME ChargingInv, [ChargingNext]_vars PROVE ChargingInv'
  OBVIOUS
<1>1. ASSUME NEW r \in Requests, Abandon(r) PROVE ChargingInv'
  BY <1>1, EndStep DEF Abandon
<1> QED BY <1>1, PrepareStep, ReserveStep, ProviderStep, SettleStep, UsageLogStep,
           AroundStep DEF ChargingNext

-----------------------------------------------------------------------------
(* The initial state: a wallet with one purchase.                          *)

LEMMA ChargingInitInv == ChargingInit => ChargingInv
<1> SUFFICES ASSUME ChargingInit PROVE ChargingInv
  OBVIOUS
<1> DEFINE amount == Exact(Credit)
           row == LedgerRow(NewWallet, "PURCHASE", amount, 0)
<1>1. /\ wallet = Applied(NewWallet, "PURCHASE", amount)
      /\ holds = <<>> /\ ledger = <<row>> /\ logs = <<>>
      /\ policies = [user |-> [u \in Users |-> NoRow], tenant |-> NoRow, plan |-> PlanRow]
      /\ requests = [r \in Requests |-> IdleRequest]
  BY DEF ChargingInit
<1>2. amount \in Nat /\ Exact(0) + amount \in Nat
  <2>1. Credit \in Nat
    BY ChargingAssumption
  <2>2. Exact(Credit) \in Nat /\ Exact(0) \in Nat
    BY <2>1, ExactNat
  <2> QED BY <2>2
<1>3. NewWallet \in WalletRow /\ NewWallet.balance = 0 /\ NewWallet.reserved = 0
  BY DEF NewWallet, WalletRow, WalletStatuses
<1>4. "PURCHASE" \in LedgerTypes
  BY DEF LedgerTypes
<1> HIDE DEF amount
<1>5. /\ wallet \in WalletRow /\ wallet.balance = Stored(Exact(0) + amount)
      /\ wallet.reserved = 0
  BY <1>1, <1>2, <1>3, <1>4, AppliedRow
<1>6. /\ row \in LedgerEntry /\ row.type = "PURCHASE" /\ row.before = 0
      /\ row.after = Stored(Exact(0) + amount)
  BY <1>2, <1>3, <1>4, LedgerRowFields
<1> HIDE DEF row
<1>7. /\ Len(ledger) = 1 /\ ledger[1] = row /\ ledger \in Seq(LedgerEntry)
      /\ Len(holds) = 0 /\ holds \in Seq(Hold)
      /\ Len(logs) = 0 /\ logs \in Seq(LogRow)
  BY <1>1, <1>6, EmptySeq
<1>8. \A i \in 1..Len(ledger) : i = 1
  BY <1>7
<1>9. TypeOK
  BY <1>5, <1>7 DEF TypeOK
<1>10. ReservedIsHeld
  BY <1>5, <1>7, TotalZero DEF ReservedIsHeld, HeldTotal
<1>11. LedgerChains
  BY <1>1, <1>5, <1>6, <1>7, <1>8 DEF LedgerChains
<1>12. OneChargePerHold
  BY <1>6, <1>7, <1>8 DEF OneChargePerHold
<1>13. OverspendHasACause
  <2>1. wallet.balance \in Nat
    BY <1>2, <1>5, StoredNat
  <2> QED BY <2>1, <1>5 DEF OverspendHasACause
<1>14. WalletInv
  BY <1>9, <1>10, <1>11, <1>12, <1>13 DEF WalletInv
<1>15. policies \in PolicyTable
  BY <1>1 DEF PolicyTable
<1>16. /\ requests \in [Requests -> RequestRow]
       /\ \A r \in Requests : requests[r] = IdleRequest
  BY <1>1 DEF IdleRequest, RequestRow, Places, BillingStatuses
<1>17. Owned
  BY <1>7, <1>16 DEF Owned, Own, IdleRequest
<1>18. Alone
  BY <1>16 DEF Alone, IdleRequest
<1>19. LogsAreTrue
  BY <1>7 DEF LogsAreTrue
<1> QED BY <1>7, <1>14, <1>15, <1>16, <1>17, <1>18, <1>19 DEF ChargingInv

-----------------------------------------------------------------------------
(* The request limit: every request of a user that passed the check and    *)
(* was not logged yet is counted with those of the user that were.         *)

\* Billed requests of a user past the check of their limits.
Passed(u) == {r \in RequestsOf(u) : requests[r].billed /\ requests[r].at # "usage"}

\* A number of requests that some limit in force and one overlap account for.
Tolerable(u, n) ==
    n = 0 \/ \E limit \in Limits : n <= limit - 1 + Cardinality(RequestsOf(u))

UsageInv ==
    /\ \A r \in Requests : requests[r].at = "usage" => requests[r].limit \in Limits
    /\ \A u \in Callers : Tolerable(u, Cardinality(BilledLogs(u)) + Cardinality(Passed(u)))

\* Every request is made for somebody, or for nobody.
LEMMA CallerOf ==
    ASSUME NEW r \in Requests
    PROVE  UserOf[r] \in Callers /\ \A u : r \in RequestsOf(u) <=> u = UserOf[r]
  BY ChargingAssumption DEF Callers, RequestsOf

\* The counts are numbers.
LEMMA Counts ==
    ASSUME ChargingInv, NEW u \in Callers
    PROVE  /\ IsFiniteSet(BilledLogs(u)) /\ IsFiniteSet(Passed(u)) /\ IsFiniteSet(Counted(u))
           /\ IsFiniteSet(RequestsOf(u)) /\ Passed(u) \in SUBSET RequestsOf(u)
           /\ Cardinality(BilledLogs(u)) \in Nat /\ Cardinality(Passed(u)) \in Nat
           /\ Cardinality(Counted(u)) \in Nat /\ Cardinality(RequestsOf(u)) \in Nat
           /\ Cardinality(Passed(u)) <= Cardinality(RequestsOf(u))
           /\ Cardinality(BilledLogs(u)) <= Cardinality(Counted(u))
           /\ BilledLogs(u) \in SUBSET Counted(u)
           /\ Limits \subseteq Nat
<1>1. IsFiniteSet(1..Len(logs))
  <2>1. Len(logs) \in Int /\ 1 \in Int
    BY RowTypes
  <2> QED BY <2>1, FS_Interval
<1>2. IsFiniteSet(Requests)
  BY ChargingAssumption
<1>3. BilledLogs(u) \in SUBSET Counted(u)
  BY DEF BilledLogs, Counted, ChargingInv, LogsAreTrue, Outcome
<1>4. Counted(u) \in SUBSET (1..Len(logs))
  BY DEF Counted
<1>5. RequestsOf(u) \in SUBSET Requests /\ Passed(u) \in SUBSET RequestsOf(u)
  BY DEF Passed, RequestsOf
<1>6. IsFiniteSet(Counted(u)) /\ IsFiniteSet(RequestsOf(u))
  BY <1>1, <1>2, <1>4, <1>5, FS_Subset
<1>7. IsFiniteSet(BilledLogs(u)) /\ Cardinality(BilledLogs(u)) <= Cardinality(Counted(u))
  BY <1>3, <1>6, FS_Subset
<1>8. IsFiniteSet(Passed(u)) /\ Cardinality(Passed(u)) <= Cardinality(RequestsOf(u))
  BY <1>5, <1>6, FS_Subset
<1>9. Limits \subseteq Nat
  <2>1. TenantRows \cup UserRows \cup {PlanRow} \subseteq PolicyRows
    BY ChargingAssumption
  <2>2. \A row \in PolicyRows : row.limit \in Nat \cup {NoLimit}
    BY DEF PolicyRows
  <2> QED BY <2>1, <2>2 DEF Limits
<1> QED BY <1>3, <1>5, <1>6, <1>7, <1>8, <1>9, FS_CardinalityType

\* A step that logs nothing and lets none of a user's requests past the check.
LEMMA NobodyPasses ==
    ASSUME ChargingInv, ChargingInv', UsageInv, logs' = logs, NEW u \in Callers,
           Passed(u)' \subseteq Passed(u)
    PROVE  Tolerable(u, Cardinality(BilledLogs(u)) + Cardinality(Passed(u)))'
<1>1. BilledLogs(u)' = BilledLogs(u)
  BY DEF BilledLogs
<1>2. /\ Cardinality(Passed(u)') <= Cardinality(Passed(u))
      /\ Cardinality(Passed(u)') \in Nat
  BY Counts, FS_Subset, FS_CardinalityType
<1> DEFINE b == Cardinality(BilledLogs(u))
           p == Cardinality(Passed(u))
           q == Cardinality(Passed(u)')
           n == Cardinality(RequestsOf(u))
<1>3. b \in Nat /\ p \in Nat /\ n \in Nat /\ Limits \subseteq Nat
  BY Counts
<1>4. b + p = 0 \/ \E limit \in Limits : b + p <= limit - 1 + n
  BY DEF UsageInv, Tolerable
<1> HIDE DEF b, p, q, n
<1>5. b + q = 0 \/ \E limit \in Limits : b + q <= limit - 1 + n
  BY <1>2, <1>3, <1>4 DEF p, q
<1>6. (b + q = 0 \/ \E limit \in Limits : b + q <= limit - 1 + n)
         => Tolerable(u, b + q)
  BY DEF Tolerable, n
<1> QED BY <1>1, <1>5, <1>6 DEF Tolerable, b, q, n, RequestsOf

\* A request passes: at most the limit of its user's requests were logged, less
\* one, and no more of them are on their way than the user has requests.
LEMMA OnePasses ==
    ASSUME ChargingInv, ChargingInv', NEW r \in Requests, AssertAccess(r), UsageInv,
           Goto(r, "reserve")
    PROVE  UsageInv'
<1> DEFINE u == UserOf[r]
           b == Cardinality(BilledLogs(u))
           q == Cardinality(Passed(u)')
           n == Cardinality(RequestsOf(u))
           limit == requests[r].limit
<1>1. /\ limit \in Limits
      /\ WithinLimits(u, requests[r]) => Cardinality(Counted(u)) < limit
  BY DEF AssertAccess, UsageInv, WithinLimits
<1>2. /\ b \in Nat /\ n \in Nat /\ limit \in Nat
      /\ Cardinality(Counted(u)) \in Nat /\ b <= Cardinality(Counted(u))
  BY <1>1, Counts, CallerOf
<1>3. WithinLimits(u, requests[r])
  <2>1. requests'[r].at = "reserve"
    BY RowTypes DEF Goto, ChargingInv, RequestRow
  <2>2. ~End(r)
    BY <2>1 DEF End, Become, IdleRequest, ChargingInv
  <2> QED BY <2>2 DEF AssertAccess
<1>4. logs' = logs /\ \A v : BilledLogs(v)' = BilledLogs(v)
  BY DEF AssertAccess, BilledLogs
<1>5. q \in Nat /\ q <= n
  <2>1. Passed(u)' \in SUBSET RequestsOf(u) /\ IsFiniteSet(RequestsOf(u))
    BY Counts, CallerOf DEF Passed
  <2> QED BY <2>1, FS_Subset, FS_CardinalityType
<1>6. \A s \in Requests : requests'[s].at = "usage" => requests'[s].limit \in Limits
  BY RowTypes DEF Goto, ChargingInv, RequestRow, UsageInv
<1>7. ASSUME NEW v \in Callers, v # u
      PROVE  Tolerable(v, Cardinality(BilledLogs(v)) + Cardinality(Passed(v)))'
  <2>1. \A s \in RequestsOf(v) : requests'[s] = requests[s]
    BY <1>7 DEF RequestsOf, Goto, ChargingInv
  <2>2. Passed(v)' = Passed(v)
    BY <2>1 DEF Passed, RequestsOf
  <2> QED BY <1>4, <2>2, NobodyPasses
<1> HIDE DEF b, q, n, limit
<1>8. b + q <= limit - 1 + n
  BY <1>1, <1>2, <1>3, <1>5
<1>9. Tolerable(u, Cardinality(BilledLogs(u)) + Cardinality(Passed(u)))'
  BY <1>1, <1>4, <1>8 DEF Tolerable, b, q, n, RequestsOf
<1> QED BY <1>6, <1>7, <1>9 DEF UsageInv

\* Writing a usage log ends the request and adds a row of its user.
LEMMA OneMoreLog ==
    ASSUME ChargingInv, ChargingInv', NEW r \in Requests, WriteUsageLog(r)
    PROVE  /\ requests'[r] = IdleRequest
           /\ \A s \in Requests \ {r} : requests'[s] = requests[s]
           /\ Len(logs) \in Nat /\ Len(logs') = Len(logs) + 1
           /\ \A i \in 1..Len(logs) : logs'[i] = logs[i]
           /\ logs'[Len(logs) + 1].hold = requests[r].hold
           /\ logs'[Len(logs) + 1].user = UserOf[r]
           /\ logs'[Len(logs) + 1].charge = IF requests[r].success /\ requests[r].billed
                                            THEN Stored(requests[r].charge) ELSE 0
           /\ requests[r].hold # 0 <=> requests[r].billed
           /\ \A u : BilledLogs(u)' = IF requests[r].billed /\ u = UserOf[r]
                                      THEN BilledLogs(u) \cup {Len(logs) + 1}
                                      ELSE BilledLogs(u)
           /\ \A u : Passed(u)' = Passed(u) \ {r}
           /\ \A u : r \in Passed(u) <=> requests[r].billed /\ u = UserOf[r]
<1> DEFINE k == Len(logs) + 1
           charge == IF requests[r].success /\ requests[r].billed
                     THEN Stored(requests[r].charge) ELSE 0
           log == [user |-> UserOf[r], hold |-> requests[r].hold,
                   status |-> requests[r].status, charge |-> charge]
<1>1. requests[r].at = "log" /\ End(r) /\ logs' = Append(logs, log)
  BY DEF WriteUsageLog
<1>2. /\ log.user = UserOf[r] /\ log.hold = requests[r].hold
      /\ log.charge = charge
  OBVIOUS
<1>3. /\ requests'[r] = IdleRequest
      /\ \A s \in Requests \ {r} : requests'[s] = requests[s]
  BY <1>1 DEF End, Become, ChargingInv
<1> HIDE DEF log
<1>4. /\ Len(logs) \in Nat /\ Len(logs') = Len(logs) + 1
      /\ \A i \in 1..Len(logs) : logs'[i] = logs[i]
      /\ logs'[k] = log
  <2>1. logs \in Seq(LogRow) /\ Len(logs) \in Nat
    BY RowTypes DEF ChargingInv
  <2> QED BY <1>1, <2>1
<1>5. \A i : i \in 1..Len(logs') <=> i \in 1..Len(logs) \/ i = k
  BY <1>4
<1>6. requests[r].hold # 0 <=> requests[r].billed
  BY <1>1 DEF ChargingInv, Owned, Own
<1>7. \A u : Passed(u)' = Passed(u) \ {r}
  BY <1>3 DEF Passed, RequestsOf, IdleRequest
<1>8. \A u : r \in Passed(u) <=> requests[r].billed /\ u = UserOf[r]
  BY <1>1 DEF Passed, RequestsOf
<1>9. \A u : BilledLogs(u)' = IF requests[r].billed /\ u = UserOf[r]
                              THEN BilledLogs(u) \cup {k} ELSE BilledLogs(u)
  BY <1>2, <1>4, <1>5, <1>6 DEF BilledLogs
<1> QED BY <1>2, <1>3, <1>4, <1>6, <1>7, <1>8, <1>9

\* Logging a request moves it from the ones on their way to the logged ones.
LEMMA LoggedCounts ==
    ASSUME ChargingInv, ChargingInv', NEW r \in Requests, WriteUsageLog(r), UsageInv
    PROVE  UsageInv'
<1> DEFINE k == Len(logs) + 1
<1>1. ASSUME NEW u \in Callers
      PROVE  Tolerable(u, Cardinality(BilledLogs(u)) + Cardinality(Passed(u)))'
  <2>1. IsFiniteSet(BilledLogs(u)) /\ IsFiniteSet(Passed(u))
    BY Counts
  <2>2. Cardinality(BilledLogs(u)) \in Nat /\ Cardinality(Passed(u)) \in Nat
    BY Counts
  <2>3. k \notin BilledLogs(u)
    BY OneMoreLog DEF BilledLogs
  <2>4. Cardinality(BilledLogs(u)') + Cardinality(Passed(u)')
           = Cardinality(BilledLogs(u)) + Cardinality(Passed(u))
    <3>1. CASE requests[r].billed /\ u = UserOf[r]
      <4>1. BilledLogs(u)' = BilledLogs(u) \cup {k}
        BY <3>1, OneMoreLog
      <4>2. Passed(u)' = Passed(u) \ {r} /\ r \in Passed(u)
        BY <3>1, OneMoreLog
      <4>3. Cardinality(BilledLogs(u)') = Cardinality(BilledLogs(u)) + 1
        BY <2>1, <2>3, <4>1, FS_AddElement
      <4>4. Cardinality(Passed(u)') = Cardinality(Passed(u)) - 1
        BY <2>1, <4>2, FS_RemoveElement
      <4> QED BY <2>2, <4>3, <4>4
    <3>2. CASE ~(requests[r].billed /\ u = UserOf[r])
      <4>1. BilledLogs(u)' = BilledLogs(u)
        BY <3>2, OneMoreLog
      <4>2. Passed(u)' = Passed(u)
        BY <3>2, OneMoreLog
      <4> QED BY <4>1, <4>2
    <3> QED BY <3>1, <3>2
  <2>5. Tolerable(u, Cardinality(BilledLogs(u)) + Cardinality(Passed(u)))
    BY DEF UsageInv
  <2> QED BY <2>4, <2>5 DEF Tolerable, RequestsOf
<1>2. \A s \in Requests : requests'[s].at = "usage" => requests'[s].limit \in Limits
  BY OneMoreLog DEF UsageInv, IdleRequest
<1> QED BY <1>1, <1>2 DEF UsageInv

LEMMA UsageStepInv ==
    ASSUME ChargingInv, ChargingInv', UsageInv, [ChargingNext]_vars
    PROVE  UsageInv'
<1>1. \A r \in Requests : requests[r] \in RequestRow
  BY RowTypes
<1>2. ASSUME NEW r \in Requests, NEW q \in RequestRow, Become(r, q), logs' = logs,
             q.billed /\ q.at # "usage" => requests[r].billed /\ requests[r].at # "usage",
             q.at = "usage" => q.limit \in Limits
      PROVE  UsageInv'
  <2>1. /\ requests'[r] = q
        /\ \A s \in Requests \ {r} : requests'[s] = requests[s]
    BY <1>2 DEF Become, ChargingInv
  <2>2. \A u : Passed(u)' \subseteq Passed(u)
    BY <1>2, <2>1 DEF Passed, RequestsOf
  <2>3. \A s \in Requests : requests'[s].at = "usage" => requests'[s].limit \in Limits
    BY <1>2, <2>1 DEF UsageInv
  <2>4. \A u \in Callers :
           Tolerable(u, Cardinality(BilledLogs(u)) + Cardinality(Passed(u)))'
    BY <1>2, <2>2, NobodyPasses
  <2> QED BY <2>3, <2>4 DEF UsageInv
<1>3. ASSUME UNCHANGED <<requests, logs>> PROVE UsageInv'
  BY <1>3 DEF UsageInv, Tolerable, Passed, BilledLogs, RequestsOf
<1>4. IdleRequest \in RequestRow /\ ~IdleRequest.billed /\ IdleRequest.at = "idle"
  BY IdleOwnsNothing
<1>5. ASSUME NEW r \in Requests, End(r), logs' = logs PROVE UsageInv'
  BY <1>2, <1>4, <1>5 DEF End
<1>6. ASSUME NEW r \in Requests, NEW place \in Places \ {"usage"}, Goto(r, place),
             logs' = logs, requests[r].at # "usage"
      PROVE  UsageInv'
  <2> DEFINE q == [requests[r] EXCEPT !.at = place]
  <2>1. Become(r, q) /\ q \in RequestRow
    BY <1>6, GotoBecomes
  <2>2. q.at = place /\ q.billed = requests[r].billed
    BY <1>1 DEF RequestRow
  <2> HIDE DEF q
  <2> QED BY <1>2, <1>6, <2>1, <2>2
<1>7. ASSUME NEW r \in Requests, PrepareUnbilled(r) PROVE UsageInv'
  BY <1>6, <1>7 DEF PrepareUnbilled, IdleRequest, Places
<1>8. ASSUME NEW r \in Requests, NEW estimate \in HoldAmounts, ReadPolicy(r, estimate)
      PROVE  UsageInv'
  <2> DEFINE q == [IdleRequest EXCEPT !.at = "usage", !.billed = TRUE,
                       !.estimate = estimate, !.limit = EffectiveLimit(UserOf[r]),
                       !.maxSpend = EffectiveMaxSpend(UserOf[r])]
  <2>1. Become(r, q) /\ logs' = logs
    BY <1>8 DEF ReadPolicy
  <2>2. /\ EffectiveLimit(UserOf[r]) \in Limits /\ EffectiveMaxSpend(UserOf[r]) \in Nat
        /\ Limits \subseteq Nat
    BY CallerOf, LimitsRead, Counts DEF ChargingInv
  <2>3. q \in RequestRow /\ q.at = "usage" /\ q.limit = EffectiveLimit(UserOf[r])
    BY <2>2 DEF IdleRequest, RequestRow, Places, BillingStatuses
  <2> HIDE DEF q
  <2> QED BY <1>2, <2>1, <2>2, <2>3
<1>9. ASSUME NEW r \in Requests, AssertAccess(r) PROVE UsageInv'
  BY <1>5, <1>9, OnePasses DEF AssertAccess
<1>10. ASSUME NEW r \in Requests, Reserve(r) PROVE UsageInv'
  <2> DEFINE q == [requests[r] EXCEPT !.at = "call", !.hold = Len(holds) + 1]
  <2>1. Become(r, q) /\ logs' = logs /\ requests[r].at = "reserve"
    BY <1>10 DEF Reserve
  <2>2. Len(holds) + 1 \in Nat
    BY RowTypes
  <2>3. q \in RequestRow /\ q.at = "call" /\ q.billed = requests[r].billed
    BY <1>1, <2>2 DEF RequestRow, Places
  <2> HIDE DEF q
  <2> QED BY <1>2, <2>1, <2>3
<1>11. ASSUME NEW r \in Requests, NEW charge \in Charges, ProviderAnswers(r, charge)
       PROVE  UsageInv'
  <2> DEFINE q == [requests[r] EXCEPT !.at = "settle", !.success = TRUE,
                                      !.charge = charge]
  <2>1. Become(r, q) /\ logs' = logs /\ requests[r].at = "call"
    BY <1>11 DEF ProviderAnswers
  <2>2. q \in RequestRow /\ q.at = "settle" /\ q.billed = requests[r].billed
    BY <1>1 DEF RequestRow, Places
  <2> HIDE DEF q
  <2> QED BY <1>2, <2>1, <2>2
<1>12. ASSUME NEW r \in Requests, ProviderFails(r) PROVE UsageInv'
  BY <1>6, <1>12 DEF ProviderFails, Places
<1>13. ASSUME NEW r \in Requests, SettleCharged(r) \/ SettleFailed(r) \/ SettleUnbilled(r)
       PROVE  UsageInv'
  <2>1. PICK status \in BillingStatuses : LogNext(r, status)
    BY <1>13 DEF SettleCharged, SettleFailed, SettleUnbilled, BillingStatuses
  <2>2. requests[r].at = "settle" /\ logs' = logs
    BY <1>13 DEF SettleCharged, SettleFailed, SettleUnbilled
  <2> DEFINE q == [requests[r] EXCEPT !.at = "log", !.status = status]
  <2>3. Become(r, q) /\ q \in RequestRow
    BY <2>1, LogNextRow
  <2>4. q.at = "log" /\ q.billed = requests[r].billed
    BY <1>1 DEF RequestRow
  <2> HIDE DEF q
  <2> QED BY <1>2, <2>2, <2>3, <2>4
<1>14. ASSUME NEW r \in Requests, WriteUsageLog(r) PROVE UsageInv'
  BY <1>14, LoggedCounts
<1>15. ASSUME NEW r \in Requests, Abandon(r) PROVE UsageInv'
  BY <1>5, <1>15 DEF Abandon
<1>16. ASSUME NEW h \in 1..Len(holds), HoldAges(h) \/ Sweep(h) PROVE UsageInv'
  BY <1>3, <1>16 DEF HoldAges, Sweep
<1>17. CASE ChangePolicy \/ UNCHANGED vars
  BY <1>3, <1>17 DEF ChangePolicy, vars
<1> QED BY <1>7, <1>8, <1>9, <1>10, <1>11, <1>12, <1>13, <1>14, <1>15, <1>16, <1>17
        DEF ChargingNext

LEMMA UsageInitInv == ChargingInit => UsageInv
<1> SUFFICES ASSUME ChargingInit PROVE UsageInv
  OBVIOUS
<1>1. \A r \in Requests : requests[r] = IdleRequest
  BY DEF ChargingInit
<1>2. (\A u : Passed(u) = {}) /\ \A r \in Requests : requests[r].at # "usage"
  BY <1>1 DEF Passed, RequestsOf, IdleRequest
<1>3. \A u : BilledLogs(u) = {}
  BY EmptySeq DEF ChargingInit, BilledLogs
<1> QED BY <1>2, <1>3, FS_EmptySet DEF UsageInv, Tolerable

-----------------------------------------------------------------------------
(* The spend limit: what a user's requests were logged for, and what those *)
(* past the check may still log, is covered by a limit, the estimate that  *)
(* fitted under it, and one charge for each request of the user.           *)

\* What is left to spend for the user's requests that are not past the check.
Spare(u, charge) ==
    (Cardinality(RequestsOf(u)) - Cardinality(Passed(u))) * Exact(Stored(charge))

\* A limit, an estimate and the dearest charge so far account for the spend.
Affordable(u, maxSpend, estimate, charge) ==
    /\ \A r \in Passed(u) : requests[r].charge <= charge
    /\ Exact(BilledSpend(u)) <= Exact(maxSpend) - estimate + Spare(u, charge)

Afforded(u) == \E maxSpend \in SpendLimits, estimate \in HoldAmounts,
                  charge \in Charges \cup {0} : Affordable(u, maxSpend, estimate, charge)

\* What a request that is about to check its limits has read.
Checking(request) ==
    request.at = "usage" => /\ request.maxSpend \in SpendLimits
                            /\ request.estimate \in HoldAmounts
                            /\ request.charge = 0

\* A user's spend: none yet, or accounted for.
SpendOf(u) ==
    /\ BilledSpend(u) # 0 => Charges # {}
    /\ (BilledSpend(u) = 0 /\ Passed(u) = {}) \/ Afforded(u)

SpendInv ==
    /\ \A r \in Requests : Checking(requests[r])
    /\ \A u \in Callers : SpendOf(u)

\* Limits and estimates are natural numbers.
LEMMA SpendTypes == SpendLimits \subseteq Nat /\ HoldAmounts \subseteq Nat
<1>1. TenantRows \cup UserRows \cup {PlanRow} \subseteq PolicyRows
  BY ChargingAssumption
<1>2. \A row \in PolicyRows : row.maxSpend \in Nat \cup {NoLimit}
  BY DEF PolicyRows
<1> QED BY <1>1, <1>2, AmountsAssumption DEF SpendLimits

LEMMA EachNat ==
    /\ \A c \in Charges \cup {0} : c \in Nat /\ c <= c
    /\ \A maxSpend \in SpendLimits : maxSpend \in Nat
    /\ \A estimate \in HoldAmounts : estimate \in Nat
  BY SpendTypes, AmountsAssumption

\* What a request was charged.
LEMMA RowCharges ==
    ASSUME NEW row \in RequestRow
    PROVE  row.charge \in Charges \cup {0} /\ row.charge \in Nat
<1>1. row.charge \in Charges \cup {0}
  BY DEF RequestRow
<1> QED BY <1>1, EachNat

\* What a charge costs in a usage log; a dearer one costs no less.
LEMMA Cost ==
    ASSUME NEW c \in Charges \cup {0}, NEW d \in Charges \cup {0}, c <= d
    PROVE  /\ Stored(c) \in Nat /\ Exact(Stored(c)) \in Nat
           /\ Stored(d) \in Nat /\ Exact(Stored(d)) \in Nat
           /\ Exact(Stored(c)) <= Exact(Stored(d))
<1>1. c \in Nat /\ d \in Nat
  BY AmountsAssumption
<1>2. Stored(c) \in Nat /\ Stored(d) \in Nat /\ Stored(c) <= Stored(d)
  BY <1>1, StoredNat, StoredMonotone
<1> QED BY <1>2 DEF Exact, Scale

\* Products of natural numbers grow with their factors.
LEMMA ProductsGrow ==
    ASSUME NEW k \in Nat, NEW l \in Nat, NEW a \in Nat, NEW b \in Nat, k <= l, a <= b
    PROVE  k * a \in Nat /\ l * b \in Nat /\ k * a <= l * b
<1>1. l - k \in Nat /\ l = k + (l - k)
  OBVIOUS
<1>2. PICK d \in Nat : l = k + d
  BY <1>1
<1>3. b - a \in Nat /\ b = a + (b - a)
  OBVIOUS
<1>4. PICK e \in Nat : b = a + e
  BY <1>3
<1>5. l * b = k * a + k * e + d * a + d * e
  BY <1>2, <1>4
<1>6. k * a \in Nat /\ k * e \in Nat /\ d * a \in Nat /\ d * e \in Nat
  OBVIOUS
<1> QED BY <1>5, <1>6

\* What is left grows when requests leave or a dearer charge is allowed for.
LEMMA SpareGrows ==
    ASSUME NEW n \in Nat, NEW p \in Nat, NEW q \in Nat, q <= p, p <= n,
           NEW c \in Charges \cup {0}, NEW d \in Charges \cup {0}, c <= d
    PROVE  /\ (n - p) * Exact(Stored(c)) \in Nat /\ (n - q) * Exact(Stored(d)) \in Nat
           /\ (n - p) * Exact(Stored(c)) <= (n - q) * Exact(Stored(d))
<1> DEFINE k == n - p
           l == n - q
           a == Exact(Stored(c))
           b == Exact(Stored(d))
<1>1. k \in Nat /\ l \in Nat /\ k <= l
  OBVIOUS
<1>2. a \in Nat /\ b \in Nat /\ a <= b
  BY Cost
<1> HIDE DEF k, l, a, b
<1>3. k * a \in Nat /\ l * b \in Nat /\ k * a <= l * b
  BY <1>1, <1>2, ProductsGrow
<1> QED BY <1>3 DEF k, l, a, b

\* The charges of the usage log.
LEMMA LogCharges ==
    ASSUME ChargingInv, NEW u \in Callers
    PROVE  /\ Len(logs) \in Nat
           /\ \A i \in 1..Len(logs) : logs[i].charge \in Nat
           /\ BilledSpend(u) \in Nat
<1>1. Len(logs) \in Nat /\ \A i \in 1..Len(logs) : logs[i].charge \in Nat
  BY RowTypes DEF LogRow
<1> DEFINE f == [i \in 1..Len(logs) |-> IF i \in BilledLogs(u) THEN logs[i].charge ELSE 0]
<1>2. \A i \in 1..Len(logs) : f[i] \in Nat
  BY <1>1
<1>3. BilledSpend(u) = Total(f, Len(logs))
  BY DEF BilledSpend
<1> HIDE DEF f
<1> QED BY <1>1, <1>2, <1>3, TotalNat

\* The usage query leaves out nothing that was billed to the user.
LEMMA SpendIsBilled ==
    ASSUME ChargingInv, NEW u \in Callers
    PROVE  Spend(u) \in Nat /\ BilledSpend(u) <= Spend(u)
<1> DEFINE f == [i \in 1..Len(logs) |-> IF i \in Counted(u) THEN logs[i].charge ELSE 0]
           g == [i \in 1..Len(logs) |-> IF i \in BilledLogs(u) THEN logs[i].charge ELSE 0]
<1>1. Len(logs) \in Nat /\ \A i \in 1..Len(logs) : logs[i].charge \in Nat
  BY LogCharges
<1>2. BilledLogs(u) \in SUBSET Counted(u)
  BY Counts
<1>3. \A i \in 1..Len(logs) : f[i] \in Nat /\ g[i] \in Nat /\ g[i] <= f[i]
  BY <1>1, <1>2
<1>4. Spend(u) = Total(f, Len(logs)) /\ BilledSpend(u) = Total(g, Len(logs))
  BY DEF Spend, BilledSpend
<1> HIDE DEF f, g
<1>5. \A i \in 1..Len(logs) : f[i] \in Int /\ g[i] \in Int /\ g[i] <= f[i]
  BY <1>3
<1>6. Total(g, Len(logs)) <= Total(f, Len(logs))
  BY <1>1, <1>5, TotalMonotone
<1>7. Total(f, Len(logs)) \in Nat
  BY <1>1, <1>3, TotalNat
<1> QED BY <1>4, <1>6, <1>7

\* One more usage log adds its charge to what its user was billed.
LEMMA SpendGrows ==
    ASSUME ChargingInv, ChargingInv', NEW r \in Requests, WriteUsageLog(r), NEW u \in Callers
    PROVE  BilledSpend(u)' = BilledSpend(u)
              + (IF requests[r].billed /\ u = UserOf[r]
                 THEN logs'[Len(logs) + 1].charge ELSE 0)
<1> DEFINE n == Len(logs)
           k == n + 1
           f == [i \in 1..n |-> IF i \in BilledLogs(u) THEN logs[i].charge ELSE 0]
           g == [i \in 1..k |-> IF i \in BilledLogs(u)' THEN logs'[i].charge ELSE 0]
<1>1. n \in Nat /\ Len(logs') = k /\ \A i \in 1..n : logs'[i] = logs[i]
  BY OneMoreLog
<1>2. BilledLogs(u)' = IF requests[r].billed /\ u = UserOf[r]
                       THEN BilledLogs(u) \cup {k} ELSE BilledLogs(u)
  BY OneMoreLog
<1>3. k \notin BilledLogs(u) /\ \A i \in 1..n : i # k
  BY <1>1 DEF BilledLogs
<1>4. BilledSpend(u) = Total(f, n) /\ BilledSpend(u)' = Total(g, k)
  BY <1>1 DEF BilledSpend
<1>5. /\ \A i \in 1..n : g[i] = f[i]
      /\ g[k] = IF requests[r].billed /\ u = UserOf[r] THEN logs'[k].charge ELSE 0
  <2>1. k \in 1..k /\ \A i \in 1..n : i \in 1..k
    BY <1>1
  <2>2. \A i \in 1..n : i \in BilledLogs(u)' <=> i \in BilledLogs(u)
    BY <1>2, <1>3
  <2>3. k \in BilledLogs(u)' <=> requests[r].billed /\ u = UserOf[r]
    BY <1>2, <1>3
  <2>4. \A i \in 1..n : g[i] = f[i]
    BY <2>1, <2>2, <1>1
  <2>5. g[k] = IF k \in BilledLogs(u)' THEN logs'[k].charge ELSE 0
    BY <2>1
  <2> QED BY <2>3, <2>4, <2>5
<1>6. k \in Nat \ {0} /\ k - 1 = n
  BY <1>1
<1> HIDE DEF f, g, n, k
<1>7. Total(g, k) = Total(g, k - 1) + g[k]
  BY <1>6, TotalStep
<1>8. Total(g, n) = Total(f, n)
  BY <1>1, <1>5, TotalSame DEF n
<1> QED BY <1>4, <1>5, <1>6, <1>7, <1>8 DEF n, k

\* A step that logs nothing, lets none of a user's requests past the check and
\* makes none of those past it dearer than some charge.
LEMMA NobodySpends ==
    ASSUME ChargingInv, ChargingInv', NEW u \in Callers, SpendOf(u), logs' = logs,
           Passed(u)' \subseteq Passed(u),
           NEW dearest \in Charges \cup {0},
           \A r \in Passed(u)' : requests'[r].charge <= requests[r].charge
                                 \/ requests'[r].charge <= dearest
    PROVE  SpendOf(u)'
<1>1. BilledSpend(u)' = BilledSpend(u) /\ BilledSpend(u) \in Nat
  BY LogCharges DEF BilledSpend, BilledLogs
<1> DEFINE n == Cardinality(RequestsOf(u))
           p == Cardinality(Passed(u))
           q == Cardinality(Passed(u)')
<1>2. n \in Nat /\ p \in Nat /\ q \in Nat /\ p <= n /\ q <= p
  <2>1. IsFiniteSet(Passed(u)) /\ Passed(u)' \in SUBSET Passed(u)
    BY Counts
  <2> QED BY <2>1, Counts, FS_Subset, FS_CardinalityType
<1>3. CASE BilledSpend(u) = 0 /\ Passed(u) = {}
  BY <1>1, <1>3 DEF SpendOf
<1>4. ASSUME NEW maxSpend \in SpendLimits, NEW estimate \in HoldAmounts,
             NEW charge \in Charges \cup {0}, Affordable(u, maxSpend, estimate, charge)
      PROVE  Afforded(u)'
  <2>1. charge \in Nat /\ dearest \in Nat /\ maxSpend \in Nat /\ estimate \in Nat
    BY EachNat
  <2>2. PICK c \in Charges \cup {0} : charge <= c /\ dearest <= c
    BY <2>1
  <2>3. c \in Nat
    BY EachNat
  <2>4. ASSUME NEW r \in Passed(u)' PROVE requests'[r].charge <= c
    <3>1. r \in Passed(u) /\ r \in Requests
      BY DEF Passed, RequestsOf
    <3>2. requests[r].charge <= charge
      BY <1>4, <3>1 DEF Affordable
    <3>3. requests[r] \in RequestRow /\ requests'[r] \in RequestRow
      BY <3>1 DEF ChargingInv
    <3>4. requests[r].charge \in Nat /\ requests'[r].charge \in Nat
      BY <3>3, RowCharges
    <3> QED BY <2>1, <2>2, <2>3, <3>2, <3>4
  <2>5. /\ (n - p) * Exact(Stored(charge)) \in Nat /\ (n - q) * Exact(Stored(c)) \in Nat
        /\ (n - p) * Exact(Stored(charge)) <= (n - q) * Exact(Stored(c))
    BY <1>2, <2>2, SpareGrows
  <2>6. Exact(BilledSpend(u))
           <= Exact(maxSpend) - estimate + (n - p) * Exact(Stored(charge))
    BY <1>4 DEF Affordable, Spare
  <2>7. Exact(BilledSpend(u)) \in Int /\ Exact(maxSpend) \in Int
    BY <1>1, <2>1, ExactInt
  <2> DEFINE x == (n - p) * Exact(Stored(charge))
             y == (n - q) * Exact(Stored(c))
             spent == Exact(BilledSpend(u))
             most == Exact(maxSpend)
  <2> HIDE DEF x, y, spent, most
  <2>8. spent <= most - estimate + y
    BY <2>1, <2>5, <2>6, <2>7 DEF x, y, spent, most
  <2>9. Affordable(u, maxSpend, estimate, c)'
    BY <1>1, <2>4, <2>8 DEF Affordable, Spare, RequestsOf, y, spent, most
  <2> QED BY <2>2, <2>9 DEF Afforded
<1> QED BY <1>1, <1>3, <1>4 DEF SpendOf, Afforded

\* A request passes: its estimate fitted under its limit, with all that its user
\* had logged, and no more are past the check than the user has requests.
LEMMA OneMaySpend ==
    ASSUME ChargingInv, ChargingInv', NEW r \in Requests, AssertAccess(r), SpendInv,
           Goto(r, "reserve")
    PROVE  SpendInv'
<1> DEFINE u == UserOf[r]
           n == Cardinality(RequestsOf(u))
           q == Cardinality(Passed(u)')
<1>1. /\ requests[r].at = "usage" /\ requests[r] \in RequestRow
      /\ requests[r].maxSpend \in SpendLimits /\ requests[r].estimate \in HoldAmounts
      /\ requests[r].charge = 0
  BY RowTypes DEF AssertAccess, SpendInv, Checking
<1>2. PICK maxSpend \in SpendLimits, estimate \in HoldAmounts :
         maxSpend = requests[r].maxSpend /\ estimate = requests[r].estimate
  BY <1>1
<1>3. /\ requests'[r].at = "reserve" /\ requests'[r].charge = 0
      /\ \A s \in Requests \ {r} : requests'[s] = requests[s]
  BY <1>1, RowTypes DEF Goto, ChargingInv, RequestRow
<1>4. Exact(Spend(u)) + estimate <= Exact(maxSpend)
  <2>1. ~End(r)
    BY <1>3 DEF End, Become, IdleRequest, ChargingInv
  <2> QED BY <1>2, <2>1 DEF AssertAccess, WithinLimits
<1>5. /\ logs' = logs /\ \A v : BilledSpend(v)' = BilledSpend(v)
      /\ Spend(u) \in Nat /\ BilledSpend(u) <= Spend(u) /\ BilledSpend(u) \in Nat
  BY SpendIsBilled, LogCharges, CallerOf DEF AssertAccess, BilledSpend, BilledLogs
<1>6. \A s \in Passed(u)' :
         s \in Requests /\ (s = r \/ (s \in Passed(u) /\ requests'[s] = requests[s]))
  BY <1>3 DEF Passed, RequestsOf
<1>7. n \in Nat /\ q \in Nat /\ q <= n
  <2>1. Passed(u)' \in SUBSET RequestsOf(u) /\ IsFiniteSet(RequestsOf(u))
    BY Counts, CallerOf DEF Passed
  <2> QED BY <2>1, FS_Subset, FS_CardinalityType
<1>8. PICK charge \in Charges \cup {0} : \A s \in Passed(u) : requests[s].charge <= charge
  BY CallerOf DEF SpendInv, SpendOf, Afforded, Affordable
<1>9. \A s \in Passed(u)' : requests'[s].charge <= charge
  <2>1. charge \in Nat
    BY EachNat
  <2> QED BY <1>3, <1>6, <1>8, <2>1
<1>10. (n - q) * Exact(Stored(charge)) \in Nat
  <2>1. charge <= charge /\ q <= q
    BY <1>7, EachNat
  <2> QED BY <1>7, <2>1, SpareGrows
<1>11. /\ Exact(BilledSpend(u)) \in Int /\ Exact(maxSpend) \in Int /\ estimate \in Nat
       /\ Exact(Spend(u)) \in Int /\ Exact(BilledSpend(u)) <= Exact(Spend(u))
  <2>1. BilledSpend(u) \in Int /\ Spend(u) \in Int /\ maxSpend \in Int /\ estimate \in Nat
    BY <1>5, EachNat
  <2>2. Exact(BilledSpend(u)) <= Exact(Spend(u))
    BY <1>5, <2>1 DEF Exact, Scale
  <2> QED BY <2>1, <2>2, ExactInt
<1> DEFINE y == (n - q) * Exact(Stored(charge))
           spent == Exact(BilledSpend(u))
           seen == Exact(Spend(u))
           most == Exact(maxSpend)
<1> HIDE DEF y, spent, seen, most
<1>12. spent <= most - estimate + y
  BY <1>4, <1>10, <1>11 DEF y, spent, seen, most
<1>13. Affordable(u, maxSpend, estimate, charge)'
  BY <1>5, <1>9, <1>12 DEF Affordable, Spare, RequestsOf, y, spent, most
<1>14. \A s \in Requests : Checking(requests'[s])
  BY <1>3 DEF SpendInv, Checking
<1>15. SpendOf(u)'
  BY <1>5, <1>13, CallerOf DEF SpendInv, SpendOf, Afforded
<1>16. ASSUME NEW v \in Callers, v # u PROVE SpendOf(v)'
  <2>1. \A s \in RequestsOf(v) : requests'[s] = requests[s]
    BY <1>3, <1>16 DEF RequestsOf
  <2>2. Passed(v)' = Passed(v) /\ \A s \in Passed(v) : requests'[s] = requests[s]
    BY <2>1 DEF Passed, RequestsOf
  <2>3. SpendOf(v)
    BY DEF SpendInv
  <2> QED BY <1>5, <2>2, <2>3 DEF SpendOf, Afforded, Affordable, Spare, RequestsOf
<1> QED BY <1>14, <1>15, <1>16 DEF SpendInv

\* A request that is logged uses up its own part of what was left to its user.
LEMMA LoggedSpend ==
    ASSUME ChargingInv, ChargingInv', NEW r \in Requests, WriteUsageLog(r), SpendInv
    PROVE  SpendInv'
<1>1. \A s \in Requests : Checking(requests'[s])
  BY OneMoreLog DEF SpendInv, Checking, IdleRequest
<1>2. ASSUME NEW u \in Callers, ~(requests[r].billed /\ u = UserOf[r]) PROVE SpendOf(u)'
  <2>1. BilledSpend(u)' = BilledSpend(u)
    <3>1. BilledSpend(u)' = BilledSpend(u) + 0 /\ BilledSpend(u) \in Nat
      BY <1>2, SpendGrows, LogCharges
    <3> QED BY <3>1
  <2>2. Passed(u)' = Passed(u) /\ \A s \in Passed(u) : requests'[s] = requests[s]
    <3>1. Passed(u)' = Passed(u) \ {r} /\ r \notin Passed(u)
      BY <1>2, OneMoreLog
    <3> QED BY <3>1, OneMoreLog DEF Passed, RequestsOf
  <2>3. SpendOf(u)
    BY DEF SpendInv
  <2> QED BY <2>1, <2>2, <2>3 DEF SpendOf, Afforded, Affordable, Spare, RequestsOf
<1>3. ASSUME NEW u \in Callers, requests[r].billed /\ u = UserOf[r] PROVE SpendOf(u)'
  <2> DEFINE n == Cardinality(RequestsOf(u))
             p == Cardinality(Passed(u))
             q == Cardinality(Passed(u)')
             paid == IF requests[r].success /\ requests[r].billed
                     THEN Stored(requests[r].charge) ELSE 0
  <2>1. requests[r].charge \in Charges \cup {0} /\ requests[r].charge \in Nat
    BY RowTypes, RowCharges
  <2>2. paid \in Nat
    BY <2>1, StoredNat
  <2>3. BilledSpend(u)' = BilledSpend(u) + paid /\ BilledSpend(u) \in Nat
    <3>1. logs'[Len(logs) + 1].charge = paid
      BY OneMoreLog
    <3>2. BilledSpend(u)' = BilledSpend(u) + logs'[Len(logs) + 1].charge
      BY <1>3, SpendGrows
    <3> QED BY <3>1, <3>2, LogCharges
  <2>4. Passed(u)' = Passed(u) \ {r} /\ r \in Passed(u)
    BY <1>3, OneMoreLog
  <2>5. BilledSpend(u)' # 0 => Charges # {}
    <3>1. paid # 0 => requests[r].charge # 0
      BY StoredWhole DEF Exact, Scale, Stored
    <3> QED BY <2>1, <2>2, <2>3, <3>1 DEF SpendInv, SpendOf
  <2>6. PICK maxSpend \in SpendLimits, estimate \in HoldAmounts,
             charge \in Charges \cup {0} : Affordable(u, maxSpend, estimate, charge)
    BY <2>4 DEF SpendInv, SpendOf, Afforded
  <2>7. requests[r].charge <= charge
    BY <2>4, <2>6 DEF Affordable
  <2>8. paid <= Stored(charge) /\ Stored(charge) \in Nat
    <3>1. charge \in Nat
      BY EachNat
    <3>2. /\ Stored(requests[r].charge) \in Nat /\ Stored(charge) \in Nat
          /\ Stored(requests[r].charge) <= Stored(charge)
      BY <2>1, <2>7, <3>1, StoredNat, StoredMonotone
    <3>3. paid = 0 \/ paid = Stored(requests[r].charge)
      OBVIOUS
    <3> HIDE DEF paid
    <3> QED BY <3>2, <3>3
  <2>9. n \in Nat /\ p \in Nat /\ p <= n /\ q = p - 1 /\ q \in Nat
    <3>1. IsFiniteSet(Passed(u)) /\ q = p - 1
      BY <2>4, Counts, FS_RemoveElement
    <3>2. IsFiniteSet(Passed(u)')
      BY <2>4, <3>1, FS_Subset
    <3> QED BY <3>1, <3>2, Counts, FS_CardinalityType
  <2> DEFINE e == Exact(Stored(charge))
             spent == Exact(BilledSpend(u))
             most == Exact(maxSpend)
             after == Exact(BilledSpend(u)')
  <2>10. e \in Nat /\ spent \in Int /\ most \in Int /\ estimate \in Nat
    <3>1. charge <= charge /\ maxSpend \in Int /\ estimate \in Nat
      BY EachNat
    <3>2. e \in Nat
      BY <3>1, Cost
    <3> QED BY <2>3, <3>1, <3>2, ExactInt
  <2>11. after <= spent + e /\ after \in Int
    <3>1. BilledSpend(u)' \in Nat
      BY <2>2, <2>3
    <3>2. after \in Int
      BY <3>1, ExactInt
    <3>3. after <= spent + e
      BY <2>2, <2>3, <2>8 DEF Exact, Scale
    <3> QED BY <3>2, <3>3
  <2>12. spent <= most - estimate + (n - p) * e
    BY <2>6 DEF Affordable, Spare
  <2> HIDE DEF e, spent, most, n, p, q, paid, after
  <2>13. (n - q) * e = (n - p) * e + e /\ (n - p) * e \in Int
    BY <2>9, <2>10
  <2>14. after <= most - estimate + (n - q) * e
    BY <2>10, <2>11, <2>12, <2>13
  <2>15. \A s \in Passed(u)' : requests'[s].charge <= charge
    BY <2>4, <2>6, OneMoreLog DEF Affordable, Passed, RequestsOf
  <2>16. Affordable(u, maxSpend, estimate, charge)'
    BY <2>14, <2>15 DEF Affordable, Spare, RequestsOf, e, most, n, q, after
  <2> QED BY <2>5, <2>16 DEF SpendOf, Afforded
<1> QED BY <1>1, <1>2, <1>3 DEF SpendInv

LEMMA SpendStepInv ==
    ASSUME ChargingInv, ChargingInv', SpendInv, [ChargingNext]_vars
    PROVE  SpendInv'
<1>1. \A r \in Requests : requests[r] \in RequestRow
  BY RowTypes
<1>2. ASSUME NEW r \in Requests, NEW q \in RequestRow, Become(r, q), logs' = logs,
             q.billed /\ q.at # "usage" => requests[r].billed /\ requests[r].at # "usage",
             Checking(q), NEW dearest \in Charges \cup {0},
             q.charge = requests[r].charge \/ q.charge = dearest
      PROVE  SpendInv'
  <2>1. /\ requests'[r] = q
        /\ \A s \in Requests \ {r} : requests'[s] = requests[s]
    BY <1>2 DEF Become, ChargingInv
  <2>2. \A u : Passed(u)' \subseteq Passed(u)
    BY <1>2, <2>1 DEF Passed, RequestsOf
  <2>3. \A s \in Requests : Checking(requests'[s])
    BY <1>2, <2>1 DEF SpendInv
  <2>4. \A s \in Requests : requests[s].charge \in Nat /\ requests'[s].charge \in Nat
    BY RowCharges DEF ChargingInv
  <2>5. ASSUME NEW u \in Callers PROVE SpendOf(u)'
    <3>1. \A s \in Passed(u)' : requests'[s].charge <= requests[s].charge
                                \/ requests'[s].charge <= dearest
      <4>1. dearest \in Nat /\ Passed(u)' \subseteq Requests
        BY EachNat DEF Passed, RequestsOf
      <4> QED BY <1>2, <2>1, <2>4, <4>1
    <3>2. SpendOf(u) /\ logs' = logs
      BY <1>2 DEF SpendInv
    <3> QED BY <1>2, <2>2, <3>1, <3>2, NobodySpends
  <2> QED BY <2>3, <2>5 DEF SpendInv
<1>3. ASSUME UNCHANGED <<requests, logs>> PROVE SpendInv'
  BY <1>3 DEF SpendInv, SpendOf, Afforded, Affordable, Spare, Passed, RequestsOf,
             BilledSpend, BilledLogs
<1>4. IdleRequest \in RequestRow /\ ~IdleRequest.billed /\ Checking(IdleRequest)
      /\ IdleRequest.charge = 0
  BY IdleOwnsNothing DEF Checking, IdleRequest
<1>5. ASSUME NEW r \in Requests, End(r), logs' = logs PROVE SpendInv'
  BY <1>2, <1>4, <1>5 DEF End
<1>6. ASSUME NEW r \in Requests, NEW place \in Places \ {"usage"}, Goto(r, place),
             logs' = logs, requests[r].at # "usage"
      PROVE  SpendInv'
  <2> DEFINE q == [requests[r] EXCEPT !.at = place]
  <2>1. Become(r, q) /\ q \in RequestRow
    BY <1>6, GotoBecomes
  <2>2. q.at = place /\ q.billed = requests[r].billed /\ q.charge = requests[r].charge
    BY <1>1 DEF RequestRow
  <2> HIDE DEF q
  <2> QED BY <1>2, <1>6, <2>1, <2>2 DEF Checking
<1>7. ASSUME NEW r \in Requests, PrepareUnbilled(r) PROVE SpendInv'
  BY <1>6, <1>7 DEF PrepareUnbilled, IdleRequest, Places
<1>8. ASSUME NEW r \in Requests, NEW estimate \in HoldAmounts, ReadPolicy(r, estimate)
      PROVE  SpendInv'
  <2> DEFINE q == [IdleRequest EXCEPT !.at = "usage", !.billed = TRUE,
                       !.estimate = estimate, !.limit = EffectiveLimit(UserOf[r]),
                       !.maxSpend = EffectiveMaxSpend(UserOf[r])]
  <2>1. Become(r, q) /\ logs' = logs
    BY <1>8 DEF ReadPolicy
  <2>2. /\ EffectiveLimit(UserOf[r]) \in Limits /\ EffectiveMaxSpend(UserOf[r]) \in Nat
        /\ Limits \subseteq Nat /\ EffectiveMaxSpend(UserOf[r]) \in SpendLimits
    BY CallerOf, LimitsRead, Counts DEF ChargingInv
  <2>3. /\ q \in RequestRow /\ q.at = "usage" /\ q.charge = 0
        /\ q.maxSpend = EffectiveMaxSpend(UserOf[r]) /\ q.estimate = estimate
    BY <2>2 DEF IdleRequest, RequestRow, Places, BillingStatuses
  <2> HIDE DEF q
  <2> QED BY <1>2, <2>1, <2>2, <2>3 DEF Checking
<1>9. ASSUME NEW r \in Requests, AssertAccess(r) PROVE SpendInv'
  BY <1>5, <1>9, OneMaySpend DEF AssertAccess
<1>10. ASSUME NEW r \in Requests, Reserve(r) PROVE SpendInv'
  <2> DEFINE q == [requests[r] EXCEPT !.at = "call", !.hold = Len(holds) + 1]
  <2>1. Become(r, q) /\ logs' = logs /\ requests[r].at = "reserve"
    BY <1>10 DEF Reserve
  <2>2. Len(holds) + 1 \in Nat
    BY RowTypes
  <2>3. /\ q \in RequestRow /\ q.at = "call" /\ q.billed = requests[r].billed
        /\ q.charge = requests[r].charge
    BY <1>1, <2>2 DEF RequestRow, Places
  <2> HIDE DEF q
  <2> QED BY <1>2, <2>1, <2>3 DEF Checking
<1>11. ASSUME NEW r \in Requests, NEW charge \in Charges, ProviderAnswers(r, charge)
       PROVE  SpendInv'
  <2> DEFINE q == [requests[r] EXCEPT !.at = "settle", !.success = TRUE,
                                      !.charge = charge]
  <2>1. Become(r, q) /\ logs' = logs /\ requests[r].at = "call"
    BY <1>11 DEF ProviderAnswers
  <2>2. /\ q \in RequestRow /\ q.at = "settle" /\ q.billed = requests[r].billed
        /\ q.charge = charge
    BY <1>1 DEF RequestRow, Places
  <2> HIDE DEF q
  <2> QED BY <1>2, <2>1, <2>2 DEF Checking
<1>12. ASSUME NEW r \in Requests, ProviderFails(r) PROVE SpendInv'
  BY <1>6, <1>12 DEF ProviderFails, Places
<1>13. ASSUME NEW r \in Requests, SettleCharged(r) \/ SettleFailed(r) \/ SettleUnbilled(r)
       PROVE  SpendInv'
  <2>1. PICK status \in BillingStatuses : LogNext(r, status)
    BY <1>13 DEF SettleCharged, SettleFailed, SettleUnbilled, BillingStatuses
  <2>2. requests[r].at = "settle" /\ logs' = logs
    BY <1>13 DEF SettleCharged, SettleFailed, SettleUnbilled
  <2> DEFINE q == [requests[r] EXCEPT !.at = "log", !.status = status]
  <2>3. Become(r, q) /\ q \in RequestRow
    BY <2>1, LogNextRow
  <2>4. q.at = "log" /\ q.billed = requests[r].billed /\ q.charge = requests[r].charge
    BY <1>1 DEF RequestRow
  <2> HIDE DEF q
  <2> QED BY <1>2, <2>2, <2>3, <2>4 DEF Checking
<1>14. ASSUME NEW r \in Requests, WriteUsageLog(r) PROVE SpendInv'
  BY <1>14, LoggedSpend
<1>15. ASSUME NEW r \in Requests, Abandon(r) PROVE SpendInv'
  BY <1>5, <1>15 DEF Abandon
<1>16. ASSUME NEW h \in 1..Len(holds), HoldAges(h) \/ Sweep(h) PROVE SpendInv'
  BY <1>3, <1>16 DEF HoldAges, Sweep
<1>17. CASE ChangePolicy \/ UNCHANGED vars
  BY <1>3, <1>17 DEF ChangePolicy, vars
<1> QED BY <1>7, <1>8, <1>9, <1>10, <1>11, <1>12, <1>13, <1>14, <1>15, <1>16, <1>17
        DEF ChargingNext

LEMMA SpendInitInv == ChargingInit => SpendInv
<1> SUFFICES ASSUME ChargingInit PROVE SpendInv
  OBVIOUS
<1>1. \A r \in Requests : requests[r] = IdleRequest
  BY DEF ChargingInit
<1>2. (\A u : Passed(u) = {}) /\ \A r \in Requests : Checking(requests[r])
  BY <1>1 DEF Passed, RequestsOf, IdleRequest, Checking
<1>3. Len(logs) = 0
  BY EmptySeq DEF ChargingInit
<1>4. \A u : BilledSpend(u) = 0
  BY <1>3, TotalZero DEF BilledSpend
<1> QED BY <1>2, <1>4 DEF SpendInv, SpendOf

-----------------------------------------------------------------------------
(* The theorems.                                                           *)

\* Every execution of the charging lifecycle keeps the invariants.
THEOREM ChargingInvariant == ChargingSpec => [](ChargingInv /\ UsageInv)
<1>1. ChargingInit => ChargingInv /\ UsageInv
  BY ChargingInitInv, UsageInitInv
<1>2. (ChargingInv /\ UsageInv) /\ [ChargingNext]_vars => (ChargingInv /\ UsageInv)'
  BY ChargingStepInv, UsageStepInv
<1> QED BY <1>1, <1>2, PTL DEF ChargingSpec

\* Policies, requests and usage logs keep their types, and point at holds that
\* exist.
THEOREM ChargingTypes == ChargingSpec => []ChargingTypeOK
<1>1. ChargingInv => ChargingTypeOK
  <2> SUFFICES ASSUME ChargingInv PROVE ChargingTypeOK
    OBVIOUS
  <2>1. TypeOK /\ policies \in PolicyTable
    BY DEF ChargingInv, WalletInv
  <2> DEFINE places == 0..Len(holds)
             request == [at : Places, billed : BOOLEAN, limit : Nat \cup {NoLimit},
                         maxSpend : Nat \cup {NoLimit}, estimate : HoldAmounts \cup {0},
                         hold : places, success : BOOLEAN, charge : Charges \cup {0},
                         status : BillingStatuses]
             log == [user : Callers, hold : places, charge : Nat, status : BillingStatuses]
  <2>2. ASSUME NEW r \in Requests PROVE requests[r] \in request
    <3>1. requests[r] \in RequestRow /\ requests[r].hold \in places
      BY RowTypes DEF ChargingInv, Owned, Own
    <3> HIDE DEF places
    <3> QED BY <3>1 DEF RequestRow
  <2>3. ASSUME NEW i \in 1..Len(logs) PROVE logs[i] \in log
    <3>1. logs[i] \in LogRow /\ logs[i].hold \in places
      BY RowTypes DEF ChargingInv, LogsAreTrue
    <3> HIDE DEF places
    <3> QED BY <3>1 DEF LogRow
  <2>4. requests \in [Requests -> request]
    BY <2>2 DEF ChargingInv
  <2>5. logs \in Seq(log)
    <3>1. Len(logs) \in Nat /\ logs \in [1..Len(logs) -> LogRow]
      BY LenProperties DEF ChargingInv
    <3>2. logs \in [1..Len(logs) -> log]
      BY <2>3, <3>1
    <3> HIDE DEF log
    <3> QED BY <3>1, <3>2, SeqDef
  <2> QED BY <2>1, <2>4, <2>5 DEF ChargingTypeOK, PolicyTable, BillingStatuses
<1> QED BY <1>1, ChargingInvariant, PTL

\* Each usage log tells what settle did to its hold, and no hold is logged
\* twice, however settle, the sweep and deaths interleave.
THEOREM MoneyTrailHolds == ChargingSpec => []MoneyTrail
<1>1. ChargingInv => MoneyTrail
  BY DEF ChargingInv, LogsAreTrue, Outcome, MoneyTrail
<1> QED BY <1>1, ChargingInvariant, PTL

\* prepare lets no billed request reach the provider without a hold of its own.
THEOREM CallsAreCovered == ChargingSpec => []CallsAreHeld
<1>1. ChargingInv => CallsAreHeld
  <2> SUFFICES ASSUME ChargingInv, NEW r \in Requests,
                      requests[r].at = "call", requests[r].billed
               PROVE  /\ requests[r].hold \in 1..Len(holds)
                      /\ holds[requests[r].hold].status \in {"ACTIVE", "EXPIRED"}
                      /\ \A s \in Requests \ {r} : requests[s].hold # requests[r].hold
    BY DEF CallsAreHeld
  <2>1. requests[r].hold # 0 /\ Own(requests[r])
    BY DEF ChargingInv, Owned, Own
  <2> QED BY <2>1, RowTypes DEF ChargingInv, Alone, Own
<1> QED BY <1>1, ChargingInvariant, PTL

\* assertAccess lets the logged requests of a user, or of nobody, exceed a limit
\* that was in force by less than the number of that user's requests in flight at
\* once.  Nothing of the kind holds of the tenant's users together.
THEOREM OverrunIsBounded == ChargingSpec => []RequestsBounded
<1>1. ChargingInv /\ UsageInv => RequestsBounded
  <2> SUFFICES ASSUME ChargingInv, UsageInv, NEW u \in Callers, BilledLogs(u) # {}
               PROVE  \E limit \in Limits :
                  Cardinality(BilledLogs(u)) <= limit - 1 + Cardinality(RequestsOf(u))
    BY DEF RequestsBounded
  <2> DEFINE b == Cardinality(BilledLogs(u))
             p == Cardinality(Passed(u))
             n == Cardinality(RequestsOf(u))
  <2>1. b \in Nat /\ p \in Nat /\ n \in Nat /\ Limits \subseteq Nat
    BY Counts
  <2>2. b + p = 0 \/ \E limit \in Limits : b + p <= limit - 1 + n
    BY DEF UsageInv, Tolerable
  <2>3. b # 0
    BY Counts, FS_EmptySet
  <2> HIDE DEF b, p, n
  <2>4. PICK limit \in Limits : b + p <= limit - 1 + n
    BY <2>1, <2>2, <2>3
  <2>5. b <= limit - 1 + n
    BY <2>1, <2>4
  <2> QED BY <2>5 DEF b, n
<1> QED BY <1>1, ChargingInvariant, PTL

\* The spend that assertAccess lets a user through with exceeds a limit that was
\* in force, less an estimate that fitted under it, by at most one charge for each
\* of the user's requests in flight at once.
THEOREM SpendIsBounded == ChargingSpec => []SpendBounded
<1>1. ChargingInit => SpendInv
  BY SpendInitInv
<1>2. /\ ChargingInv /\ ChargingInv' /\ SpendInv /\ [ChargingNext]_vars => SpendInv'
  BY SpendStepInv
<1>3. ChargingInv /\ SpendInv => SpendBounded
  <2> SUFFICES ASSUME ChargingInv, SpendInv, NEW u \in Callers, BilledSpend(u) > 0
               PROVE  \E maxSpend \in SpendLimits, estimate \in HoldAmounts,
                         charge \in Charges :
                         Exact(BilledSpend(u)) <= Exact(maxSpend) - estimate
                            + Cardinality(RequestsOf(u)) * Exact(Stored(charge))
    BY DEF SpendBounded
  <2>1. PICK maxSpend \in SpendLimits, estimate \in HoldAmounts,
             c \in Charges \cup {0} : Affordable(u, maxSpend, estimate, c)
    BY LogCharges DEF SpendInv, SpendOf, Afforded
  <2>2. BilledSpend(u) \in Nat /\ Charges # {}
    BY LogCharges DEF SpendInv, SpendOf
  <2>3. PICK charge \in Charges : c <= charge
    <3>1. \A d \in Charges : d \in Nat /\ 0 <= d
      BY AmountsAssumption
    <3>2. CASE c = 0
      BY <2>2, <3>1, <3>2
    <3>3. CASE c # 0
      BY <3>1, <3>3
    <3> QED BY <3>2, <3>3
  <2> DEFINE n == Cardinality(RequestsOf(u))
             p == Cardinality(Passed(u))
             x == (n - p) * Exact(Stored(c))
             y == n * Exact(Stored(charge))
             spent == Exact(BilledSpend(u))
             most == Exact(maxSpend)
  <2>4. n \in Nat /\ p \in Nat /\ p <= n
    BY Counts
  <2>5. x \in Nat /\ y \in Nat /\ x <= y
    <3>1. (n - 0) * Exact(Stored(charge)) = y
      BY <2>4
    <3>2. 0 \in Nat /\ 0 <= p /\ charge \in Charges \cup {0}
      BY <2>4
    <3> QED BY <2>3, <2>4, <3>1, <3>2, SpareGrows
  <2>6. spent <= most - estimate + x
    BY <2>1 DEF Affordable, Spare
  <2>7. spent \in Int /\ most \in Int /\ estimate \in Nat
    BY <2>2, ExactInt, SpendTypes
  <2> HIDE DEF x, y, spent, most, n, p
  <2>8. spent <= most - estimate + y
    BY <2>5, <2>6, <2>7
  <2> QED BY <2>8 DEF y, spent, most, n
<1> QED BY <1>1, <1>2, <1>3, ChargingInvariant, PTL DEF ChargingSpec

\* The wallet under the charging lifecycle keeps its own invariant.
THEOREM WalletUnderCharging == ChargingSpec => []WalletInv
<1>1. ChargingInv => WalletInv
  BY DEF ChargingInv
<1> QED BY <1>1, ChargingInvariant, PTL
=============================================================================
