------------------------------ MODULE Charging ------------------------------
(***************************************************************************)
(* The charging lifecycle of an AI request over the wallet of module       *)
(* Wallet: prepare (access policy, usage limits, reserve), the provider    *)
(* call, settle (finalize or release, then the usage log), as              *)
(* charge.service.ts, access.service.ts and callProvider in                *)
(* ai-provider.service.ts run it, with the ten-minute sweep behind it.     *)
(*                                                                         *)
(* Every database statement is a step of its own, so that concurrent       *)
(* requests of a tenant check their limits before any of them has logged   *)
(* its usage, and a request may die between any two.  The wallet           *)
(* operations are single steps (module WalletLocks says why).              *)
(*                                                                         *)
(* One window of limits is modelled (the daily and the monthly one differ  *)
(* in their start only); the model allow-list and the per-query cost limit *)
(* depend on the request alone and are among the requests never made.  The *)
(* wallet stays ACTIVE: closing or suspending it only adds refusals, which *)
(* Abandon stands for.                                                     *)
(*                                                                         *)
(* A request is made for a user, or for nobody (the narratives of the      *)
(* generated insights carry a tenant only).  Every limit, also one of the  *)
(* tenant or the plan, is checked against the usage of that user alone; a  *)
(* request for nobody is checked against the usage of the whole tenant.    *)
(***************************************************************************)
EXTENDS Wallet, FiniteSets

CONSTANTS
    Requests,       \* AI requests that may be in flight at once
    Users,          \* the users of the tenant,
    Nobody,         \* no user,
    UserOf,         \* and whom each request is made for
    Credit,         \* units the tenant has bought
    TenantRows,     \* access policies an administrator may give the tenant,
    UserRows,       \* each user,
    PlanRow,        \* and the one of the plan, as [status, limit, maxSpend]
    NoLimit,        \* a NULL limit
    Enforcement,    \* AI_BILLING_ENFORCEMENT of the processes that run
    MaxUnbilled,    \* bound: requests served without enforcement
    MaxServed,      \* bound: requests served, with or without it
    PolicyHolds     \* bound: holds made before the last change of a policy

NoRow == [status |-> "none", limit |-> NoLimit, maxSpend |-> NoLimit]
AccessStatuses == {"ENABLED", "DISABLED", "SUSPENDED"}
PolicyRows == [status : AccessStatuses, limit : Nat \cup {NoLimit},
               maxSpend : Nat \cup {NoLimit}]

ASSUME ChargingAssumption ==
    /\ IsFiniteSet(Requests)
    /\ Nobody \notin Users
    /\ UserOf \in [Requests -> Users \cup {Nobody}]
    /\ NoLimit \notin Nat
    /\ Credit \in Nat \ {0}
    /\ TenantRows \cup UserRows \cup {PlanRow} \subseteq PolicyRows
    /\ PlanRow.limit # NoLimit /\ PlanRow.maxSpend # NoLimit
    /\ Enforcement \subseteq BOOLEAN
    /\ {MaxUnbilled, MaxServed, PolicyHolds} \subseteq Nat

\* Those a request is made for.
Callers == Users \cup {Nobody}

VARIABLES
    policies,   \* the ai_access_policies rows of the users, tenant and plan
    requests,   \* where each request is, and what it remembers
    logs        \* the ai_usage_logs rows

vars == <<walletVars, policies, requests, logs>>

Places == {"idle", "usage", "reserve", "call", "settle", "log"}

\* billed: enforcement was on; hold: its reservation; success, charge: what the
\* provider call came to; status: the billing status to log.
IdleRequest == [at |-> "idle", billed |-> FALSE, limit |-> NoLimit,
                maxSpend |-> NoLimit, estimate |-> 0, hold |-> 0,
                success |-> FALSE, charge |-> 0, status |-> "UNBILLED"]

ChargingInit ==
    /\ wallet = Applied(NewWallet, "PURCHASE", Exact(Credit))
    /\ holds = <<>>
    /\ ledger = <<LedgerRow(NewWallet, "PURCHASE", Exact(Credit), 0)>>
    /\ policies = [user |-> [u \in Users |-> NoRow], tenant |-> NoRow, plan |-> PlanRow]
    /\ requests = [r \in Requests |-> IdleRequest]
    /\ logs = <<>>

Become(r, request) == requests' = [requests EXCEPT ![r] = request]
Goto(r, place) == requests' = [requests EXCEPT ![r].at = place]
End(r) == Become(r, IdleRequest)

-----------------------------------------------------------------------------
(* Access governance.                                                      *)

\* The rows that apply to a user, the most specific first; none is looked up
\* for nobody.
Chain(u) == <<IF u = Nobody THEN NoRow ELSE policies.user[u],
              policies.tenant, policies.plan>>
MostSpecific(u, n) == \A m \in 1..(n - 1) : Chain(u)[m] = NoRow

\* getEffectivePolicy: the most specific row that exists decides the status,
\* and each limit comes from the most specific row that has one.
EffectiveStatus(u) ==
    LET n == CHOOSE i \in 1..3 : Chain(u)[i] # NoRow /\ MostSpecific(u, i)
    IN  Chain(u)[n].status
FirstWith(u, has(_)) ==
    Chain(u)[CHOOSE i \in 1..3 :
                /\ has(Chain(u)[i])
                /\ \A m \in 1..(i - 1) : ~has(Chain(u)[m])]
EffectiveLimit(u) == FirstWith(u, LAMBDA row : row.limit # NoLimit).limit
EffectiveMaxSpend(u) == FirstWith(u, LAMBDA row : row.maxSpend # NoLimit).maxSpend

\* Mutated: the usage query counts the requests that were charged only.
CountedCharged(u) ==
    {i \in 1..Len(logs) : logs[i].status = "CHARGED" /\ u \in {Nobody, logs[i].user}}

\* usageSince: the requests and the spend that count against the limits of a
\* user are that user's own; for nobody the query has no user filter.
Counted(u) ==
    {i \in 1..Len(logs) : logs[i].status # "UNBILLED" /\ u \in {Nobody, logs[i].user}}
Spend(u) ==
    Total([i \in 1..Len(logs) |-> IF i \in Counted(u) THEN logs[i].charge ELSE 0],
          Len(logs))

\* Mutated: the estimate is compared with the limit, whatever was spent before.
WithinLimitsByQuery(u, request) ==
    /\ Cardinality(Counted(u)) < request.limit
    /\ request.estimate <= Exact(request.maxSpend)

\* assertAccess against limits read earlier.
WithinLimits(u, request) ==
    /\ Cardinality(Counted(u)) < request.limit
    /\ Exact(Spend(u)) + request.estimate <= Exact(request.maxSpend)

\* upsertPolicy and deletePolicy for a user and the tenant.
ChangePolicy ==
    /\ Len(holds) <= PolicyHolds
    /\ \/ \E row \in TenantRows \cup {NoRow} : policies' = [policies EXCEPT !.tenant = row]
       \/ \E u \in Users, row \in UserRows \cup {NoRow} :
             policies' = [policies EXCEPT !.user[u] = row]
    /\ UNCHANGED <<walletVars, requests, logs>>

-----------------------------------------------------------------------------
(* prepare.                                                                *)

\* Requests logged or in flight that had no hold; only the bounds look at it.
ServedUnbilled ==
    Cardinality({i \in 1..Len(logs) : logs[i].hold = 0})
      + Cardinality({r \in Requests : requests[r].at # "idle" /\ ~requests[r].billed})

\* Enforcement off: no access check, no hold, straight to the provider.  Once
\* switched on it stays on ("the platform owner flips it on once wallets are
\* funded"), so no unbilled request starts after a billed one.
PrepareUnbilled(r) ==
    /\ FALSE \in Enforcement
    /\ requests[r] = IdleRequest
    /\ ServedUnbilled < MaxUnbilled
    /\ holds = <<>> /\ \A s \in Requests : ~requests[s].billed
    /\ Goto(r, "call")
    /\ UNCHANGED <<walletVars, policies, logs>>

\* The policy rows are read first; only an ENABLED account goes on ...
ReadPolicy(r, estimate) ==
    /\ TRUE \in Enforcement
    /\ requests[r] = IdleRequest
    /\ EffectiveStatus(UserOf[r]) = "ENABLED"
    /\ Become(r, [IdleRequest EXCEPT !.at = "usage", !.billed = TRUE,
                                     !.estimate = estimate,
                                     !.limit = EffectiveLimit(UserOf[r]),
                                     !.maxSpend = EffectiveMaxSpend(UserOf[r])])
    /\ UNCHANGED <<walletVars, policies, logs>>

\* ... then the usage of the window, refused at a limit ...
AssertAccess(r) ==
    /\ requests[r].at = "usage"
    /\ IF WithinLimits(UserOf[r], requests[r]) THEN Goto(r, "reserve") ELSE End(r)
    /\ UNCHANGED <<walletVars, policies, logs>>

\* Mutated: a refused hold does not stop the request.
ReserveFailsOpen(r) ==
    /\ requests[r].at = "reserve"
    /\ Goto(r, "call")
    /\ UNCHANGED <<walletVars, policies, logs>>

\* ... and last the hold, refused when the wallet cannot cover it.
Reserve(r) ==
    /\ requests[r].at = "reserve"
    /\ Len(holds) + ServedUnbilled < MaxServed
    /\ ReserveCredits(requests[r].estimate)
    /\ Become(r, [requests[r] EXCEPT !.at = "call", !.hold = Len(holds) + 1])
    /\ UNCHANGED <<policies, logs>>

-----------------------------------------------------------------------------
(* The provider call (external): it answers, or fails for good.            *)

ProviderAnswers(r, charge) ==
    /\ requests[r].at = "call"
    /\ Become(r, [requests[r] EXCEPT !.at = "settle", !.success = TRUE,
                                     !.charge = charge])
    /\ UNCHANGED <<walletVars, policies, logs>>

ProviderFails(r) ==
    /\ requests[r].at = "call"
    /\ Goto(r, "settle")
    /\ UNCHANGED <<walletVars, policies, logs>>

-----------------------------------------------------------------------------
(* settle: the money, then the usage log.  An error in between is logged   *)
(* and swallowed: the request is over.                                     *)

LogNext(r, status) ==
    Become(r, [requests[r] EXCEPT !.at = "log", !.status = status])

\* Mutated: a hold that cannot be finalized is logged as charged all the same.
SettleChargedAnyway(r) ==
    /\ requests[r].at = "settle" /\ requests[r].billed /\ requests[r].success
    /\ \/ FinalizeReservation(requests[r].hold, requests[r].charge)
       \/ holds[requests[r].hold].status # "ACTIVE" /\ UNCHANGED walletVars
    /\ LogNext(r, "CHARGED")
    /\ UNCHANGED <<policies, logs>>

SettleCharged(r) ==
    /\ requests[r].at = "settle" /\ requests[r].billed /\ requests[r].success
    /\ FinalizeReservation(requests[r].hold, requests[r].charge)
    /\ LogNext(r, "CHARGED")
    /\ UNCHANGED <<policies, logs>>

SettleFailed(r) ==
    /\ requests[r].at = "settle" /\ requests[r].billed /\ ~requests[r].success
    /\ \/ ReleaseReservation(requests[r].hold, "RELEASED")
       \/ holds[requests[r].hold].status # "ACTIVE" /\ UNCHANGED walletVars
    /\ LogNext(r, "FAILED")
    /\ UNCHANGED <<policies, logs>>

SettleUnbilled(r) ==
    /\ requests[r].at = "settle" /\ ~requests[r].billed
    /\ LogNext(r, IF requests[r].success THEN "UNBILLED" ELSE "FAILED")
    /\ UNCHANGED <<walletVars, policies, logs>>

\* The usage log row; only a billed success is logged with its charge.
WriteUsageLog(r) ==
    LET request == requests[r] IN
    /\ request.at = "log"
    /\ logs' = Append(logs, [user |-> UserOf[r], hold |-> request.hold,
                             status |-> request.status,
                             charge |-> IF request.success /\ request.billed
                                        THEN Stored(request.charge) ELSE 0])
    /\ End(r)
    /\ UNCHANGED <<walletVars, policies>>

\* The request is refused by the wallet, its settle throws and is swallowed
\* (an expired hold, a closed wallet, a failing statement), or it dies.
Abandon(r) ==
    /\ requests[r] # IdleRequest
    /\ End(r)
    /\ UNCHANGED <<walletVars, policies, logs>>

-----------------------------------------------------------------------------
(* Around the requests.                                                    *)

HoldAges(h) ==
    /\ TtlPasses(h)
    /\ UNCHANGED <<policies, requests, logs>>

\* Mutated: only the newest hold is looked at.
SweepNewest(h) ==
    /\ h = Len(holds)
    /\ ExpireStaleReservation(h)
    /\ UNCHANGED <<policies, requests, logs>>

Sweep(h) ==
    /\ ExpireStaleReservation(h)
    /\ UNCHANGED <<policies, requests, logs>>

ChargingNext ==
    \/ \E r \in Requests :
          \/ PrepareUnbilled(r)
          \/ \E estimate \in HoldAmounts : ReadPolicy(r, estimate)
          \/ AssertAccess(r) \/ Reserve(r)
          \/ \E charge \in Charges : ProviderAnswers(r, charge)
          \/ ProviderFails(r)
          \/ SettleCharged(r) \/ SettleFailed(r) \/ SettleUnbilled(r)
          \/ WriteUsageLog(r) \/ Abandon(r)
    \/ \E h \in 1..Len(holds) : HoldAges(h) \/ Sweep(h)
    \/ ChangePolicy

\* Time passes and the cron runs the sweep, as long as there is a hold for
\* them; nothing else need happen, and no request need ever settle.
Fairness ==
    /\ WF_vars(\E h \in 1..Len(holds) : HoldAges(h))
    /\ WF_vars(\E h \in 1..Len(holds) : Sweep(h))

ChargingSpec == ChargingInit /\ [][ChargingNext]_vars /\ Fairness

-----------------------------------------------------------------------------
(* Properties.                                                             *)

\* Type invariant of the policies, the usage log and the requests in flight.
ChargingTypeOK ==
    /\ TypeOK
    /\ policies \in [user : [Users -> UserRows \cup {NoRow}],
                     tenant : TenantRows \cup {NoRow}, plan : {PlanRow}]
    /\ requests \in [Requests ->
           [at : Places, billed : BOOLEAN, limit : Nat \cup {NoLimit},
            maxSpend : Nat \cup {NoLimit}, estimate : HoldAmounts \cup {0},
            hold : 0..Len(holds), success : BOOLEAN, charge : Charges \cup {0},
            status : {"CHARGED", "FAILED", "UNBILLED"}]]
    /\ logs \in Seq([user : Callers, hold : 0..Len(holds), charge : Nat,
                     status : {"CHARGED", "FAILED", "UNBILLED"}])

\* What a USAGE_CHARGE row took for hold h.
ChargeRows(h) ==
    {i \in 1..Len(ledger) : ledger[i].type = "USAGE_CHARGE" /\ ledger[i].ref = h}

\* The money trail: each usage log tells what really happened to its hold - a
\* CHARGED one was finalized for the amount logged, no other was charged - and
\* no hold is logged twice, however settle raced the sweep.
MoneyTrail ==
    \A i \in 1..Len(logs) : logs[i].hold # 0 =>
        /\ logs[i].status = "CHARGED" =>
              /\ holds[logs[i].hold].status = "FINALIZED"
              /\ \A row \in ChargeRows(logs[i].hold) : ledger[row].amount = -logs[i].charge
              /\ logs[i].charge # 0 => ChargeRows(logs[i].hold) # {}
        /\ logs[i].status # "CHARGED" => ChargeRows(logs[i].hold) = {}
        /\ \A j \in 1..Len(logs) : logs[j].hold = logs[i].hold => i = j

\* While enforcement is on, no request runs at the provider without a hold of
\* its own, which only the sweep can have taken away.
CallsAreHeld ==
    \A r \in Requests : requests[r].at = "call" /\ requests[r].billed =>
        /\ requests[r].hold \in 1..Len(holds)
        /\ holds[requests[r].hold].status \in {"ACTIVE", "EXPIRED"}
        /\ \A s \in Requests \ {r} : requests[s].hold # requests[r].hold

\* The limits of the rows that may come into force.
Limits == {row.limit : row \in TenantRows \cup UserRows \cup {PlanRow}} \ {NoLimit}
SpendLimits == {row.maxSpend : row \in TenantRows \cup UserRows \cup {PlanRow}}
                  \ {NoLimit}

\* What was billed to a user, and who may be in flight for that user at once.
BilledLogs(u) == {i \in 1..Len(logs) : logs[i].hold # 0 /\ logs[i].user = u}
BilledSpend(u) ==
    Total([i \in 1..Len(logs) |-> IF i \in BilledLogs(u) THEN logs[i].charge ELSE 0],
          Len(logs))
RequestsOf(u) == {r \in Requests : UserOf[r] = u}

\* Limits are checked against the usage the user has logged so far, so concurrent
\* requests of a user can pass together; a user's overrun is less than the number
\* of the user's own requests in flight at once.
RequestsBounded ==
    \A u \in Callers : BilledLogs(u) # {} =>
        \E limit \in Limits :
            Cardinality(BilledLogs(u)) <= limit - 1 + Cardinality(RequestsOf(u))

\* The spend limit, likewise: some estimate still fitted under it, and beyond
\* that a user spends at most what the user's requests in flight at once may
\* cost, each as its usage log rounds it.
SpendBounded ==
    \A u \in Callers : BilledSpend(u) > 0 =>
        \E maxSpend \in SpendLimits, estimate \in HoldAmounts, charge \in Charges :
            Exact(BilledSpend(u))
                <= Exact(maxSpend) - estimate
                     + Cardinality(RequestsOf(u)) * Exact(Stored(charge))

\* "Release credit holds whose caller died mid-request" (ReservationSweepScheduler):
\* every hold ends, whatever became of its request.
HoldsEnd ==
    \A h \in 1..MaxHolds :
        []<>(h \in 1..Len(holds) => holds[h].status # "ACTIVE")
=============================================================================
