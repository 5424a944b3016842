# ForecastHub: a TLA+ development of its core

ForecastHub is a multi-tenant planning product: a NestJS API over PostgreSQL
(`src/apps/api`), a React client (`src/apps/web`), BullMQ queues on Redis, an ERP
synchronisation (Marg EDE), manufacturing and inventory, forecasting, reports,
and an AI reporting feature that is paid for from prepaid credits.

Most of the product is wide: SQL, mapping, statistics, pages. This development
is about the parts that have a *protocol*, where several requests, jobs, crons
or outside systems write the same rows:

- the **AI billing platform** (`modules/ai-billing`): a single writer of balances
  behind row locks, two payment rails with asynchronous webhooks, refunds that
  touch Stripe and the ledger without a common transaction, disputes handled by
  several administrators, a hold / call / settle lifecycle with a sweep behind it;
- the **Marg synchronisation** (`modules/marg-ede`): a lock kept in status
  columns, heartbeats, dead workers, cursors, pages that are fetched, staged and
  replayed;
- the **approval workflows** (`core/workflow`, with the plans that are approved
  through them): check-then-act by several users over one instance;
- the **insights** (`modules/insights-dashboard`): overlapping generation runs and
  users' decisions over the same rows.

## 1. Inventory

| Component | State it keeps | Operations | What is hard | What makes it correct | Modelled in |
|---|---|---|---|---|---|
| Wallet (`wallet.service.ts`) | wallet row (balance, reserved, four aggregates, status, threshold), holds, ledger | post, reserve, finalize, release, expire, settings | row locks, races between settle, release and sweep; rounding | books reconcile, reserved = active holds, one charge per hold, no overspend | `Wallet`, `WalletLocks` |
| Purchases (`purchase.service.ts`, webhook controller) | purchase rows; Stripe's sessions | checkout, webhook events, sweep, bank transfer, review, cancel | lost, duplicated and reordered events; blind writes | credited once, only against money; nothing stays PENDING | `Purchases` |
| Refunds (`refund.service.ts`) | refund rows, purchase status | create | half-finished sequences over Stripe, wallet and database | completed = ledgered; debit only after the payout; the cap; REFUNDED only when refunded | `Disputes` |
| Disputes (`dispute.service.ts`) | dispute status | create, reply, status, admin actions | check-then-act over transactions | a charge is reversed once; settled only by money that moved | `Disputes` |
| Charging (`charge.service.ts`, `callProvider`) | tickets in flight, usage log | prepare, settle | dying callers, swallowed errors, long calls | log agrees with ledger, every hold ends | `Charging` |
| Access policies (`access.service.ts`) | policy rows | effective policy, limits, upsert, delete | limits checked before usage is logged, and against one user's usage | a user's overrun bounded by what that user has in flight | `Charging` (partly) |
| Sweep (`ai-billing.module.ts`) | none | every ten minutes | works from a stale list | holds and purchases end | `Wallet`, `Purchases`, `Charging` |
| Stripe client (`stripe.client.ts`) | none | sessions, refunds | omitted parameters | pays what was asked | `Purchases`, `Disputes` (partly) |
| Marg synchronisation (`marg-ede.service.ts`, `marg-sync.scheduler.ts`) | config row (two lock columns, cursors), sync logs, raw pages, staged rows, projected entries | run, fetch, stage, project, resume, reproject, recover, unlock, reset | heartbeats that write the lock blindly, dead workers, partial fetches, failures between stages | one run at a time; the cursor passes nothing unstaged or unprojected; nothing live is hidden; locks end | `MargSync` (partly) |
| Workflow engine (`workflow.service.ts`, `manufacturing.service.ts`) | instances, actions, templates | start, approve, reject, return, cancel, resubmit | no transactions: every check is stale when its write comes | APPROVED has its signatures; one active instance; verdicts stand | `SignOff`, `Approvals` (partly) |
| Plans (`plans.service.ts`) | plan versions | submit, approve, reject, lock, unlock, archive | workflow verdict and plan status are two writes | an approved plan was signed off | `Approvals` (partly) |
| Insights (`insight-generation.service.ts`, `insights.service.ts`) | insight rows | generate, archive, acknowledge, resolve, archive, reopen | runs overlap, archival compares dates, writes by id after a read | what was detected is on display; decisions stand | `Insights` (partly) |
| Pricing (`pricing.service.ts`) | price rows | resolve, compute | precision | precedence tenant, plan, global | not modelled |
| Inventory ledger | stock levels, reservations, holds, entries | record, reserve, release, hold | optimistic versions, unlocked reads | stock is never released twice | not modelled (section 5) |
| Job queues | forecast and import jobs | process, retry | retries over partial results | results belong to one run | not modelled |
| Auth, tenant cache | tokens, counters, cached values | refresh, login, get-or-set | check-then-act (`auth.service.ts:180`, `:927`), stale stores (`tenant-cache.service.ts:182`) | one live token per rotation | not modelled |
| Manufacturing, accounting, reports, settings, web client | business rows | CRUD, SQL, pages | little protocol | | not modelled |

`PROJECT.json` lists every component with its sources, and the hazards with
the line where it bites and the property that would catch it.

How the parts interact. Everything that moves a balance calls `WalletService`:
a purchase posts inside its own transaction; a refund posts between a Stripe call
and two updates; a dispute posts or creates a refund; an AI request reserves
before the provider call and finalizes or releases after it; the cron sweeps what
died. Submitting a plan starts a workflow, and the verdict of the workflow is
read, and written to the plan, by later requests. A Marg run is started by the
scheduler, by an operator or by a queue job, and the hourly sweep takes its lock
away when it stops writing. There are no messages between services: they share
rows, and what one read may be stale when it writes.

## 2. Modules

```
Totals <- Wallet <- WalletLocks         MCWallet, MCWalletLocks
                 <- Purchases           MCPurchases
                 <- Disputes            MCDisputes
                 <- Charging            MCCharging
SignOff <= Approvals                    MCApprovals
MargSync                                MCMargSync
Insights                                MCInsights

Wallet <- WalletProofs;  WalletLocks + WalletProofs <- WalletLocksProofs
Purchases, Charging, Disputes + WalletProofs <- PurchasesProofs, ChargingProofs, DisputesProofs
Approvals <- ApprovalsProofs;  Insights <- InsightsProofs;  MargSync <- MargSyncProofs
```

(`<-` extended by, `<=` implemented by.)

**Totals** has the two kinds of amount and the sum over rows. A money column is
`DECIMAL(18,6)`; `computeCost` does not round, so a charge may have six digits
more. Exact amounts are integers of *sub-units*, stored ones integers of
*units* (10^-6 credit), and `Stored` is PostgreSQL's rounding: to the nearest,
halves away from zero. Prisma's own limit of 20 significant digits is not
modelled.

**Wallet** is the abstract specification of the wallet: one action per operation
of `WalletService`, each atomic. `wallet`, `holds` and `ledger` are the rows of
`ai_wallets`, `ai_credit_reservations` and `ai_wallet_transactions`. `MayApply`,
`Applied` and `LedgerRow` are the checks, the update and the row of
`applyTransaction`; an operation the code refuses is not enabled.
`relatedEntityId` is `ref`; where the code names the AI request on a charge the
model names its hold.

**WalletLocks** is the detailed specification: each caller begins a READ
COMMITTED transaction, waits for the reservation row and the wallet row, reads
them, and commits values computed from what it read. An UPDATE writes only the
columns it names (`WithColumns`), so an update that did not wait would be lost
in the model as it would be in the database. Callers may die at any step. The
sweep lists stale holds outside any transaction. `WalletSpec`, which is the
`Spec` of `Wallet`, is checked as a property and proved: the refinement mapping is the
identity on the three rows, and every step is a wallet step or a stutter.

**Purchases** adds purchase rows, Stripe's session states, and the set of events
Stripe ever sent: an event stays in the set, so it may be delivered never, late,
again, and in any order. `completePurchase` is one row-locked transaction and
one step. Cancelling, rejecting and recording a failed payment read a PENDING
row and later write it by id: a worker remembers the task in between. The
25-hour sweep and the expiry event are single conditional updates.

**Disputes** follows `RefundService.create` and `DisputeService.adminAction`
statement by statement: `at` of a request is the next statement, its other
fields are the local variables. Stripe may pay and answer, pay and lose the
answer, or refuse; any statement of the try block may fail; the process may die.
The purchase refunded is a COMPLETED card purchase with a payment intent, which
a cash refund requires; a purchase in another state is not a starting point.

**Charging** runs requests through the policy read, the usage query, the hold,
the provider, settle and the usage log, each a step, over the atomic wallet
operations that `WalletLocks` justifies. An error in settle is swallowed
(`Abandon`), as in the code. The policy rows are those of the users, the tenant and
the plan, most specific first; the plan's has limits, because a tenant without any
row is unrestricted and has nothing to check. A request is made for a user, or, as
the narratives of the insights are, for `Nobody`. Whatever row a limit comes from,
`usageSince` counts the logs of the asking user alone (`access.service.ts:236`), and
those of the whole tenant when nobody asks: so does `Counted`.

**MargSync** is one Marg company. The ERP (external) is `feed`, the time each row
last changed, and answers a cursor with the next change after it; API 2 gives
stock batches, API 1 account bills, one row to a page. `config` is the
`marg_sync_configs` row: the two RUNNING columns that are the lock, the saved
cursor and the age of `updatedAt`. `logs`, `pages`, `staged` and `projected` are
the sync logs, the raw pages, the staging rows and the journal entries made from
them. A worker goes through `runSync` (lock, log, fetch, save page, stage, mark
page, hide what was not seen, project, commit the cursor, finish) or `resumeSync`
(lock, replay saved pages, finish); no two of these statements share a
transaction, so anything may come between them. `SetStatus` is
`touchSyncHeartbeat` as it is written: it says RUNNING without looking. The
hourly sweep (`RecoverStaleConfigsAndLogs`), the operator's forced unlock, the
cursor reset, failures at every stage and the death of a worker are actions. The
history variable `causes` records the things the code does not guard
against, so that a property may excuse them and nothing else (section 3 lists which
property excuses which, and where the code's comments promise more):

- `overlap`: two processes were past the lock together;
- `moved`: a run with a `fromDate`, or with nothing to read, set the cursor, or an old
  page was replayed over a newer one;
- `recovered`: a full run with an empty cursor of its own started where the last
  completed log of a backfill or of the accounts had ended;
- `hidden`: a full run started at any recovered cursor and is taken for a complete
  snapshot all the same, or an operator cleared staging;
- `unprojected`: a projection failed and the run went on.

**SignOff** is what an approval workflow promises: signatures are permanent and
come from authorised users, nobody is asked before the steps below are complete,
and the verdict APPROVED needs all steps. **Approvals** is the code: a task is a
request between two of its writes. It has read the instance, passed the checks of
`approve`, `reject`, return, cancel or resubmit, and writes later, by id, without
looking again; it may die between its writes. Around the instances it has the
plan version that is submitted, approved, rejected, locked, unlocked and
archived on the strength of them, and the switch that turns the template on and
off. `SignOffSpec` is the refinement: the signatures are the APPROVE rows, `reached` is
the current step and `approved` the instances that say so.

**Insights** has the insight rows, generation runs at several workers and users'
transitions. A run goes provider by provider: query, then for each candidate
read the row and write it by id, then archive what its `lastEvaluatedAt` says was
not seen. That column is only ever compared with the start of a run, so `fresh`
and `elders` keep the comparison and not the clock. A retried, stalled or
duplicated job is one more run.

Definitions named "Mutated" are plausible faults; `PROJECT.json` pairs every
property with one that breaks it.

## 3. Runs

| Run | Instance | Shows |
|---|---|---|
| `wallet_locks` | 2 callers, 2 holds, 2 ledger rows; a purchase, a cash refund, estimates of 1.3 and 2.6 units, charges of 0 and 1.6 | books, reserved column, ledger chain, aggregates, single charging, overspend, refinement of `Wallet`, termination of every transaction |
| `purchases` | 1 card purchase, 1 bank transfer, 2 workers, 3 ledger rows | credited once, only against money, expiry only without credit, and card purchases are decided |
| `disputes` | 1 dispute, 2 requests; a purchase of two cents refunded in cash in full, and by halves in cash and in credits, up to 3 refunds while there is no dispute and one beside it; a reversal, a debit | refunds ledgered, debited after payout, within the price and up to it when REFUNDED but for one refund of the other request; bounded reversals; a dispute is settled only by completed money |
| `charging` | 2 requests of a user at a time, 4 in all, one of them without enforcement; limits of 2 requests and 2 units, charges of 2 against estimates of 1.3 | money trail, calls are held, the limits are passed only by what is in flight, every hold ends |
| `marg_sync` | 2 workers, 2 stock rows, 1 bill, 3 changes of the feed, 2 runs, 1 failure, death or intervention; full, accounting, windowed and reprojecting runs | two runs exclude each other, the cursor passes only what is staged and projected, only rows that are gone are hidden, completed logs are staged, the inventory lock is released |
| `approvals` | 2 tasks, 2 users, 3 steps (the second needs two users), 2 instances, 8 requests | APPROVED is signed off and so is the plan, refinement of `SignOff`; one active instance and final verdicts unless requests overlapped |
| `insights` | 2 workers, 1 user, 1 key, 2 providers, 1 fault | a run that is alone leaves what it detected, decisions stand, cleared insights close, live ones stay |

The passing runs say what the program keeps. Where a comment, a document or a test
of the repository says more than that, a violation run shows the difference, and
`PROJECT.json` quotes the line under "findings"; the differences without a run are at
the end of this section:

| Violation run | Promised | What happens |
|---|---|---|
| `wallet_books` | `BooksReconcile` | balance and ledger row round apart at charges with half a unit |
| `purchases_settlement` | `SettlementDecides` | the sweep expires a purchase that awaits settlement |
| `refunds_cap` | `RefundsCapped` | two administrators read the sum of the refunds before either has written, so both pass the cap; one of the two is a cash refund of less than half a cent, and Stripe pays all that is left |
| `disputes_reversal` | `ChargeReversedOnce` | two administrators reverse one charge |
| `marg_cursor` | `StockIsWhole` | without any failure, a full run starts where a bounded backfill ended and commits past stock never staged |

Bounds. Every race in this code is between two parties (two requests, a request
and the sweep, two administrators, two runs), so two of each reach it; a third
holder of a row lock would only wait. `MaxHolds`, `MaxRows`, `MaxRefunds`,
`MaxUnbilled`, `MaxServed`, `MaxInstances` and `MaxLogs` cap the tables and nothing
else; two ledger rows already chain, charge and overdraw, four holds let one user pass
a limit of two by both requests in flight, two instances let a plan be submitted again after a
verdict. Amounts are chosen on both sides of each comparison, and with fractions
of a unit where rounding matters. `Cent` is 10 units instead of 10000, which
keeps the sub-cent case with small numbers; the price of a purchase is two cents, so
that its halves add up to it and three of them do not. `PolicyHolds` lets policies
change until the second hold is made, while either request is anywhere.
`RefundsOrDispute`, the state constraint of `disputes`, keeps several refunds and a
dispute apart: a dispute reads nothing of a refund but whether the one it asked for went
through, and that one it may have beside it. The requests of `charging` are of one user,
since users meet only in the wallet; that the bounds hold for each of several users, and
for `Nobody`, is proved. `MaxRequests` of `approvals` is what a
complete approval takes (submit, four signatures, the plan, the lock) and one
more. `MaxTime` of `marg_sync` lets a row change after it was fetched, vanish,
and another one appear; with one trouble, each failure, death, unlock and reset
meets every state of a run and of the resume after it. `insights` has one key,
because keys do not interact except through a run's providers, and two providers,
so that one may fail while the other goes on. Requests are symmetric in
`disputes` and `approvals`, where no liveness is checked.

Deadlock is checked except in `marg_sync`, `marg_cursor`, `approvals` and `charging`,
where the bounded runs and requests may simply be used up. In the others a settings
change, or another run, is always possible, so it is `TransactionsEnd`,
`CardPurchasesAreDecided`, `HoldsEnd`, `ClearedInsightsClose` and
`LiveInsightsStay` that show progress.

Fairness. `WalletLocks`: strong fairness of taking a row lock, because
PostgreSQL queues the waiters of a row, and weak fairness of committing; a
caller never has to begin, and may die instead. `Purchases`: the cron runs, time
passes and Stripe ends open sessions; no event need be delivered and no session
id need be saved. `Charging`: time passes and the cron runs as long
as there is a hold for them; no request need ever settle. `MargSync`: a worker that lives goes on, time passes and the hourly
sweep runs; a worker may die instead, and no run need ever start. `Insights`: a
run under way goes on, and nothing else. The scheduler is off by default
(`insight-generation.scheduler.ts:32`) and runs enabled providers only
(`insight-generation.service.ts:160-164`), so no run need ever begin, and the
insights of a provider that is switched off stay as they are. That the provider
keeps being run is therefore a premise of `ClearedInsightsClose` and
`LiveInsightsStay`, met by the scheduler where it is on, or by a user who asks.

Type invariants. `Wallet`, `MargSync` and `Approvals` have theirs checked by a
run; those of the other modules need no run, for every module's is proved
(section 4).

Reading the bounded properties. `RefundsBounded`, `RefundedWasCovered`,
`ReversalsBounded`, `RequestsBounded` and `SpendBounded` state what is left of a guard
that is checked in one statement and used in another: it can be exceeded, but only by
what overlaps. `OneActiveInstance`, `VerdictsStand`, `SoleRunSettles` and the
properties of `MargSync` are of the same kind: they name the overlap, or the unguarded
event, that may break the promise, and hold in every other execution.

- The cap of refunds. With one request at a time the PENDING and COMPLETED refunds stay
  within the price, and reach it when the purchase is REFUNDED: the set `K` that both
  properties except is then empty. With more, `K` has at most one refund of each other
  request. Both are about the rows that the code adds up. They say nothing of the money
  of a FAILED refund, nor of a PENDING one whose process died.
- The limits of AI requests. `RequestsBounded` and `SpendBounded` are per user, because
  the check is.
- The Marg cursor. `CursorIsCovered` and `CompletedLogsAreStaged` except `overlap` and
  `moved`; `CursorIsCovered` excepts `recovered` too, for stock only.
  `PassedBillsAreProjected` excepts `unprojected` beside the first two.
  `HiddenRowsAreGone` excepts `overlap` and, for stock, `hidden`; bills are not excepted.
  `recovered` and `hidden` need no failure to come about: they are ordinary executions in
  which the code does not do what its comments say. `StockIsWhole`, which does not except
  them, is what `marg_cursor` violates.
- The Marg lock. `RunsExclude` counts every unlock among the troubles, and
  `InventoryLockIsReleased` is about one of the two lock columns.

Where the code and its texts differ. Beside the findings, each with a run of its own,
the models have these executions, which a comment or a document rules out and which the
properties above leave room for:

- Money of refunds that failed. Stripe pays and its answer is lost, or a statement after
  the payout fails: the refund is FAILED (`refund.service.ts:148`), leaves the sum
  (67-70) and may be made again in full, with one administrator and no race, against
  "never add up to more than was paid" (65-66).
- REFUNDED in part. Whether a refund uses the purchase up is decided before money moves
  (77), from a sum that counts PENDING refunds, also those whose process died: with half
  the price given back the purchase becomes REFUNDED, against "Only a FULL cumulative
  refund changes the purchase status" (130-132) and `AI_BILLING_PLATFORM.md:210`.
- Payouts without a ledger row. When the process dies, the answer is lost or the wallet
  refuses after the payout (102-110), the money is gone and the wallet keeps the credits,
  against "always ledgered" (11-15).
- Limits of a tenant. A limit of the tenant's or the plan's row is compared with the usage
  of the asking user (`access.service.ts:236`), so n users may use n times the tenant's
  limit, one after the other. `access.service.ts:36-39` and
  `AI_BILLING_PLATFORM.md:144-146` say limits per user, per tenant and per plan, and the
  page of the remaining budget subtracts the whole tenant's spend from the same limit
  (`ai-billing.controller.ts:82-89`).
- Stock hidden by a recovered cursor. After a first run that failed and was resumed, or
  after a reset, a full run starts at a cursor recovered from a log while the config's own
  is empty; `startedFromCleanCursor` (`marg-ede.service.ts:1711`) takes it for a complete
  snapshot, and what it did not see is hidden although Marg has it, against 1706-1710 and
  the comment on the reset (2352-2355). `StockIsWhole` fails here too; its shortest
  counterexample is the other one.
- The accounting lock. The sweep looks for `lastSyncStatus` RUNNING
  (`marg-sync.scheduler.ts:89`), and the lock is either column: an accounting run that
  dies, or whose heartbeat lands after its last write, leaves a lock that no sweep frees,
  against the comment that the sweep "catches workers that died without writing the FAILED
  status back" (83-86).
- The unforced unlock. `forceUnlockConfig` spares a run whose log beats
  (`marg-ede.service.ts:10898-10906`), and a run that has just taken the lock has no log
  yet. `autoHealStuckLock` unlocks before every sync a user starts
  (`marg-ede.controller.ts:153`), so two quick requests, and nothing else, may put two
  runs past the lock, against 10866-10868 and the controller's comment that "a real active
  sync will rightly reject the new request" (155-157).

Seen on the way: the late upsert of an older generation run dates an insight back, and
a newer run that overlaps it then archives what was just detected; duplicates are called
harmless at `insight-generation.scheduler.ts:17`. `SoleRunSettles` excepts overlaps for
that reason. The next run repairs it, and once runs no longer overlap it
does not come back, which is what `LiveInsightsStay` says.

## 4. Proofs

The proofs hold for every value of the constants: any amounts and thresholds, any
number of requests, workers, users, steps, purchases and refunds, any bounds.
Every safety invariant and action property of a passing run is stated by a theorem,
and so are both refinements. Liveness under fairness is out of the prover's reach
and left to TLC.

### The wallet (`WalletProofs`)

The inductive invariant is

    WalletInv == TypeOK /\ ReservedIsHeld /\ LedgerChains
                        /\ OneChargePerHold /\ OverspendHasACause

No part is inductive by itself. That `reserved` stays a natural number needs
`ReservedIsHeld`: the hold given back is part of the sum, so the subtraction
cannot go below zero and `max(0, ...)` is never used. `OneChargePerHold` needs
that a charge finds its hold ACTIVE, hence not charged before. For
`OverspendHasACause` a charge within its hold lowers the balance by no more than
it lowers the reserved sum, which again needs `ReservedIsHeld`, and the causes
already in the ledger must stay causes, which needs `OneChargePerHold`'s
reference into the holds. There is one lemma per operation (`PostPreserves`,
`ReservePreserves`, `ChargePreserves`, `EndPreserves`, `TtlPreserves`,
`SettingsPreserve`), and `StepInv` combines them.

| Theorem | Says |
|---|---|
| `WalletInvariant` | `Spec => []WalletInv` |
| `TypeCorrect`, `ReservedCorrect`, `ChainCorrect` | `[]TypeOK`, `[]ReservedIsHeld`, `[]LedgerChains` |
| `ChargedOnce`, `NoOverspend` | `[]OneChargePerHold`, `[]OverspendHasACause` |
| `BooksCorrect` | `[]BooksReconcile`, assuming `NoTies` |
| `AggregatesCorrect` | `[]AggregatesMirror`, assuming `WholeAdjustments` |
| `MagnitudesCorrect` | the same of the three aggregates that are magnitudes, assuming nothing |

`NoTies` says that no amount passed in is an odd multiple of half a unit. It is
exactly what run `wallet_books` violates: without it the code does not keep its
books, with it the balance is the sum of the ledger for ever. The other
assumptions are those of `Wallet`: estimates are positive, charges are not
negative, only a refund may be posted with `allowNegativeBalance`.

For the aggregates the argument is one ledger row at a time: a step leaves a column
and the ledger alone, or appends one row and moves the column by what that row
contributes (`Entered`, `StepIsEntered`). A magnitude is rounded the same way as the
row, because rounding is symmetric about zero; the signed `totalAdjusted` adds a signed
amount to a balance of either sign, and a half-unit then rounds apart from its row.
`WholeAdjustments` excludes half-units from the postings on that column only. It is
weaker than `NoTies`: charges, purchases and refunds may be anything. It is needed: an
adjustment of minus one unit and then one of half a unit leave the column a unit below
its rows, and the code does not refuse such an adjustment
(`ai-billing-admin.controller.ts:135` asks for a number).

The first part of the module has what the proofs need of sums and rounding. `Total`
is a recursive function; since induction theorems cannot be used here, its lemmas go
through running sums and least counterexamples (`RunningExists`, `RunningUnique`),
and end in `TotalStep`, `TotalSame` and `TotalChange`.

### The wallet under its row locks (`WalletLocksProofs`)

The refinement is proved for any number of callers. `LocksInv` has, beside
`WalletInv`, the types of the transactions in flight and

- `OneLocksWallet`, `OneLocksHold`: a row has one holder. Nothing in the state says
  who holds a lock; it is read off from where each transaction stands;
- `KnowsHold`: a transaction past the reservation's lock has an ACTIVE hold, and a hold
  the sweep listed is overdue for as long as it is ACTIVE, although the list was made
  outside of any transaction;
- `KnowsWallet`: the wallet row read under the lock is still the row, and still passes
  the check that was made on it;
- `RoomKept`: the bounds of the model leave room for every transaction in flight, counted
  by the cardinality of the running ones.

From `KnowsHold` and `KnowsWallet` a commit is one operation of `Wallet`. That an UPDATE
of the named columns writes the whole computed row (`EntryUpdate`, `FreedUpdate`,
`ChargeUpdate`) is where a column forgotten in the code would show.

| Theorem | Says |
|---|---|
| `LocksInvariant` | `LocksSpec => []LocksInv` |
| `LocksRefine` | `LocksSpec => WalletSpec`: every commit is a wallet operation, every other step a stutter |
| `WalletUnderLocks` | hence types, `ReservedIsHeld`, `LedgerChains`, `OneChargePerHold` and `OverspendHasACause` for concurrent callers |

Assumed: `CallersAssumption`, that there are finitely many callers.

### The users of the wallet

Each module over the wallet has its own initial state and steps, so each proves
again that `WalletInv` holds (`WalletUnderPurchases`, `WalletUnderCharging`,
`WalletUnderDisputes`), from the lemmas of `WalletProofs` (`PostKeepsWallet`,
`WalletStays` and the operations' own).

**`PurchasesProofs`.** `PurchasesInv` adds three parts to the types.
`CreditedSaysSo`: a credited purchase is COMPLETED, REJECTED or CANCELLED; only a
request that had read it before the credit overwrites COMPLETED, and only with one
of the other two, so a purchase that can still be credited has no credit row.
`EventsAreTrue`: an event that says paid was sent by a session that is paid.
`WorkersAreBusy`: a worker about to write has read a purchase that exists, and only
bank transfers are approved by hand. The blind writes of cancelling and rejecting
do lose COMPLETED; the proof shows why a second credit still cannot follow, and that
neither expiry touches a credited purchase.

**`ChargingProofs`.** `ChargingInv` has two parts beside the types: `Owned`, what a
request knows of its hold at each step (at the provider it is ACTIVE, or EXPIRED
by the sweep; at the log the outcome to be logged is what happened to it), and
`Alone` (no hold has two requests, and no logged hold has one). An ended hold is
never written again. The limits are counted separately and user by user: `UsageInv`
says that the billed logs of a user together with that user's billed requests past the
check exceed a limit that was in force by less than the number of the user's requests.
Passing the check adds one request when fewer than the limit are counted, and what is
counted includes what is logged for the user; logging moves it from one set to the
other. `SpendInv` does the same for credits: for each user there are a limit that was in
force, an estimate that fitted under it and a dearest charge such that the user's logged
spend stays within the limit less the estimate, plus one such charge for each of the
user's requests that is not past the check. The limit and the estimate are those of the
request that passed last; a request that logs its charge leaves the ones past the check,
and brings the room for it (`OneMaySpend`, `LoggedSpend`).

**`DisputesProofs`.** `DisputesInv` says for each request what it knows of its
refund, statement by statement (`Works`, `MadeRefund`: at `postRefund` nothing is
ledgered and cash was paid out; at `completeRefund` the row is there; at
`markRefunded` the refund is COMPLETED and used the purchase up), that no two
requests share a refund, that refund rows of the ledger name refunds that exist, and
that each refund's books are right. Two counting invariants are proved on top of it.
`ReversalsInv`: reversals of a charge, posted and on their way, are no more than there
are requests. `CapInv` is about the sum that is read at the cap and used later:

- `NotFailedYet`: a refund that a request works on is not FAILED; nobody else fails it;
- `WithinCap`: but for the refunds in a set `K`, those that stand are within the price,
  and `K` together with the requests past the cap leaves one request to spare; or it
  leaves none, and the request that passed the cap last still fits;
- `SawFull`, `RefundedWasSettled`: a request that saw the purchase used up relies on
  refunds that nobody works on any more (they stand for ever), on its own, and on one of
  each other request, which are the only ones that may fail after they were counted.

A request that passes the cap may take the empty set for `K`, since the sum it read has
every standing refund in it. A request that writes its refund either is the one that
fitted, or puts that refund into `K` and is past the cap no more. `RefundsBounded` and
`RefundedWasCovered` follow, both without exception when there is one request.

| Theorem | Says |
|---|---|
| `PurchaseCreditedOnce`, `CreditIsPaidFor`, `ExpiryIsSafe` | `[]CreditedOnce`, `[]CreditNeedsMoney`, `[]ExpiredIsUncredited` |
| `MoneyTrailHolds`, `CallsAreCovered` | `[]MoneyTrail`, `[]CallsAreHeld` |
| `OverrunIsBounded`, `SpendIsBounded` | `[]RequestsBounded`, `[]SpendBounded`, for each user |
| `CapInvariant` | `[]CapInv` |
| `RefundsAreLedgered`, `DebitsFollowPayouts`, `RefundedIsCovered` | `[]CompletedRefundIsLedgered`, `[]DebitFollowsPayout`, `[]RefundedWasCovered` |
| `DisputesAreResolvedByMoney`, `ReversalsAreBounded`, `RefundsAreBounded` | `[]ResolvedByMoney`, `[]ReversalsBounded`, `[]RefundsBounded` |
| `PurchasesTypes`, `ChargingTypes`, `DisputesTypes` | the type invariants |

Assumed: `PurchasesAssumption`, `ChargingAssumption` and `DisputesAssumption`, which
say that prices and limits are natural numbers, that the sets of requests and
policies are finite, and that the charge in the initial state of `Disputes` was
covered by its purchase.

### Approvals (`ApprovalsProofs`)

`ApprovalsInv == ApprovalsTypeOK /\ Backed /\ Uncontested`. `Backed` says that
every instance, every task and the plan rest on complete steps: what an instance
has reached, what a task will write to it, and what the plan's status rests on.
Because APPROVE rows are never deleted, a quorum that was there stays there
(`QuorumGrows`), and that is why stale writes cannot make an unsigned APPROVED.
`Uncontested` says that while no two requests have overlapped, a task that is to
write is alone on an instance that is not decided.

| Theorem | Says |
|---|---|
| `ApprovalsTypes` | `[]ApprovalsTypeOK` |
| `ApprovedHasQuorums` | `[]ApprovedIsSignedOff` |
| `OneActive`, `VerdictsAreFinal` | `[]OneActiveInstance`, `VerdictsStand` |
| `ApprovalsImplementSignOff` | `ApprovalsSpec => SignOffSpec`: every step maps to a step of `SignOff` or a stutter |

### Insights (`InsightsProofs`)

`InsightsInv == InsightsTypeOK /\ UnderWay /\ Solitude`. `UnderWay` says that the
dates kept on rows and between runs only name workers whose run is under way, so a
run that begins finds no date of its own left over. `Solitude` says what a run
that overlapped no other knows: the rows it has evaluated are dated by it and on
display, and no other row is dated by it. When it archives, what it has detected
is therefore out of reach. That rows never disappear, so that what was read still
exists when it is written by id, is part of the type invariant.

| Theorem | Says |
|---|---|
| `InsightsTypes` | `[]InsightsTypeOK` |
| `SoleRunsSettle`, `UserDecisionsStand` | `[]SoleRunSettles`, `DecisionsStand` |

### Marg synchronisation (`MargSyncProofs`)

All six invariants of run `marg_sync` are proved, for any feed, any number of keys,
processes, requests, runs and troubles. `MargInv` is the conjunction of

- `TypesInv`, `FeedInv`, `KnownInv`, `LogsInv`: types; nothing is newer than the feed;
  what is staged, saved or in hand is something Marg sent; a log that anything points
  at was created, and a run has a log of its own;
- `StaleInv`, `AloneInv`, `QuietInv`: a row that went stale is nobody's lock; without an
  overlap one process works; without trouble the working process has the lock and no log
  looks abandoned. Heartbeats write RUNNING without looking, also after the commit, so
  that "the column is free" is not the invariant: it is that whoever works keeps the
  column from being free;
- `StagingInv`: the page in hand is the next change after the cursor, and nothing newer of
  its key is staged; if it is the last one, nothing that changed since is staged either;
- `CursorInv`: what Marg has up to a cursor is staged, for the saved cursor, the one
  before it (a run reads the configuration before it takes the lock), the cursor of
  every process and that of every log a run may recover from;
- `JournalInv`: what lies before a cursor is projected, or touched by the run that holds
  the cursor; what a run staged it has touched;
- `SnapshotInv`: a run that may hide rows has seen every row Marg still has as staged, up to
  its cursor, and everywhere when the API is through;
- `PagesInv`: the saved pages of a run lie before its cursor (`PositionsInv`), its log is
  not completed by another (`UnfinishedInv`), its pages are staged but for the one in hand
  (`RunPagesInv`), those of a log under replay are staged or still to come
  (`ReplayPagesInv`), and a marked page, or one of a completed log, is staged
  (`StagedPagesInv`);
- `HiddenRowsAreGone` itself.

`CursorInv` excuses `recovered` for API 2 only, since the accounting cursor is never
recovered from a log.

Most of the parts hold only while the named causes have not happened, and the causes never
shrink (`CausesGrow`). The first four are inductive together; the others need them, and often
one another: a resume that completes a log relies on `ReplayPagesInv`, which relies on
`AloneInv` for what other processes do to the pages; what a commit projects relies on
`CursorInv` and `JournalInv`. The lemmas say first what a step does to
one row (`WorkersFlow`, `StagedFlow`, `PagesFlow`, `PageFate`, `LogsFlow`, `ConfigFlow`,
`CursorFlow`), so that each part of the invariant is proved from the few actions that disturb it.
The parts were checked by TLC on the instance of run `marg_sync` as well.

| Theorem | Says |
|---|---|
| `MargInvariant` | `MargSpec => []MargInv` |
| `MargTypes`, `RunsExcludeEachOther` | `[]MargTypeOK`, `[]RunsExclude` |
| `CursorCovers`, `BillsAreProjected` | `[]CursorIsCovered`, `[]PassedBillsAreProjected` |
| `HiddenAreGone`, `CompletedAreStaged` | `[]HiddenRowsAreGone`, `[]CompletedLogsAreStaged` |

Assumed: `SyncAssumption`, which has the types of the constants and says that no two changes of
the initial feed are at one position, as no two later ones are: a page has one row.

### Only model-checked

- Liveness: `TransactionsEnd`, `CardPurchasesAreDecided`, `HoldsEnd`,
  `InventoryLockIsReleased`, `ClearedInsightsClose`, `LiveInsightsStay`.

## 5. Not modelled

In the modelled components:

- Webhook signatures, HTTP, idempotency keys at Stripe, currencies.
- The creation of a tenant's wallet row on first touch.
- Audit rows, messages of a dispute, notes and metadata: nothing reads them to
  decide anything.
- The monthly window beside the daily one, the model allow-list, the per-query
  limit, price resolution.
- Marg: the mapping of rows to products, ledgers and invoices; payload storage;
  connection tests and editing of configurations. The index and the date-time of a
  cursor are one position, a page has one row.
- Workflows: the reads of one request are one step, and so are the count and the
  write of `approve`; two APPROVE rows of one user at one step are one element of
  the set; adding, changing and deleting the steps of a template. Scenarios follow
  the code of plans and are not repeated.
- Insights: texts, severities, narration and its billing, audit events, the summary
  cache, widgets and pins; the difference between clocks of two instances, and two
  events in one millisecond.

Components left out:

- **Inventory ledger.** `inventory_reservations.reserved_by_id` and
  `released_by_id`, and `inventory_transactions.created_by_id`, are foreign keys to
  `users` (migration `20260217134555_init`, lines 3618, 3621 and 3528), while
  `releaseWorkOrder` passes the tenant's id (`manufacturing.service.ts:6761-6774`), as
  do completion, cancellation, adjustment and transfer. The schema refuses those
  writes, so no reservation can exist and its protocol has no reachable states.
  The finding is listed as a hazard; a model would be about another program.
- **Job queues.** One linear job each; what a retry leaves behind
  (`forecast.processor.ts:227`) is listed as a hazard.
- **Auth, tenant cache, numbering.** One check-then-act each
  (`auth.service.ts:180`), listed as hazards.
- **Pricing, forecasting, reports, accounting, settings, web client.** Pure
  functions, SQL and pages without a protocol.

Hazards without a property say in `PROJECT.json` why none covers them.

## 6. What is left

1. Price resolution and `computeCost` as operators against a reference definition.
2. Rotation of refresh tokens; the retried forecast job.
3. Template steps that change under a running workflow.
