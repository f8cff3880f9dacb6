# OpenPartner: specifications of the money path

OpenPartner tracks which partner brought a customer, turns conversions into
commissions, and pays the partners. This directory holds TLA+ specifications of
the part of it where a mistake costs money and where ordinary tests reach least:
the payout rails of `apps/api/src`. The source is the reference; every definition
that models code is listed with its lines in `PROJECT.json` under `map`.

## 1. The system

### 1.1 Components

| Component | State it keeps | Operations | Talks to |
|---|---|---|---|
| **Hosted funding, collection** `funding/{reserve,state,collect,confirm,stripe-lookup,release}.ts` | `HostedFundingBatch` (status, principal, PaymentIntent id, attempts), `HostedFundingAllocation` | reserve, claim, create / search / adopt / retry a PaymentIntent, confirm, release, force-release | Stripe PaymentIntents, Postgres |
| **Hosted funding, webhooks and interlocks** `funding/{webhook,interlocks,inbox}.ts` | the inbox lease of each event; writes batches, allocations, commissions | handle succeeded / failed / canceled / refunded / disputed, transfer created / reversed; reverse a commission | Stripe events, refunds, administrators |
| **Hosted funding, executor** `funding/executor.ts` | `HostedFundingTransfer` intents (state, key generation, review nonce), `Payout` | freeze a partner group, post, finalize, reconcile, park, re-arm, resolve, settle | Stripe transfers |
| **Hosted funding, reconciliation** `funding/reconcile.ts` | none of its own | verify and alert; sweep missed clawbacks | Stripe, Postgres |
| **Direct Connect rail** `payouts.ts`, `payout-transfers.ts` | `Payout.metadata.transferState`, `Commission.payoutId` | plan, post, lease a retry, reconcile, fail, cancel, re-arm, dispose, resolve | Stripe transfers |
| **Operator recovery** `operator-recovery.ts` | recovery requests | claim and apply a request, 24 h recheck | both rails |
| **Clawback netting and refunds** `clawback-netting.ts`, `refunds.ts` | `CommissionAdjustment`, chains of replacement commissions | refund, net, stamp, release | planner |
| **Scheduler** `scheduler.ts` | advisory lock for each job | one pass at a time of each job | everything above |
| **PayPal rail** `paypal-payouts.ts` | `PaypalPayoutBatch` (state, lease, frozen request), `Payout.metadata` | send, post, re-send, hold, sync, release, repair, cancel an unclaimed item, link | PayPal payouts API |
| **Manual payout files** `manual-payout-files.ts` | batches that are files | export, discard, confirm by hand | the brand's bank, PayPal rail |
| Attribution, commissions, bounties, rewards | clicks, conversions, commissions | one transaction per event | router, Stripe webhooks |
| **Platform billing, usage reports** `usage-billing.ts`, `usage-ledger.ts` | `UsageLedger`, and the Config rows of carry, mark and pending report | compute and price deltas, freeze, send, finish, re-send, abandon | Stripe meters, scheduler, admin |
| Platform billing, invoices | invoices, subscriptions | invoice, bill, catch up on events | Stripe billing |
| Outgoing webhooks and postbacks, network client, sanctions screening, tenancy, portal, SDK | | | |

The components share one Postgres database and one Stripe account. They do not
call each other while they hold a lock: they meet in rows, through
compare-and-set updates (`casBatch`, state.ts:48), and at Stripe, through
idempotency keys, metadata searches and listings.

### 1.2 What is hard

* **A remote effect cannot be undone or bounded.** A create may land after its
  caller gave up; its response may be lost; a key is remembered for a day; the
  search index lags; a cancel may be refused by a debit that already runs.
* **Many actors on one row.** Collector, webhook handlers, operator, reversals
  and the planner move one batch; none of them holds a lock across a Stripe call.
* **Any process dies anywhere**, between two statements of a protocol.
* **A lease is not a lock.** Inbox events, direct retries, PayPal batches and
  recovery requests are leased for minutes; the owner may still be at work when
  the next one takes over, and only the token in its writes tells them apart.
* **A refusal proves little.** A 4xx on a retry says that this request made
  nothing, not that the one before it did not.
* **Webhooks** are late, reordered, repeated or never delivered.
* **What one did with a row another read.** Each function works on a snapshot and
  finds out at its compare-and-set.

Each of these is listed at its line under `hazards` in `PROJECT.json`.

### 1.3 What makes it correct

| Component | Properties |
|---|---|
| Collection | never two debits for one batch; a released batch has no debit; commissions are freed only when every intent is dead; no commission in two live debits; a funded batch is paid, whole and of the right amount; a payment is noticed without its webhook; a release ends |
| Interlocks | amounts at Stripe and in the ledger agree; a clawback is never lost to a later confirmation |
| Executor | one transfer for a partner group; what is recorded as paid was paid, and of the whole frozen group; what is canceled was not transferred; a settled batch leaves nothing open; a re-armed or parked intent is not finalized by a stale worker; a funded batch is never forgotten |
| Direct rail, netting and refunds | no unit of a commission is in two payments the partner keeps; a payout's claims and clawbacks are those its amount was computed from; claims are released only when no transfer exists or can come; a reversal is not lost |
| PayPal rail, manual files | a payout is paid once, by PayPal or by hand; it leaves a batch only when that batch will not pay it; it reads as paid only if it was |
| Event inbox | an event is acknowledged only when handled; a live claim stands |
| Operator recovery | a verdict is true, however many attempts died between acting and settling, and final |
| Usage reports | what the ledger says was billed is what Stripe metered and what is carried; what is refunded in full nets to zero |

## 2. Modules

| Module | What it is |
|---|---|
| `FundingCollection.tla` | the specification of the collection of hosted funding batches, its properties, and the mutants that show each property can fail |
| `BatchCharge.tla` | the abstract specification `FundingCollection` implements: a batch is charged once, for what it keeps |
| `FundingCollectionProofs.tla` | the inductive invariant about its debits and its proof, and the theorems that follow |
| `CollectionBooksProofs.tla` | on top of it, what a batch charges, what it holds, what `funded` means, and the refinement of `BatchCharge`, proved |
| `FundedTransfers.tla` | the specification of the payment of one funded batch, its properties and mutants |
| `PartnerPayment.tla` | the abstract specification `FundedTransfers` implements: each share is paid or withheld, once |
| `FundedTransfersProofs.tla` | its types, its books and the refinement, proved |
| `TransferSafetyProofs.tla` | that no partner is paid twice, or for a withheld share, proved |
| `AdoptionProofs.tla` | that what is recorded is of the current key, and that a resolution is fenced, proved |
| `DirectTransfers.tla` | the direct Connect rail: planner, netting, executor, operator functions, transfer events, refunds |
| `DirectTransfersProofs.tla` | all of its properties, proved |
| `PayPalPayouts.tla` | Pay with PayPal, and the files and confirmations that compete with it |
| `PayPalProofs.tla` | all of its properties, proved |
| `RailSwitch.tla` | `FundedTransfers` with the planner's manual rail beside it, over one commission ledger |
| `EventInbox.tla` | the lease of a webhook event |
| `RecoveryRequests.tla` | the queue of operator recovery requests |
| `UsageReports.tla` | the usage report of a tenant: ledger, carry, outbox and meter |
| `PartsProofs.tla` | all properties of these three, proved |
| `NoValue.tla` | the two constants that stand for SQL null and for a refusal, which modules that meet in one instance share |
| `MCFundingCollection`, `MCFundedTransfers`, `MCDirect`, `MCParts`, `MC*.cfg` | instances for TLC |

The two large modules meet in the batch: `FundingCollection` ends where a batch
becomes `funded`, `FundedTransfers` begins there, with any subset of its allocations
already canceled by reversals. Their abstract specifications meet there too: a batch that
`BatchCharge` funds has what its price was computed from, and those are the shares
`PartnerPayment` pays or withholds. `EventInbox` is in front of their webhook handlers,
`RecoveryRequests` in front of the operator functions of `FundingCollection`,
`FundedTransfers` and `DirectTransfers`. Each leaves the other side abstract: to the
inbox a handler is one step that succeeds or fails, to the queue an operator
function is one step that acts at most once.

### 2.1 FundingCollection

**State.** The database part (`ledger`) has the columns the protocol decides on:
`status`, `stamp` (`stripePaymentIntentId`), `principal`, `attempted`
(`fundingAttempts > 0`), the state of each allocation and the status of each
commission. `stripe` is what Stripe holds: each intent's status and amount, what
the search index returns, the intent remembered for the frozen key
`fbpi:<batch>`, the create requests on their way and the events being delivered.
`clock` has the two ages the code compares with a limit. `worker` gives each
process a program counter and what it read.

**Time.** An age is a Boolean that becomes TRUE at some moment. Two durations
are related in the code's argument and so in the model: a key lives a day, and a
batch is quiet for an hour, both longer than the search index lags and longer
than a pass takes from the read that lets it create to the end of the create.
`ExpireKey` and `QuietHour` are therefore enabled only when the index is caught
up and no worker is between those two points. These are assumptions the code
states (release.ts:24-35, collect.ts:91-100), not facts of Stripe; a request that
outlives an hour is outside the model.

**Money.** An amount is the set of commissions whose amounts it adds up, so a
wrong amount is a wrong set. `amount[p] = principal[b]` is the comparison of
confirm.ts:37.

**Steps.** One action is one SQL statement or one Stripe call: `ReleaseClaim`,
`ReleaseSearch`, `ReleaseStamp`, `ReleaseRetrieve`, `ReleaseCancel`,
`ReleaseFree`, `ReleaseClose` are the lines of `releaseBatch` in order, and any
other worker moves between any two. Statements are joined only where no other
step could tell (the two compare-and-sets of the release claim, of which the
first can only fail for good; the two retrieves of a paid intent). A reservation
and a reversal are one transaction each. `Crash` ends a worker at any label, and
a webhook whose handler did not return is delivered again.

**Processes.** `Collectors` run the funding-collector job; the advisory lock of
the job (scheduler.ts:780-825) makes it one. `Hooks` are webhook deliveries
handled at once. `Operators` apply force-release requests; today the collector
job applies them before its pass, and the model lets them run beside it, which
allows more.

**What it implements.** `BatchCharge` is what the collection promises the brand, without
PaymentIntents, keys, searches, workers and webhooks. A batch is *due* when it is
reserved, *asked* when its intent is made, *charged*, *returned*, or *never* going to be;
it covers what it holds of its principal, and its price is the amount of its intents.
`ImplementsCharge` maps the one to the other, so that a second intent, an amount that is
not what the batch holds when it is asked, a batch freed while its charge may still
happen, or one funded short are steps `BatchCharge` does not have. *Charged* and
*returned* are not columns: the code has to find them out from Stripe, and a batch
gets there while every worker is dead.

**Left out of it.** Currency (the launch currency is fixed), the day-1/3/7 spacing
of retries (a retry may come at any pass), telemetry columns, the eligibility
checks of the planner other than the ones reserve.ts repeats under its lock, the
answer Stripe kept of a retry whose pass died before it could note the attempt
(collect.ts:258-264: the next pass confirms under the same key), the
disposition of residuals, and what happens to a batch after it is funded
(`transferring`, `settled`): that is the executor's module.

### 2.2 Runs of FundingCollection

| Run | Instance | Shows |
|---|---|---|
| `collection` | 1 batch; any event may stay undelivered; either 1 commission, room for 2 intents and any two of collector, handler and operator at a time, or 2 commissions, collector and handler | `ReleasedIsDead`, `OneDebitPerBatch`, `FreedOnlyWhenDead`, `DebitMatchesLedger`, `ClawbackHolds`, `FundedIsWhole`, `ImplementsCharge`, `TypeOK` |
| `parts` (section 2.10) | 2 batches, 1 commission, collector, operator | `ChargedOnce` when a batch succeeds a released one |
| `recovery` | 1 batch, 1 commission, collector, handler, successes may be lost and every event held back for ever, fairness | `PaymentIsNoticed`, `ReleaseEnds` |
| `timeout` | as `recovery`, with lost events | TLC refutes `TimeoutReleases` |

Bounds. `Slots` is how many intents Stripe may make for one batch: two where the
question is whether there can be a second, one elsewhere. `Floor` is the batch
floor in commissions. Two commissions are enough for one to be reversed while
the other keeps the batch alive; two batches are enough for one to take what the
other gave up. A state constraint (`Slices`) makes `collection` the union of two
instances that are each beyond a single larger one: a behaviour is followed as long
as it stays in one of them. The full set of workers with two batches or with two
commissions is beyond TLC, and the proofs below carry the central properties to
any number of all of them. The program may stop (nothing to collect), so deadlock
is not checked.

Fairness (`Fairness`, used by `recovery` and `timeout` only): the scheduler starts
a pass over every collecting batch at each five-minute tick (strong fairness of
`Scan`, weak fairness of a pass's steps), Stripe acts on what it was sent and
indexes it, a bank decides a debit, and failures end at some point
(`<>[][Running]_vars`). No webhook has to be delivered, no operator has to act.
The code retries on every tick for ever, which is what strong fairness of `Scan`
says; without an end to failures nothing could be promised.

### 2.3 FundedTransfers

**State.** `ledger` is the batch's status and residual, the allocations and the
commissions. `intents` is one `HostedFundingTransfer` for each partner: its
state, the generation of its frozen key, how old `postedAt` is, the amount frozen
into it, the transfer it recorded and the status of the Payout it is linked to.
`stripe` has the transfers of the batch's group with the generation stamped on
them and how much of each was reversed, what Stripe replays for each key, the
POSTs on their way and the events being delivered.

**Steps.** `Begin`, `Take`, `Create`, `Cancel`, `Post`, `Stale`, `List`, `Adopt`,
`Park`, `Settle` are `executeBatch`, `executePartnerTransfer` and
`reconcileIntent` in order; `PostReturns`, `PostRefused` and `PostAmbiguous` are
the three ways `transfers.create` ends. `Rearm*` and `Resolve*`, `Keep`,
`CloseReversed` are the two operator functions, from the read of the intent
through the listing to the compare-and-set. `HookCreated`, `HookReversed` and
`Sweep` are the transfer events and the daily sweep. The read of a hold is joined
with the read of the intent, and the last look at the batch with the stamp on the
intent: what moves between them only ends in the other branch.

**Money.** An amount is the set of allocations it adds up; `frozen` is the amount
of the intent. A reversal is none, part or full.

**The review fence.** `reviewNonce` is a value that never repeats, so the model
keeps what it decides: `fenced`, the operators whose reading is still current.

**Requests.** A POST whose caller died or timed out stays in `requests`, carried
out later or never. Stripe stores the first outcome of a key, a refusal too, and
replays it until the key is pruned, a day after its first use.

**Assumptions, as constants.** `Truthful`: an operator who re-arms an intent, or
declares every transfer reversed, is right that none exists and none is on its
way (the code says it cannot be verified, executor.ts:844-871). `Margin`: a POST that was
judged inside the window arrives before the key is pruned. `Straggle`: a request
already on its way is carried out after its key was pruned. `Overlap`: a
resolution commits while a pass is under way. The passing runs suppose the margin
and no overlap, neither of which the code secures. Run `overlap` shows what the second
keeps out; without the first (`Margin = FALSE`) TLC refutes `OneLiveTransfer`, since
executor.ts:399 trusts a key to its last minute, where the direct rail takes an hour
off (payout-transfers.ts:57-61). `Straggle` stays FALSE: a request on which Stripe acts
more than a day after it was sent is outside the model.

**Left out of it.** Destinations (distinct for each partner), the checks of
`created` and of unreadable keys, the freeze of a batch whose allocations do not
add up or that has no charge, the second transaction of a reversal, the
disposition of residuals, alerts.

### 2.4 Runs of FundedTransfers

| Run | Instance | Shows |
|---|---|---|
| `transfers` | 1 partner, 2 allocations, executor, operator who is right, 2 generations, room for 2 transfers, one of them foreign | `OneLiveTransfer`, `LedgerIsTrue`, `CanceledIsUnpaid`, `SettledIsComplete`, `ImplementsPayment`, `TypeOK` |
| `drain` | the same without the foreign transfer, lost events, fairness | `Drains`, `ReversalIsRecorded` |
| `parts` (section 2.10) | 1 allocation, an operator who may be wrong, a foreign transfer, no hold, dispute or partial reversal | `LedgerIsTrue`, `AdoptsOwn`, `ResolutionIsFenced` |
| `overlap` | 1 allocation, a resolution during a pass | TLC refutes `CanceledIsUnpaid` |

Bounds. One partner: partners share only the batch status, and each intent has a
key of its own; two partners with one allocation each are beyond TLC.
Two allocations are needed for a partner who is paid in part. Two generations and
two transfers are what a duplicate takes: the second transfer is either of a key
an operator gave up or foreign. With two executors the compliance hold has the
same race as `overlap`, so the runs have the one the job's lock allows.

Fairness (`drain`): a pass starts at every tick and runs to its end, Stripe acts on
a request and forgets a key in the end even while it is used (strong fairness of
`KeyPruned`: a refused POST is retried at every tick and keeps its key busy), time
passes, the sweep runs daily, and failures end. Holds may come and go for ever, and no
operator and no webhook has to act: what waits for one counts as drained.

### 2.5 DirectTransfers

**State.** `ledger` is the commission of each line (conversion), what it is worth,
what was refunded of it, the payout that claims it and the clawbacks that wait or are
stamped. `intents` is one Payout with its transfer metadata: state, key generation,
age of `postedAt`, what it was frozen from (`frozen`) less what it netted (`netted`),
the transfer it recorded. `stripe` is as in `FundedTransfers`.

**Money.** A commission is worth `Worth` units. An amount is the set of units it adds
up, so that a refund of half a conversion, a clawback of that half and a payout that
deducts it are all told apart, and "paid twice" is two payments with a common unit.

**Steps.** `Plan` and `PlanManual` are one partner's part of the planner's transaction:
claim the approved commissions, net the owed clawbacks, freeze the difference.
`Take`, `Preflight`, `CancelIntent`, `FirstPost`, `RetryPost`, `Expire`, `FailIntent`,
`PostReturns`, `PostAmbiguous`, `Retrieve`, `Record`, `RecordBack`, `List*`, `Park`
are `advanceIntent` and what it calls in order. The write that claims an attempt and
the POST it allows are one step; a POST that has not been sent yet is a request that
has not arrived. `Rearm*`, `Dispose*`, `Resolve*`, `Keep`, `CloseReversed` are the
operator functions. `Hook` is a transfer event, `Refund` a refund of part or all of a
conversion in one transaction, as refunds.ts does it.

**Fences.** `cur` says of a process whether the `leaseAt` it wrote, or the review nonce
it read, is still the row's: nothing else of either is compared.

**Assumptions, as constants.** `Truthful` as in section 2.3. `DoorRefusals`: Stripe
may refuse a request without looking at its key; `StaleUpdates`, `RefundParted`:
section 2.11. `direct` has the first TRUE and the others FALSE; `door` shows what the
second one costs. With it Stripe refuses in both ways, after it executed the request
and before. The theorem about `PaidOnce` lets all of the last three be TRUE (section 3).

**Left out of it.** The payout threshold, the platform fee, partners whose account is
blocked, currencies, several partners credited for one conversion, the order in
which clawbacks are taken and their cap by what the partner still holds of the commission
(clawback-netting.ts:73), the cooldown between two POSTs (payout-transfers.ts:311; here a
retry may come at any time), the idempotency of the refund endpoint, and the branch of
the planner that hands a commission to hosted funding.

### 2.6 PayPalPayouts

**State.** `payoutState`, `leaseAt`, `sealed` (is the frozen request still there), `age` (of
`postedAt`: no age, within the 29 days in which the program re-sends, held, and past
the 30 days for which PayPal remembers a `sender_batch_id`), `contents` and `linked`
are a `PaypalPayoutBatch`; `stampedBy`, `paid`, `byHand` a Payout; `item` is what
PayPal says of each payout in each batch it made; `posts` are the requests on their
way.

**Steps.** A pass (job, webhook or admin) leases a batch, reads it, posts it,
applies the answer, syncs it item by item, releases what PayPal gave back, or frees
what was refused, one statement or call at a time. A lease may run out under any of
them, so taking it is always possible and every write of a pass says whether it is
fenced. `SendRun`, `Export`, `Discard`, `AdminLink`, `AdminRetry`, `AdminRelease`,
`Confirmed` are the admin's operations; `Repair` and `PassDies` what is left behind.

**Assumption.** `AdminChecks`: an admin who releases a held batch is right that PayPal has
none and gets none; the model lets him only while no request at all is on its way. The day between 29 and 30 is longer than a request takes.

**Left out of it.** Sandbox rehearsals, converted quotes, file formats, do-not-pay holds,
statements, and a batch id that PayPal says is somebody else's.

### 2.7 EventInbox

The upsert that claims an event or takes it over, the read that tells a replay from a
held claim, the handler as one step, the stamp and the drop of a claim, a lease that
lapses under a live handler, and a handler that dies. Stripe delivers what was not
answered with a 2xx, to any handler, at any time. An outcome that is not ready keeps
the claim until its lease ends, as in webhook.ts.

### 2.8 RecoveryRequests

The claim (first, after a retryable outcome, or as a takeover of a lease that ran out),
the operator function, the three ways to settle, the marker that tells a takeover that
its predecessor had acted, and the recheck a day later. The function acts at most once,
which is what its own compare-and-sets secure in the modules of its targets; the
marker may be overwritten by a later request. A takeover always reads the marker here; the
code refuses a malformed or misdirected request before it does
(operator-recovery.ts:346-376). `retried` remembers that a retryable
outcome was settled: settleRetryable clears the lease and with it the only trace of an
interrupted attempt (operator-recovery.ts:623-651), so a later refusal may read as
clean although the function had acted. `VerdictIsTrue` holds but for that. Backoff times
and which of several due requests comes first are left out.

### 2.9 UsageReports

**State.** `basis` is what each conversion is worth now, under the tenant's fee rule and
after its refunds; `visible` those whose transaction has committed. `books` is the
ledger, summed for each conversion (`billed` in its currency, `usd`), with the Config
rows: the carry, the mark, the frozen report. `books.old` are the conversions a day
older than the mark, which a report takes up only if they are in the ledger. `meter`
is what Stripe took under each identifier, the mark itself. `reporter` is where a run
is: about to call Stripe, or answered.

**Transactions.** `enclosed` is the way the function is called. Inside a transaction of
its caller, which is how the scheduler and the admin's trigger call it, nothing it
writes is kept before that transaction commits, and the advisory lock is held until
then: a run reads at one point and writes at one point, `Finish`. Called directly, as
the tests do, each of its transactions is kept when it ends (`Read` freezes the report,
`Finish` clears it), there is no lock, and no second run.

**Steps.** `Read` computes the report of now, at any rates (`Rates`; 0 is a currency the
feed has no rate for), and closes it at once if the meter gets nothing of it. `Send`,
`Finish`, `Fail`, `Resend`, `Abandon` are the rest of a run; `Contract` is the run of a
tenant on the enterprise plan, which takes no lock; `Revise` is everything that changes
what a conversion is worth.

**Assumptions.** `AnswerLost`: the caller's transaction may fail after Stripe took the
event. An identifier is remembered as long as a report is sent again (Stripe promises a
day). No transaction that creates a conversion is open for longer than a day, the grace
of usage-ledger.ts:111. USD amounts are whole units, of which `Cent` make a cent.

**Left out of it.** The two fee rules and their terms, several currencies of one
conversion, the opening of the ledger, the shadow comparison, a mark that is wiped.

### 2.10 Runs of these modules

| Run | Instance | Shows |
|---|---|---|
| `direct` | 2 lines of 2 units, 2 payouts, 2 passes, operator, 2 generations, room for 2 transfers, one of them foreign | `PaidOnce`, `BooksBalance`, `ReleaseIsSafe`, `ReversalIsKnown`, `TypeOK` |
| `door` | the same, refusals at the door, no operator's key | TLC refutes `PaidOnce` |
| `undecided` | the same without refusals at the door | TLC refutes `UntilAnOperatorDecides` |
| `rails` | 1 allocation of a funded batch, a tenant that changes its rail | TLC refutes `PaidByOneRail` |
| `parts`: PayPal | 2 manual payouts, 2 batches or files, 2 remote batches for one id, 2 passes | `PayPalPaysOnce`, `ReleasedIsUnpaid`, `PaidIsTrue`, `PayPalTypeOK` |
| `parts`: inbox | 1 event, 3 handlers | `AckedIsHandled`, `ClaimOutlivesGhosts`, `InboxTypeOK` |
| `parts`: requests | 1 request, 2 passes, 3 attempts, 1 recheck | `VerdictIsTrue`, `VerdictStands`, `RequestTypeOK` |
| `parts`: usage | 2 conversions worth up to 2, 2 reporters, 3 reports, 2 rates, 3 units to the cent | `MeterIsTrue`, `RefundsNetOut`, `UsageTypeOK` |
| `meter` | 1 conversion, 1 reporter, 1 rate, inside a transaction that may fail | TLC refutes `MeterIsTrue` |

`direct` is the union of four slices (`MCDirect`): (A) one payout with two passes and an
operator; (B) a payout that succeeds a canceled one, with one pass; (C) refunds of
parts, netting and edits of transfers, without re-arms and old keys; (D) foreign
transfers and partial reversals under review. Each question needs all the actors of
its slice, and none needs those of two: a refund meets a payout's claims, a late POST
meets its key. Together they fire every action.

`parts` is six small questions in one run (`MCParts`): it extends `FundedTransfers`,
`PayPalPayouts`, `EventInbox`, `RecoveryRequests` and `UsageReports`, takes
`FundingCollection` as an instance under other variables, and `part` says which of the
six a behaviour is of, so the states of the run are the sum of theirs. Three
handlers are what it takes for one to die, one to take over and the dead one's lease
to be mistaken; two passes with one payout, or one pass with two, are what a
batch can be raced by; a second PayPal batch is followed from the moment the first is
behind, with the second pass perhaps still in it (`LeftBehind`). The ten attempts and
ten rechecks of the code are three and one here: one to die, one to act, one to give up.
Usage takes three reports of one conversion (billed, credited and carried, billed again
at another rate) or two of two conversions, one's credit against the other's revenue; a
third of a cent makes rounding go either way.

These modules state safety only. Their jobs retry at every tick like the others, but a
row whose outcome is unknown waits for an operator or an admin by design, and there is
little that must happen without one.

### 2.11 What the code does that its comments deny

* **The global timeout does not cover a batch in `invoicing`** (`timeout`).
  collect.ts:76 says "a batch that hasn't funded within the window releases". A
  pass that finds a *canceled* intent by search stamps it and leaves the batch
  where it is (collect.ts:216-218) for "the release protocol", which nothing
  starts from that state: the `invoicing` branch does not look at the age.
* **The planner does not see what the funded rail has claimed** (`rails`).
  payouts.ts:217-220 says a commission frozen onto an open transfer intent must not be
  regrouped, interlocks.ts:4-5 that one in a live allocation cannot be flipped. The
  planner filters on `payoutId`, which the funded rail writes last (executor.ts:585).
  After the tenant turns its rail to manual, or a partner of an `auto` tenant
  disconnects, the next run plans the same commissions for payment by hand. If the
  transfer is out, or parked, the partner is paid twice; if there is no intent yet, the
  executor holds the batch and the brand pays twice.
* **An intent closed by an operator can be posted again** (`overlap`). The stamp
  before the POST accepts `failed` (executor.ts:454), which is how an all-reversed
  resolution leaves the intent. A pass that read the allocations before the
  resolution and the intent after it posts the intent under a pruned key, and
  money goes out for allocations that are canceled into the residual.
* **A refused retry is taken for a refused payment** (`door`). payout-transfers.ts:508-510
  says that a definite error proves that no transfer exists. 401 and 403 count as
  definite (payout-transfers.ts:1616-1618), and Stripe answers them before it looks
  at the idempotency key: a retry under a revoked or restricted API key is refused
  whatever the first POST did. The payout is canceled, its commissions are planned
  again and paid a second time. The PayPal rail distinguishes the two cases
  (paypal-payouts.ts:44).
* **A refund decides for the operator** (`undecided`). docs/direct-connect-payouts.md:193-200
  keeps the commissions of a transfer that came back from the planner until an
  operator decides. The interlock takes a confirmed intent for final whatever the
  status of its payout (interlocks.ts:47), so a partial refund replaces the claimed
  commission by an unclaimed one, which the next run pays.
* **A usage report is sent from a transaction that can still roll back** (`meter`).
  usage-billing.ts:458-461 freezes the report "BEFORE calling Stripe" so that a crash
  after Stripe accepts re-sends it. Both callers pass a transaction of their own
  (scheduler.ts:179, routes/billing.ts:582), so the freeze is a savepoint, and when the
  process, finishReport or the commit fails, ledger rows and frozen report are gone
  while the meter has the event. The next run computes anew, under the same identifier:
  what it sends is dropped by Stripe and booked by the ledger. In the run's trace the
  conversion was refunded in between, so nothing is booked and the brand is billed for
  it. tenancy.ts:244-246 states the rule this breaks.

One behaviour was met by a proof and excluded by an instance: with *two collectors* TLC
refutes `DebitMatchesLedger`. interlocks.ts:179 says the principal of a batch is what it
still holds, "invariant everywhere else". A pass that lost its batch to another one takes
back what was released (collect.ts:431, reclaimReleasedAllocations), and if a reversal
shrank the batch in between (interlocks.ts:180-197), it takes back the commission the
reversal had just taken out, which the principal no longer counts. The advisory lock of
the job (scheduler.ts:792-801) keeps the passes apart where it holds, the runs have one
collector, and the executor would freeze such a batch (executor.ts:169).

Two behaviours were met that the passing run `direct` excludes by a constant, since
the properties are about the rest: after a partial reversal that refund can pay the
partner again for the part he still holds (`RefundParted`), and a `transfer.updated`
of the whole transfer, delivered after the event of its reversal, puts the payout back
to paid (`StaleUpdates`; stripe-webhook.ts:998).

Two more were met by proofs about `DirectTransfers`, and TLC confirms both on instances
the run does not have:

* With *two operators* `ReleaseIsSafe` fails. The release of `disposeIntent`
  (payout-transfers.ts:1211-1234) compares the state of the row, not its key generation.
  One operator looks and finds nothing; another re-arms the intent, the executor posts it
  under the next key, the answer is lost and the key's window passes; then the first
  one's release commits, and the POST it has not seen may still arrive or has already
  paid. The stale call would have to last for a day, and recovery requests are applied
  one after the other; what the theorems suppose is that no operator re-arms a payout
  while another is about to release it (`NoRearmUnderRelease`), and two who do not are
  covered.
* With *a stranger's transfer and a partial refund* `PaidOnce` fails. A transfer that bears
  the payout's `transfer_group` and nothing else is taken for the payout's own, of
  generation 0, when it is reversed (stripe-webhook.ts:1020-1041), and closes the payout
  while its POST is under way. A partial refund then unclaims the line as of a finished
  payout, the rest of it is planned again, and the POST that arrives pays it too. The
  slices of `direct` have strangers without refunds (D) or refunds without
  strangers (C). The theorem supposes less: no refund takes only a part of a line whose
  payout a stranger's transfer closed, or of whose money the partner holds a part
  (`NoPartOfUndecided`), which every behaviour of every slice satisfies. It is what the
  docs promise of such lines, and less than they promise (`undecided`).

## 3. Proofs

Every proof is checked by TLAPS to its last leaf. `FundingCollectionProofs` proves, for every value of the constants that satisfies
`CollectionAssumption`:

* `TypeCorrect`: `Spec => []TypeOK`;
* `Inductive`: `Spec => []IInv`;
* `OneDebit`: `Spec => []OneDebitPerBatch`;
* `ReleasedDead`: `Spec => []ReleasedIsDead`;
* `FreedDead`: `Spec => FreedOnlyWhenDead`.

None of the three properties is inductive: each depends on what the workers hold
between two statements. The inductive invariant `IInv` is the conjunction of

* `TypeOK` and `RefsOK`: what a worker holds has the form its label needs, and
  stamps and keys name intents of their own batch;
* `OneDebitPerBatch` itself;
* `Known`: every intent somebody knows of (the search index, an event, a stamp, a
  key, a worker) exists at Stripe;
* `Keyed`: once the key of an existing intent has expired, the intent is in the
  search index, no create is on its way and no worker is about to create;
* `Early`: a batch that is absent or reserved has never reached Stripe, and nobody
  is about to take it there;
* `Stamped`: a batch in `payment_processing` is stamped, one in `funding_failed` is
  stamped or was attempted, and a worker that acts on the stamp finds it on the row;
* `Freeing` (with `Closed`): the intents of a batch that is released, or that a
  worker is about to free or to close, are dead, and nothing can add one;
* `Forcing` (with `Still`): a batch the operator's release has let go quiet is
  closing, its intents are indexed, and nobody is creating.

The step proof goes through an abstraction: every action of the specification is
shown to be one of a few *moves* of a row (`RowMoves`), of Stripe (`StripeMoves`)
and of a worker (`WorkerMoves`), and each conjunct is shown to be kept by every
move. That keeps one proof step per action and one per conjunct instead of their
product.

`FundedTransfersProofs`, `TransferSafetyProofs` and `AdoptionProofs` prove every
safety property of `FundedTransfers`, for every value of the constants that
satisfies `TransferAssumption` and under the hypotheses each theorem names:

| Theorem | Proves | Supposes |
|---|---|---|
| `TypeCorrect` | `Spec => []TypeOK` | |
| `Ledger`, `Settlement` | `[]LedgerIsTrue`, `[]SettledIsComplete` | `Serial` |
| `Refinement` | `ImplementsPayment` | `Serial` |
| `OnePayment`, `WithheldStays` | `[]OneLiveTransfer`, `[]CanceledIsUnpaid` | `Serial`, `Sound` |
| `Adoption` | `AdoptsOwn` | |
| `Resolution` | `ResolutionIsFenced` | `Serial`, `~ LoseEvents` |

`Serial` is one executor and no resolution during a pass; `Sound` is
`Truthful /\ Margin /\ ~ Straggle` (section 2.3). Section 2.3 says what
goes wrong without the two of them that the code does not secure, so these hypotheses are what the rail rests on, not convenience. `Adoption`
needs none of them: the compare-and-set on the key does its work against any
number of passes and operators.

The invariants, each kept by every action:

* `TInv` is `TypeOK`, what the fields of a process say of each other (`Coherent`),
  that a request somebody waits for is the one he waits for (`Waiting`), and that
  every transfer that is carried, kept or recorded is one of the intent's (`Known`).
* `IInv` adds `Shape`, what the state of an intent says of the allocations it was
  frozen from, and `Passing`, that a pass's reading still covers what is live. The
  first is why a transfer pays the whole group; the second, which two executors
  would break, is why a batch settles only with nothing open. Its step proof names
  the five things an action can do to the shares (`Calm`, `Pays`, `Abandons`,
  `Cancels`, `Freezes`) and shows each conjunct kept by each of the five.
* `SInv` is about what may still become a transfer: all that was sent bears the
  key of the intent as it is, and a POST under that key either makes the first
  transfer or is replayed (`Safe`); a refused intent made nothing; what an
  executor is about to post is safe; what an operator saw of an intent is still
  true, or the intent is over. Its step proof is by framing: a step leaves all
  but one partner as they were (`Frame`, `Calmer`, `Kept`), and every process
  with what it had or with something it has just seen to be true (`Carries`).
* `Stamped` (a kept or carried transfer bears its generation) and `FInv` (what a
  current reading of a review does not show is still being delivered) are the two
  parts of `AdoptionProofs`.

`CollectionBooksProofs` continues the first of these modules, for any number of
batches, commissions, handlers and operators:

| Theorem | Proves | Supposes |
|---|---|---|
| `ChargedByOne` | `[]ChargedOnce` | |
| `DebitHeld` | `[]DebitIsHeld`: a debit that may still succeed is no more than its batch holds | |
| `ClawbackKept` | `[]ClawbackHolds` | clawbacks are not lost (`"clawback" \notin LoseEvents`) |
| `DebitMatches`, `FundedWhole` | `[]DebitMatchesLedger`, `[]FundedIsWhole` | `OneCollector` |
| `CollectionRefinement` | `ImplementsCharge` | |

`BooksInv` needs no hypothesis: one open batch at a time (`OneOpen`), every request and
intent bears the principal (`Priced`), a batch holds all it charges for as long as it is
not given up (`Kept`), whoever confirms an intent has seen it paid (`Confirming`), and a
funded batch is stamped with a paid intent (`FundedPaid`). `ReturnInv` adds that a refund
which was handled has frozen its batch. `PassInv` is about the one collector: while it
creates the intent of a batch, only a cancellation or a clawback takes the batch from it
(`Passing`), so that what it then takes back is spent and never charged again. Both
equalities break at that point with a second collector (section 2.11).

The refinement needs no hypothesis either, not even one collector: a batch that a second
collector leaves with more than its principal still covers exactly what it was charged
for. `ChargeInv` adds to the two invariants that nobody freezes a batch whose intent was
never made (`Touched`) and that an intent has no amount before it exists (`Unpriced`), from
which `StagesAre` reads how far a batch is off the one intent it has. `StepAboutOne` shows
that a step disturbs one batch at most, and of it only the status, the allocations or one
intent, unless the step is a reservation or a reversal (`OneMove`). Each of the five then
advances that batch in `BatchCharge` or leaves it where it is (`Advances`), and an
advance of one batch is a step of `BatchCharge` (`AdvanceIsStep`).

The three small components in front of and beside these modules are proved in full, for
any number of handlers, passes, reporters and conversions:

| Theorem | Proves | Supposes |
|---|---|---|
| `InboxTypes`, `Acknowledged` | `[]InboxTypeOK`, `[]AckedIsHandled` | |
| `ClaimStands` | `ClaimOutlivesGhosts` | |
| `RequestTypes`, `Truthful` | `[]RequestTypeOK`, `[]VerdictIsTrue` | |
| `Final` | `VerdictStands` | |
| `UsageTypes`, `Refunds` | `[]UsageTypeOK`, `[]RefundsNetOut` | |
| `MeterTrue` | `[]MeterIsTrue` | `Repeats`, of runs inside a caller's transaction |

For the requests, that a verdict is true is not inductive: `QueueInv` adds who may still
act. `Fresh` says that, as long as no retryable outcome hid an interrupted attempt, a
request without a lease was not acted on and nobody is about to, and that a holder who did
not take over is alone; `CleanRefusal` carries this past the refusal; `Holding` says that
the marker and an answer of applied are left only by a function that acted; and `Listing`
that whoever holds a recheck finds it due, which is why a settled one is not reopened. The
exception of `VerdictIsTrue` (section 2.8) is where `Fresh` breaks.

For the usage reports, `MeterTrue` is about sums over any finite set of conversions. The
induction it needs is not taken from the library, whose theorem has an operator as a
parameter: `SetInduction` states it for a set of subsets and follows from the
well-foundedness of strict inclusion. From it come the two facts about sums the proof
uses, that changing one summand changes the sum by the difference, and that adding
pointwise adds the sums. The invariant says what a frozen report still owes the ledger
and the meter: a run that has the report and has not sent it, one that has sent it, and
one that has finished are three different equations between `usd`, `meter` and `carry`.

A run may die at any point, after Stripe took its event too. Called directly, it needs
nothing for that: the frozen report is committed before the event is sent and is sent
again, which is what usage-billing.ts:458-461 is for. Inside a caller's transaction, as
in production, the frozen report goes with that transaction, and Stripe may have an event
of which nothing is left in the ledger (`Unbooked`). What then stands between the brand and
a wrong bill is that the next run uses the same identifier. `Repeats` says what this is
worth: the next run of that mark comes to the amount Stripe took, before the mark moves,
and no contract moves the mark under a run that is lost. The theorem is
`UsageSpec /\ [][Repeats]_usageVars => []MeterIsTrue`, so it covers the lost commit of
which the recomputed report is the same, and pins down what the code leaves to
chance: nothing in it makes a step `Repeats`, and run `meter` is a behaviour with one that
is not. Of a caller's transaction that commits `Repeats` asks nothing.

`PayPalProofs` proves the PayPal rail, for any number of payouts, batches, passes and
batches PayPal could make under one id:

| Theorem | Proves | Supposes |
|---|---|---|
| `PayPalTypes` | `[]PayPalTypeOK` | `AdminChecks` |
| `PaysOnce` | `[]PayPalPaysOnce` | `AdminChecks` |
| `Released` | `[]ReleasedIsUnpaid` | `AdminChecks` |
| `PaidTrue` | `[]PaidIsTrue` | `AdminChecks` |

`AdminChecks` is what docs/paypal-payouts.md:201-206 asks of the admin, and nothing in the code
can secure. `PayPalInv` says when a batch is clean (PayPal has none of it, and no request
for it is on its way), which it is as long as its state is one from which payouts may be
released (`StateTrue`); that PayPal makes one batch of one id (`OneCopy`), because
whatever it could make twice is not sent any more (`Expired`); that a payout confirmed by
hand is in no batch PayPal has (`HandPaid`); and, for each pass, what it may still believe
of the batch in its hand after it lost the lease (`PassTrue`): an answer it waits for is
of its own request (`Waited`), an item it saw given back stays given back. Each action is
first shown to be a `Goes`, which says what a step may do to each variable and is all
that other passes and payouts need to know of it; `Fine` adds what the pass that steps
needs, and is proved of every action.

`DirectTransfersProofs` proves the direct rail, for any number of lines, units, payouts,
executors, key generations and transfers:

| Theorem | Proves | Supposes |
|---|---|---|
| `DirectTypes` | `[]TypeOK` | |
| `DirectBooks` | `[]BooksBalance` | `~ StaleUpdates` |
| `DirectReversals` | `[]ReversalIsKnown` | `Truthful`, `~ StaleUpdates` |
| `DirectReleases` | `ReleaseIsSafe` | `Truthful`, `~ DoorRefusals`, `NoRearmUnderRelease` |
| `DirectPaysOnce` | `[]PaidOnce` | `Truthful`, `NoRearmUnderRelease`, `DefiniteIsDefinite`, `NoPartOfUndecided` |

`DirectPaysOnce` leaves `DoorRefusals`, `StaleUpdates` and `RefundParted` alone: Stripe may
refuse a retry at the door, a stale update may put a payout back to paid (that harms
`BooksBalance` and `ReversalIsKnown`, and pays nobody twice), and a refund may reach a
payout of which a part came back. What it supposes is

* `Truthful`: what the code asks of an operator (sections 2.3 and 2.5);
* `NoRearmUnderRelease`: no operator re-arms a payout another is about to release. One
  operator cannot break it (section 2.11);
* `DefiniteIsDefinite`: when a posted intent is failed, no transfer of it stands or can
  come. payout-transfers.ts:508-511 claims it of the errors it calls definite. Run `door`
  is a behaviour in which it is not so, and a payment made twice;
* `NoPartOfUndecided`: no refund makes a part of a line payable whose transfer came back
  while the partner may still be paid for it. docs/direct-connect-payouts.md:193-200
  promises more; run `undecided` shows that the code does not keep the promise, and
  section 2.11 what a partial refund can cost.

The last three are hypotheses about the behaviour, as in
`Spec /\ [][NoRearmUnderRelease]_vars => ...`. TLC refutes `PaidOnce` if any of the four is
dropped, so none is there for the proof's sake alone, and all hold in the four slices of
`direct`: there the theorems state what the run checks, for every size of instance.

`BaseInv` holds unconditionally: `TypeOK`, that a request somebody waits for is the one he waits
for (`Waited`), that the transfers in kept answers, events and rows exist and are of the payout
(`KeptTrue`, `EventsTrue`, `RecordedTrue`), and what each process has in hand at its
label (`Doing`). Under it every action is `Fine`: it does to each variable no more than
`Goes` allows, one conjunct for each group of variables. That is shown once for each
action; the invariants below are then kept by every step because `Goes` keeps them.

* `BooksInv`: what claims a line was planned, a canceled payout keeps nothing but lines
  that are paid, and, where no stale update arrives, what a payout that paid claims is
  paid and every payout balances. `BooksBalance` alone says nothing of the lines a planner may
  still claim.
* `KeysInv`: everything under way, and every transfer of ours, bears the generation of the row,
  and whoever may still give out the next key knows that nothing is under way. This is
  where a false assertion of an operator shows.
* `KnownInv`: whoever is about to record or keep a transfer that came back will not be the
  last to write, since its event is still to be delivered.
* `ReleaseInv`: only one transfer of ours is ever made for a payout; a key Stripe forgets
  is one nobody will use (`Expired`); where Stripe refuses nothing unseen, a refusal is
  told only of a payout without a transfer (`Refusal`); an operator about to release has seen that nothing is left.
* `PaysInv`: a payout still claims whatever of its lines is owed (`Held`), or can never be with the
  partner again (`Dead`); two payouts share a unit only if one of them is dead.

Only model-checked: the composition `RailSwitch`, whose one property TLC refutes, and
everything about liveness (`PaymentIsNoticed`, `ReleaseEnds` and the like), which is out of
the prover's reach. `ChargedOnce` of run `parts` is proved as `ChargedByOne`, of the module
itself; the run states it of the one among six instances that it is about.

## 4. Not modelled

The specifications cover the part of `apps/api/src` that moves money, which is a small
share of the repository. Most of what is left has no protocol a model checker could
say something about: the portal, the SDK and the Stripe app are user interfaces; the
largest files of the API are routes that read and write one row in one transaction
(`routes/platform-admin.ts`), schema text (`openapi/`), or HTTP calls (`network-client.ts`).

* *Attribution and commissions*: one transaction per event; what it pays is arithmetic.
* *The rest of platform billing*: which conversions bill what under which fee rule is
  arithmetic in SQL; invoices, subscription lifecycle and the catch-up of Stripe events
  have protocols of their own, and do not touch what partners are paid.
* *The rest of the composition of the rails*: `RailSwitch` has the manual rail beside a
  funded batch. The direct rail beside one (the operator's override of
  payout-method.ts:37) and the planner beside the collection of a batch are not modelled.
* *The row leases of the daily sweep* (`funding/reconcile.ts`) and its alerts.
* *The lock under READ COMMITTED of interlocks.ts:106*: a reversal is one transaction
  at one point here.
* *Tenancy, sessions, rate limits, tracking, exports, the click router, sanctions
  matching, outgoing webhooks*: request plumbing and lookups.

## 5. Plan

1. `HostedFunding`: collection, transfer and planner composed over one commission
   ledger, of which `RailSwitch` is the first part.
2. The leases of the daily sweep.
