# Verification of cargopilot-backend

TLA+ models of the delivery backend under `src/`, model-checked with TLC and,
where it matters most, proved with TLAPS. Paths below are relative to `src/src/`.
`PROJECT.json` holds the same facts as data: which definition models which
lines, what each run checks, which hazards of the code which property is for.

1. [Inventory](#1-inventory): the system, its state, what is hard about it
2. [Modules](#2-modules): how the models correspond to the code
3. [Runs](#3-runs): what TLC checks, on which instances, and what it found
4. [Proofs](#4-proofs): what holds for every value of the constants, and why
5. [Limits](#5-limits): abstractions, and what is not modelled
6. [Plan](#6-plan): what comes next

## 1. Inventory

An Express server over one Postgres database (Prisma), an optional Redis, and
two worker processes: one that renders parcel labels, one that keeps analytics
fresh. Any number of server and worker processes may run; they share nothing but
the database, Redis and a bucket. Within a process every `await` lets other
requests run. The code calls `prisma.$transaction` without an isolation level, so
transactions run at Postgres' default, READ COMMITTED.

| Part | State it keeps | Operations | Talks to |
|---|---|---|---|
| **Cash custody** `features/cash` | `CashCollection` (one row per order and kind), its `CashCollectionEvent` ledger, the order's paid states | collect, hand-off, settle | reads the order's driver and warehouse |
| **Order task workflow** `services/orders/workflow/task` | `Order.status`, assigned driver, current warehouse, last exception reason, `Tracking` | assign drivers, bulk status, driver status | reads cash rows as a gate; publishes analytics events |
| **Label queue and worker** `services/orders/workflow/label`, `workers/order-label.worker.ts` | `OrderLabelJob`, label keys of parcels | enqueue, claim, generate, mark | order creation; S3 |
| **Order creation** `services/orders/repo/order-write.repo.ts`, `controller/create.controller.ts` | orders, parcels, addresses, the number counter, initial cash rows | create | pricing, labels, invoices, Stripe |
| **Order import** `workflow/import` | in memory only | preview, confirm | order creation |
| **Users and sessions** `services/users`, `middleware/auth.ts` | users, refresh sessions, a cache of authenticated users per process | register, login, refresh, logout, change password, create, delete | every route |
| **Invoices, Stripe webhook** `services/invoice`, `services/stripe` | `Invoice` and its status | create, payment succeeded or failed | Stripe, PDF, bucket |
| **Notifications, realtime hub** `services/notifications`, `features/realtime` | notifications, open event streams per process | publish, read, retention | workflow, live map |
| **Live map** `features/liveMap` | driver presence and warehouse state in Redis or in memory | heartbeat, offline, snapshot, subscribe | workflow, realtime hub |
| **Manager analytics** `features/manager`, `workers/analytics.worker.ts` | a Redis stream, cached results, locks, a read model | publish, consume, refresh, query | every write |
| **Pricing and SLA** `services/pricing` | tariff plans, SLA rules, due dates of orders | quote, edit, recompute, backfill | order creation |
| Addresses, customers, warehouses, drivers, tracking; proofs of delivery; reads and exports; rendering and storage; metrics and wiring | rows of their own, files | single-statement reads and writes | — |

How the parts that are modelled meet:

```
   order creation ──rows──▶ CashCollection ◀──collect / hand-off / settle── cash custody
        │                        │  gate: is cash due?                         ▲
        │                        ▼                                             │ access: driver,
        ├──status──▶ Order ◀──status, driver, warehouse── task workflow ───────┘ warehouse
        │
        └──enqueue──▶ OrderLabelJob ◀──claim / mark── label workers ──keys──▶ Parcel
```

What is hard in each, and what makes it correct:

- **Cash custody.** Each operation reads the row, decides, and updates the row
  *by its id alone*: nothing in the write repeats what was read. Two requests on
  one row both succeed and the last one wins. Three tables change together: row,
  ledger and the order's paid state. Rows may be missing (orders older than the
  ledger) and are then created by the first collection. Correct means: the money
  has one holder at any time, whoever the ledger's last event names; paid states
  say what was collected; only money that is owed is taken; settled is final.
- **Task workflow.** All validation (final states, driver transitions, warehouse
  scope, cash due) happens before the transaction and is not repeated in it.
  Correct means: an order that shows as picked up or delivered had its cash
  collected, whatever happened between the check and the write; the tracking
  history ends in the order's status.
- **Label queue.** Workers claim through a conditional update, then mark by id
  long after. Jobs are retried with a delay, given up after a number of attempts,
  and forgotten when a worker dies. Correct means: one worker per job, outcomes
  are final and earned, and each job comes to one.
- **Creation, import.** Several transactions and external calls in a row, none of
  them undone when a later one fails. Correct means: an error to the caller leaves
  nothing behind that a retry would duplicate; order numbers are unique.
- **Users and sessions.** Every operation reads, awaits a hash or a query, and
  writes; whom a request is served as comes from the token, a cached entry or the
  row, by configuration. Correct means: no session outlives its account, and what
  an account was stops counting once it was moved or deleted, whatever tokens and
  entries said at first.
- **Webhook.** Delivered at least once, in any order, concurrently. Correct means:
  an invoice's paid state is final and a delivery repeated changes nothing.
- **Live map, realtime, notifications.** Presence is read, merged and written back
  in separate calls, shared between processes through Redis or not shared at all.
  Correct means: the shared presence comes back to what the driver's row says, and
  a browser that watches is sent every entry of the stream from its process' place on.
- **Analytics.** A stream consumer with deduplication, a lock with a lifetime, and
  caches in two layers. Correct means: an event a worker was given is accounted
  for, one owner of the lock while it lasts, an event names every section its request
  changed, and no copy stays old by feeding another one.
- **Pricing and SLA.** Pure lookups over rule tables, and a backfill that works
  through a backlog in limited batches. Correct means: a plan saved without a rival
  is the one quoted, with its own bands and as the only default, and every order that
  could have a day gets one.

## 2. Modules

```
 OrderBase ── CashDesk ──(refines)──▶ CashCustody    LabelJobLife ◀─(refines)─ LabelQueue      OrderIntake
      │           │                                          ┌───────────┘            │
      └─ OrderTasks ── OrderDesk = CashDesk + OrderTasks     │                        │
                  │           │                              │                        │
         MCCashDesk      MCOrderDesk                   MCLabelQueue        MCOrderIntake      (instances for TLC)
      CashDeskProofs ── OrderDeskProofs             LabelQueueProofs    OrderIntakeProofs     (proofs)

 AnalyticsEvents ◀─┬─ AnalyticsWorker ─┐                           PricingRoutes ◀─┬─ TariffBook ──┐
                   ├─ AnalyticsFigures ┤   EventFeed ─┐                            ├─ SlaBackfill ─┤
                   │    AnalyticsCache ┤   DriverPresence ┤              Accounts ─┼───────────────┤
                   │        MCReadSide ┘       MCLiveMap ─┘                        └─ MCBackOffice ┘
             ReadSideProofs          LiveMapProofs                AccountsProofs ── BackOfficeProofs   (proofs)
```

**OrderBase** holds the rows both sides of an order share, and the pure decisions
taken on them: `bill` (what the order's terms make payable, and what was paid in
advance; never changed), `driver`, `location`, `paid`, `cash`. `Expects` is the
rule by which rows are created, `Collectible` the one by which money may be taken,
`PickupDue` and `DeliveryDue` are `hasCashDueForStage`. The three rules differ at
the edges (a payer that was never said, a kind without a row), which is where the
`collect_first` finding lives. A holder of cash is its id: a driver's, or a
location's; warehouses and pickup points are one kind of holder to the custody
code. All users of a location act as the location.

**CashDesk** is `cashCollection.service.ts`. A request is three steps, because that
is what READ COMMITTED makes visible: `Begin` (load the order, check access),
`Read` (load the row, refuse or decide the update), `Commit` (write row, event and
paid state). The row lock of the update makes commits to one row follow each
other, and nothing of a transaction is seen before its commit, so the writes of
one transaction are one step. `Abort` is every refusal, timeout and crash: the
transaction rolls back. `ensureCollectionForCollect` inserts a missing row inside
the same transaction; `creates` remembers it, and `Commit` is impossible if the
unique index already has a row by then. `Dispatch` stands for the task workflow,
which moves the columns access depends on.

**CashCustody** is what the cash desk promises: each operation is one step on the
current row, along absent/expected → held → settled, with hand-offs and recounts
while held. Only the driver who holds cash, or a location for cash at a location,
may correct its amount. `CashDesk!CustodyKept` says that CashDesk implements it,
with the identity mapping on `bill`, `paid` and `cash`.

**OrderTasks** is `order-task.workflow.ts`. A request is a validating step, which
reads everything and changes nothing, and a committing step, which writes by id
whatever happened since. A bulk request holds a set of orders and is refused or
written as a whole. Only the move to `assigned` is conditional on the current
status (`updateMany where status in ...`), yet its tracking row is written anyway,
and `timeline`, the status of the latest tracking row, may differ from `status` when
requests overlap.

**OrderDesk** is the composition: cash requests and task requests interleave over
the same rows. `CashKept` states that the workflow stays within `Dispatch`, so all
that holds of `CashDesk` holds of the composition.

**LabelQueue** is the durable label queue. Time enters only through the order in
which jobs become available: `line` holds the jobs whose `availableAt` has passed,
oldest first, which is the order the claim query asks for; `Mature` is the passing
of a retry delay. A tick of a worker reads its window of candidates (`Poll`), tries
them one by one (`Claim`, `Miss`; a candidate that is out of attempts is a miss), and
works through what it claimed (`Generate`,
`GenerateFails`, `MarkJobCompleted`, `MarkJobFailure`). `Outage` ends a tick at any
point: a crash, or an exception out of a claim or out of `markJobFailure`.

**LabelJobLife** is what the queue promises of a job, without windows, batches or a line: it
waits, one worker at a time takes it, and only that worker completes or fails it, at most
`MaxAttempts` times; a worker may forget what it has, and those jobs are lost. In
`LabelQueue!JobLifeKept` the abstract `hands` are `Hands`, the workers that have the job in
their batch; the other variables are the queue's own.

**OrderIntake** is how orders come in: `create` and `importOrdersFromCsv` with what
they call, and the Stripe webhook. A request goes through its stages one `await` at
a time (`TakeNumber`, `Insert`, `Label`, `CreateInvoice`, `CreateCheckout`, `SaveLink`,
`Reply`), any of which may fail with what was done before left in place (`CallFails`).
An import repeats number, insert and label for each row of its file. `LabelFails` is
where the two differ: a creation goes on with a warning, an import ends. With
payments on, the amount is looked at only after the order exists (`AfterLabel`). The
webhook's stages are `LookUp`, `MarkPaid`, `UploadInvoice` and `SaveKey`; deliveries of
one event repeat and overlap, also after it was acknowledged. Stripe is external:
`EndCheckout` and `Deliver` are what the code may expect of it. The label jobs that
`Label` leaves are where `LabelQueue` begins, the rows an order starts with where
`OrderBase` does.

**AnalyticsCache** is one section of the manager analytics for one key: the read model
(`analyticsReadModel.ts`), behind it the cache of results (`analyticsV2Cache.ts`),
each in the memory of every process and in Redis. A copy is the version of the data it
was computed from. A read goes through its awaits one at a time (`ModelMiss`, `CacheMiss`,
`TakeLock`, `Compute`, `Store`, `Unlock`, `Delete`, `Save`), any call to Redis may fail
(`RedisFails`), after which the figures are computed without Redis (`ComputeAgain`). The
lock is compared in one call and deleted in another. A connection that breaks after a call
took effect makes ioredis send the call again (`config/redis.ts` keeps its defaults): a
`SET NX` then finds the read's own lock (`LockUnheard`), a `DEL` deletes whatever lock was set
since (`DeleteTwice`). `Drop` is every way a copy goes:
expiry, invalidation by a worker, clearing of the read model. That a worker's rebuild is
itself a read through both caches needs no action of its own.

**AnalyticsEvents** is the table from an event's type to the sections it names.
**AnalyticsWorker** is the stream and `analytics.worker.ts`: leadership, `XREADGROUP`, the
mark against a second processing, the acknowledgement, the timer and the rebuild, each a
step, with faults at each. `AnswerLost` is the resent call here: `SET NX` finds the mark it has
set itself, so that the event passes for a duplicate, and `XREADGROUP` gives out what follows,
neither with an error. `lost` is a history variable: what a worker held when it failed, or was
given in an answer that never came.
**AnalyticsFigures** is what the queries of `analyticsV2.ts` compute, as the rows that one
order contributes to each section (`SummaryFigures`, ...), and what each mutation does to
an order and announces (`Announce` through `inferEventType`, or `Unannounced`). Among a warehouse's warnings, the
finance exposure (`ExposureFigures`) counts the orders of every warehouse: its query's own `OR`
takes the place of the one that limits the scope (`analyticsV2.ts` 585-592).

**EventFeed** is how an event reaches the browsers that watch, for the live map
(`liveMapStore.ts`) and for the invalidations of the analytics, which are built alike:
told to the watchers of the own process at once, appended to a stream, and read by every
process from where it stands; an `XADD` whose answer is lost is sent again
(`AppendUnheard`), and so may be there twice. **DriverPresence** is the one flag of a driver in its four
places: row, cached profile, Redis, memory of each process. A flag whose writing was not
heard of is written again, over what came since (`WriteUnheard`).

**Accounts** is `userRepo.ts`, the deletion rules of the schema and `auth()`. The id of
an account is never given twice; `mode` is `AUTH_DB_LOOKUP_MODE`. `Rotate` is a refresh, which by the
schema never succeeds: it writes `replacedBySessionId` before the row it names exists, and
the foreign key is not deferrable (`../prisma/migrations/20260430173000_*`, lines 35-37).

**PricingRoutes** is the lookup both pricing features begin with: a region by name, a zone
by two regions. **TariffBook** is the editing of plans, statement by statement, since
each statement of a READ COMMITTED transaction sees what was committed when it began and
waits for rows another has changed; and the quote, as an operator on the tables.
**SlaBackfill** is the expected day: `Snapshot` when an order is placed, and the backfill,
order by order and query by query (`ReadRoute`, `ReadZone`, `ReadRules`), while rules, regions and orders change.

The modules of each of `MCReadSide`, `MCLiveMap` and `MCBackOffice` share no variable, or
only regions and zones that nobody changes meanwhile. Such a composition has nothing to
show in its interleavings: one run explores each module while the others rest, which the
variable `side` says.

## 3. Runs

| Run | Instance | Shows |
|---|---|---|
| `cash_serial` | 1 order, 2 drivers, 1 location, 1 request, amounts 1 and 2, four sets of terms | without overlap: the cash desk implements the custody chain (`CustodyKept`); the ledger counts the cash on the row (`LedgerCountsCash`) and each event continues where the last one ended (`LedgerContinues`); money leaves a driver's hands only by the driver's or a manager's doing (`DriverParts`) |
| `cash_races` | 1 order, 2 drivers, 2 locations, 2 overlapping requests | with overlap: paid state and amount agree (`PaidAgreesWithCash`), the last event names the holder (`LedgerNamesHolder`), only owed cash is taken (`OnlyOwedCashTaken`), nothing becomes due again (`DueNeverReturns`) |
| `settled_reopened` | 1 order, 2 overlapping requests | **violated:** settled cash is changed by a request that read it before |
| `order_desk` | 1 order, 1 driver, 1 pickup point, 1 cash and 1 task request | an order shown as delivered or picked up had its cash taken (`DeliveredMeansCollected`, `PickedUpMeansCharged`); the tracking history agrees with the status when task requests do not overlap (`TimelineAgrees`); the workflow is the environment the cash desk assumes (`CashKept`) |
| `collect_first` | the same, with a service charge whose payer was never said | **violated:** such an order is blocked for cash that nothing can collect |
| `label_queue` | 2 jobs, 2 workers, batch 2, 2 attempts, 2 outages | a job has one worker (`ClaimExclusive`), the queue implements the life of a job (`JobLifeKept`: outcomes are final and earned, and only a tick cut short loses sight of a job), and every job comes to an outcome unless its tick was cut short (`FinishedOrStranded`) |
| `label_starved` | 3 jobs, batch 1, 1 attempt, no outage | **violated:** exhausted jobs at the head of the line keep later ones from being tried |
| `label_stranded` | 1 job, 1 worker, 1 outage | **violated:** a job whose worker dies is never claimed again |
| `order_intake` | 2 requests, one with a positive amount, files of up to 2 rows, every label mode, payments on and off, 2 deliveries at once, 1 failed delivery | numbers taken are nobody else's (`NumbersFresh`); success leaves all that was promised (`AnsweredWhole`), a failed import the first rows of its file (`LeftoverIsPrefix`); invoices are paid, and carry a key, for good reason (`PaidForReal`); what was acknowledged is done (`AcknowledgedSettled`), and whoever pays gets a paid invoice with a document (`PaymentProcessed`) |
| `read_side` | 2 processes, 2 reads, 1 change of the data; 2 workers, 2 events, 3 entries, batch 2, 1 fault; 1 order over 2 days | the figures are computed under the lock by one read at a time until a lock runs out or is deleted twice (`OneHolder`); once the data rests every copy becomes current (`EventuallyCurrent`); an event a worker was given is never forgotten in silence (`Accounted`) and gets its rebuild unless it was lost with a worker or an answer (`EventRebuilt`); an event names every section its request changed (`ChangesAreNamed`) |
| `live_map` | 2 processes, 2 watchers, 2 events, batch 2, 2 faults; 2 requests about a driver, 1 switch, 1 silent fault | a process skips no entry of the stream (`NoGap`), what a watcher is owed lies ahead of its process (`OwedAhead`) and is sent (`OwedIsSent`); as long as heartbeats come, Redis says again and again what the driver's row says (`PresenceSettles`) |
| `back_office` | 1 account, 1 session, 2 requests, each mode; 2 plans, 2 editors, 3 edits; 2 orders, 2 backfills of 1 order, 1 rule | what an account was stops counting (`AccessSettles`) and does not come back (`AccessStays`); an edit without a rival puts a plan right, whatever rivals left (`EditRestores`); an order that could have a day does not stay without (`BackfillReaches`) |

**What the violations say.**

- *Settled cash reopens.* `assertCollectionMutable` ("Settled cash collection cannot
  be changed") looks at the row as it was read. A hand-off that read the row as held
  and commits after a settlement makes it held again, by someone else than finance.
- *Cash nobody can collect.* `hasCashDueForStage` counts an unpaid service charge
  with `deliveryChargePaidBy = null` as due at delivery and the driver is told to
  collect it first; creation makes no row for it and `ensureCollectionForCollect`
  refuses to.
- *A full window starves.* A claim looks at the first `2 * batchSize` candidates by
  `availableAt`. Jobs that are out of attempts stay `failed` with an old
  `availableAt`, remain candidates, and are skipped. Once a window's worth of them
  is at the front, nothing behind them is ever processed: `JammedForGood` proves it for
  any batch and number of jobs, workers and attempts.
- *A dead worker's job is lost.* Claims accept `pending` and `failed`, nothing
  releases `processing`; `lockedAt` and `lockedBy` are written and never read.
  `StrandedForGood` proves that no later step of any worker gets at it again, and
  `OnlyOutagesStrand` that there is no other way to lose a job.

**What the passing runs keep to.** A property that holds says where it stops, and these
stop short of what one might hope for:

- *Analytics.* How long a copy is old is bounded by lifetimes alone. Unless
  `ANALYTICS_WORKER_CLEAR_BEFORE_REBUILD` is set, a worker's rebuild is answered by the read
  model and computes nothing; what it does is to invalidate its own and Redis' results, and the
  memory of other processes it cannot reach. `XREADGROUP` with `>` never gives an entry
  twice, and an event is marked before anything is done about it: what a worker holds when it
  fails is `lost`. So is an event whose mark, or whose delivery, took effect while the answer was
  lost: the client sends the call again, and no error is seen. `Accounted` says that nothing else
  is. The webhook's payment, the
  backfill, a new SLA policy and a driver's new warehouse announce nothing
  (`Unannounced`).
- *Live map.* A process without memory of a driver writes `on` with each position until a
  heartbeat reads the row; so does one with yesterday's memory. Until it receives a first
  entry, a process asks for what comes after its call, and misses what comes between calls.
- *Accounts.* A new password, a logout and a deletion leave the access tokens as they are. In
  `token_or_cache` a deleted account is served until its token expires. A registration
  whose session insert fails leaves an account, and whoever tries again is told that the
  email is taken.
- *Pricing.* Two edits at once may leave two default plans, or one plan with the bands of
  both; `EditRestores` is about the next edit that meets no other. A backfill takes the
  oldest orders first, so as many orders as it takes that no rule gives a day are
  taken again each time, and hide what is behind them: `Reachable` excludes those.

**Bounds, and why they are enough.** Orders do not interact in the custody code, and
in the workflow only through a bulk request, which treats each alike: one order shows
what any shows (the proofs cover any number). Two drivers and two locations are what
"somebody else" needs; two requests are what a race needs, since a third can only
repeat what the second does to the row the first has read. Amounts 1 and 2 against
expected amounts 1 and 2 give a partial, an exact and an excessive collection. The
terms take each branch of the rules once: both kinds due, a kind nobody pays in cash,
a kind paid in advance, a payer never said. For the queue, two jobs and two workers
with a batch of two make overlapping windows and batches with a remainder; two
attempts make a retry and a give-up. `MaxOutages` is the only bound that is not the
code's: it limits ticks cut short, and a fault may hit each worker once.
`label_queue` keeps its exhausted jobs fewer than a window (2 against 4), as
`FinishedOrStranded` says it must; `label_starved` is the other side. For intake, invoices of
different orders do not interact, so one of the two requests carries an amount and the
other is refused for its own when payments are on; two rows make an import that fails
between them, two deliveries an overlap, and one failure leaves each stage of the
webhook's work half done once.

For the read side, one change of the data makes copies of two versions, two processes and two
reads make every hand-over of the lock, and a third entry in the stream is one event sent
twice beside another; a batch of two makes batches with a remainder. For the feed, two events, of which
one may be appended twice, and a batch of two make a call that returns a part, and two faults a
failed call or restart beside an answer lost. One account shows
what becomes of any, since accounts meet only in emails, which `AccountsTyping` covers for any
number; two requests make each race of an operation with a deletion. Two plans and two
editors make a rival, a third edit the one that repairs. Two orders and a backfill that takes one
make a head of the queue and something behind it.

**Symmetry** is used over drivers, locations and requests in the two cash runs that
check invariants and action properties only, never under a liveness property or a
fairness condition.

**Deadlock** is checked in the cash and desk runs. The queue may rest: when every
order's job is completed, failed or stranded, there is nothing left to do, and so may intake
when every request is answered. So may caches when everything expired, streams when
nothing is published, and the back office when nobody asks. Their runs say
`CHECK_DEADLOCK FALSE`.

**Fairness** is assumed in five specifications. `FairQueueSpec`: weak fairness of each worker's steps
and of the passing of a retry delay. A worker polls from `setInterval` for as long as
its process lives, and each `await` in a tick returns or throws. Nothing makes
generation succeed, nothing forces or forbids an outage, and nothing forces orders to
be created. `FairIntakeSpec`: Stripe goes on delivering an event that was not acknowledged
(as it does for days), and a delivery in progress goes on to its answer; failures are
bounded by `MaxFaults`, as they end before Stripe gives up. Nothing obliges anybody to
create or to pay. `ReadSideSpec`: a read in progress goes on, copies and the lock have
lifetimes in Redis, a worker's loop, timer and rebuild go on, and the leader lock of a
process that is gone runs out; nobody need read or publish. `LiveMapSpec`: the consumers'
loops and requests in progress go on and cached profiles expire; `PresenceSettles` is
conditional on heartbeats. `BackOfficeSpec`: requests and backfills go on, cached
entries expire, and tokens do in the mode that believes them; `BackfillReaches` is
conditional on backfills being run. The safety properties assume no fairness.

## 4. Proofs

For any orders, holders and terms, any number of requests in flight, any jobs,
workers, processes, watchers, accounts, plans, editors, regions and backfills, any batch
size and number of attempts. The assumptions are those on the constants
(`BillsAssumption`, `NamesAssumption`, `AmountsAssumption`, `TasksAssumption`,
`QueueAssumption`, `IntakeAssumption`, `CacheAssumption`, `FiguresAssumption`,
`WorkerAssumption`, `FeedAssumption`, `PresenceAssumption`, `AccountsAssumption`,
`NullAssumption`, `RoutesAssumption`, `TariffsAssumption`, `TariffNullAssumption`,
`SlaAssumption`): ids of different kinds differ, `None` and `Unset` are none of them,
amounts are natural numbers and a caller's amount is positive, which is what the schema
and the request validation give; a batch, a backfill's limit and the attempts are at
least one, as the configuration clamps them.

`CashDeskProofs`:

| Theorem | Statement |
|---|---|
| `CashTyping` | `CashSpec => []CashTypeOK` |
| `CashInvariant` | `CashSpec => []CashInv` |
| `PaidStatusCorrect`, `LedgerCorrect`, `OnlyOwedTaken` | the three invariants of `cash_races` |
| `DueStaysSettled` | `CashSpec => DueNeverReturns` |
| `CustodyRefined` | `CashSpec /\ []UpdatesApart => CustodyKept` |
| `SettledForGood` | `CashSpec /\ []UpdatesApart => SettledUnchanged` |
| `LedgerCounts` | `CashSpec /\ []UpdatesApart => []LedgerCountsCash` |
| `LedgerChained`, `DriversPart` | the same of `LedgerContinues` and `DriverParts` |

The properties are not inductive: a commit writes what a request decided some time
ago, so an invariant has to say something of *every pending update*, against the rows
as they are now. `UpdateInv` is that: an update either sets an amount together with
the paid state that goes with it, for a kind that is owed; or it leaves both alone and
its row has been taken. It survives the commits of others because taken rows stay
taken (`RowChange`): no overlap can bring a row back to a state in which a decision
would be wrong about money, even where it is wrong about who holds it. `RowInv` is
what commits then keep of each row. `DueStaysSettled` needs no more than that.

The other five need `UpdatesApart`: no two requests have decided on updates of *one row*
at the same time. That is less than one request at a time (`OneAtATime`, the instance
`cash_serial` checks): requests about different rows overlap as they like, and so do those
about one row up to the point where they read it. A lock taken with that read would give it,
and the code takes none; `settled_reopened` is the counterexample without it, and
`SettledForGood` says that there is no other way to it. `ChainInv` says that a pending
update is a Take, Recount, Pass or Settle of the *current* row, `LedgerInv` that its event
continues and counts that row and that whoever takes money out of a driver's hands is the
driver or a manager; both hold because nobody else writes the row between Read and Commit
(`OtherUpdates`). `LedgerInv` also keeps rows nobody collected free of a holder and an
amount, or the first collection's event could name one.

`OrderDeskProofs`:

| Theorem | Statement |
|---|---|
| `DeskTyping` | `DeskSpec => []DeskTypeOK` |
| `WorkflowKeepsCash` | `DeskSpec => CashKept` |
| `DeliveredCollected`, `PickedUpCharged` | the two gate invariants of `order_desk` |
| `TimelineKept` | `DeskSpec /\ []AssignmentsApart => []TimelineAgrees` |
| `CustodyBesideTasks` | `DeskSpec /\ []UpdatesApart => CustodyKept` |
| `DueStaysBesideTasks` | `DeskSpec => DueNeverReturns` |

The gate is checked long before the status is written. `GateInv` says that the cash of
every order allows the status it has, and the status any request in flight is about to
give it; it is inductive since nothing due ever comes back, which `WorkflowKeepsCash`
carries over from the cash desk. With `CashInv`, an amount that was owed and no longer
blocks was taken.

`TimelineKept` needs `AssignmentsApart`: no order is about to be assigned for pickup by one
request and moved by another. All other overlaps are harmless to the history, because every
other write sets status and history alike. An assignment writes "assigned" into the history
whatever the status is by then; `TimelineInv` says that the orders of such a request still
wait for one, which other assignments leave so.

`LabelQueueProofs`:

| Theorem | Statement |
|---|---|
| `QueueTyping` | `QueueSpec => []QueueTypeOK` |
| `QueueInvariant` | `QueueSpec => []QueueInv` |
| `ClaimsExclusive` | `QueueSpec => []ClaimExclusive` |
| `OutcomesEarned` | `QueueSpec => []OutcomeEarned` |
| `FinishedForGood` | `QueueSpec => FinishedStays` |
| `JobLifeRefined` | `QueueSpec => JobLifeKept` |
| `OnlyOutagesStrand` | `QueueSpec => []StrandedByOutage` |
| `StrandedForGood` | `QueueSpec => [][\A j \in Jobs : Stranded(j) => Stranded(j)']_queueVars` |
| `JammedForGood` | `QueueSpec => [][Jammed => Jammed' /\ no job's attempts change]_queueVars` |

Marks are written by id, so what protects a row is who holds it. `QueueInv` says that
every ticket a worker holds is of a row in `processing` with the ticket's count of
attempts. An open row is therefore in nobody's hands, and a claim, which accepts open
rows only, takes it from nobody; a mark reaches only rows in `processing`, so never a
finished one. A failed job is claimable by its status and kept from it by its
attempts alone, which is why `FinishedForGood` needs `OutcomeEarned`. `WorkerFits`
is what the stages of a tick know of its memory, such as that labels were written
before a job is marked completed.

`HandsChange` says once, for all eight steps of a worker, what they may do to the jobs in
its hands: a job newly held was open, and one no longer held was marked, or the tick was cut
short. With it `StrandedInv` is inductive, and so `JobLifeRefined` comes down to
`HandsAfter`: after a step a job is in a worker's hands as the statuses before and after say.
A claim is then the abstract `Take`, a mark its `Complete` or `Fail`, an outage its `Forget`;
the count of attempts that `Fail` looks at in the row is the ticket's, since the job changed
nothing while it was held. The refinement needs no hypothesis: unlike the cash desk, a
claim repeats in its write (`updateMany ... where`) what it read, and nobody else writes a row
that was claimed. `OutcomeEarned`,
`FinishedStays` and `StrandedByOutage` say parts of `JobLifeKept`; they are what the proof
needs and what a reader may want by name, and no run checks them again. Two theorems are about
the two liveness findings. A stranded job's row is in no status a claim accepts, and only whoever
holds it writes it (`StrandedForGood`). In a jam the window shows jobs that were given up,
which `OutcomeEarned` says have no attempts left; new jobs only join the line behind them,
and memories of candidates run out (`JammedForGood`).

`OrderIntakeProofs`:

| Theorem | Statement |
|---|---|
| `IntakeTyping` | `IntakeSpec => []IntakeTypeOK` |
| `IntakeInvariant` | `IntakeSpec => []IntakeInv` |
| `NumbersStayFresh`, `SuccessIsWhole`, `ImportsInOrder`, `InvoicesPaidForReal`, `AcknowledgedForReal` | the five other invariants of `order_intake` |

Success is a promise about what earlier stages did, so `IntakeInv` says of each request
what its stage implies: `NumbersFit` (numbers come from the counter), `RowFits` (rows
before the current one are placed and labelled, later ones not placed), `MoneyFits`
(no checkout without its invoice). For deliveries, `HookFits` says what each stage has
done, and stays true when another delivery overtakes it because status, key and
document only ever come to more (`DeliveryKeeps`). `SettledFits` is
`AcknowledgedSettled` with the reason it stays: a checkout that has ended stays ended.

The read side, the live map and the accounts:

| Module | Theorem | Statement |
|---|---|---|
| `ReadSideProofs` | `CacheTyping` | `CacheSpec => []CacheTypeOK` |
| | `OneHolderAtATime` | `CacheSpec => []OneHolder` |
| | `WorkerTyping` | `WorkerSpec => []WorkerTypeOK` |
| | `NothingForgotten` | `WorkerSpec => []Accounted` |
| | `FiguresTyping` | `FiguresSpec => []FiguresTypeOK` |
| | `EventsNameChanges` | `FiguresSpec => ChangesAreNamed` |
| | `ReadSideTyping` | `ReadSideSpec => []TypeOK` |
| `LiveMapProofs` | `FeedTyping` | `FeedSpec => []FeedTypeOK` |
| | `NothingSkipped` | `FeedSpec => []NoGap` |
| | `OwedLiesAhead` | `FeedSpec => []OwedAhead` |
| | `PresenceTyping` | `PresenceSpec => []PresenceTypeOK` |
| | `LiveMapTyping` | `LiveMapSpec => []TypeOK` |
| `AccountsProofs` | `AccountsTyping` | `AccountsSpec => []AccountsTypeOK` |
| | `AccessStaysSettled` | `AccountsSpec => AccessStays` |

`OneHolder` counts readers and says nothing of the lock, so it is not inductive:
`HolderLocked` adds that whoever works under the lock is who set it, as long as none ran
out or was deleted twice. A read that has set a lock without hearing of it does not work under it,
and the lock is nobody's from then on. This is what makes the delete of `Unlock`'s second call harmless until then, and
`LockedWork` what keeps a read that waited in vain from passing for a holder.
`NothingForgotten` needs `MarkedAccounted`: a worker drops an event because of its mark
alone, so every marked event has to be accounted for wherever it is marked, also when the call
failed, or was sent again, after it took effect; and `AckMarked`, or an acknowledgement could drop what nobody
marked. `NothingSkipped` needs `InPlace`, that a pending call reads from the last entry
received; restarts and failed calls only ever forget a place, never move it on. `OwedLiesAhead` is its
other half, seen from a watcher: an entry is owed from when it is added until it is sent, the
watcher leaves, or the process restarts, and as long as it is owed its place is still to come.
`AccountsTypeOK` is inductive as it stands, and more than a typing: that a session belongs
to an account is `Grant`'s foreign key against `DeleteAccount`'s cascade, and that emails
differ is the insert's check, long after the one that answered the caller.

`AccessStaysSettled` is the safety half of `AccessSettles`, in all three modes: what was once
right about an account goes wrong only by the account's being moved or deleted. A cache is
filled from a row read earlier, a token is signed with claims read earlier, so `UpToDate`
speaks of the requests on their way as well as of the cache and the tokens; where tokens are
believed, a login under way counts only while the account exists, since a deleted one is
granted nothing (the foreign key again). `CacheById`, that an entry under an id is of that
account, is what it needs beside the typing. `CurrentIsServed` says what `UpToDate` is worth:
an existing account is served as it is, a deleted one not at all.

`PresenceTyping` needs `PresenceInv`, for a heartbeat carries a flag from the row, a cached
profile or a memory to Redis: wherever a request carries one, it has one to carry
(`Carries`). The typings of the compositions come from those of their parts: every step of
the composition is a step or a stutter of each part (`ReadSideParts`, `LiveMapParts`,
`BackOfficeParts`), so all that is proved of a part holds of the composition.

`BackOfficeProofs`:

| Theorem | Statement |
|---|---|
| `TariffsTyping` | `TariffsSpec => []TariffsTypeOK` |
| `EditsPutRight` | `TariffsSpec => EditRestores` |
| `DaysTyping` | `DaysSpec => [](RoutesTypeOK /\ SlaTypeOK)` |
| `DaysFitOrders` | `DaysSpec => []DaysFit` |
| `DaysNeverTaken` | `DaysSpec => DaysStay` |
| `BackOfficeTyping` | `BackOfficeSpec => []TypeOK` |

`EditRestores` is about the last statement of an edit that met no other, and what it promises
was done by the statements before. `TariffInv` follows edits from one statement to the next:
`Sound` (what an edit has cleared was its own plan's, what it has demoted were others, and its
plan is new exactly while there is none), `Apart` (nobody else edits a plan that is being
created), and, of an edit that met no other, that it is the only one and `Undisturbed`: it has
demoted exactly its rivals and cleared exactly the bands its plan has. That the plan
is then the one quoted is `DefaultIsQuoted`: what `PlanQuoted` chooses is unique, since a
default comes first and there is no other. What a `CHOOSE` picks exists because every
non-empty set of naturals has a least element (`LeastNat`) and a finite set of candidates
a first one (`FirstMatching`), found by a least counterexample instead of an induction.

A backfill writes by id what it computed from rules and regions that may have changed since.
`DaysFit` is what survives that: no delivery rule takes the place of a promise, no order
without one gets a promise's day, and a rule's day is of an order with a service; `DaysInv` says it of every day a backfill is about to write
(`Handles`). `DaysStay` is that a day once given is never taken away. The zones and regions
are anyone's to change in `TariffsSpec`, so what is proved of tariffs does not rest on them.

Only model-checked: the eight liveness properties (`FinishedOrStranded`, `PaymentProcessed`,
`EventuallyCurrent`, `EventRebuilt`, `OwedIsSent`, `PresenceSettles`, `AccessSettles`,
`BackfillReaches`), which are out of the prover's reach. Every other property of a passing
run is stated by a theorem.

## 5. Limits

- An order's amounts are natural numbers; the code's are floats it compares only with
  zero and with each other. Notes, proofs, currencies and times are left out.
- Initial states: an order starts `pending`, unassigned, with the rows of its amounts or,
  for orders older than the cash tables, with none. An order that was further along when
  the cash tables were added is not an initial state.
- `NOT_PAID` and a null paid state are one: the code never tells them apart.
- Two managers, or two users of one location, are one actor.
- The label queue has one clock. Workers on hosts whose clocks differ see the same rows
  with slightly different windows, which reorders `line`, not what a claim checks.
- Of creation, addresses saved to the address book on the way are left out, and so is the
  mapping of payloads; an error after the order was created leaves it behind, and a caller
  who tries again makes another one, since requests carry no key: the model shows it, no
  property denies it.
- A document is in the bucket or not. Two deliveries in one process write one local file,
  and one may upload what the other has just truncated; that is listed as a hazard only.
- One process' cache of authenticated users is modelled, and the model uses the row of a
  session that is over for the next one.
- A cached section has one key; the figures have one order, and what time alone does to them
  is left to the lifetimes of the copies.
- Streams grow only in the model: `MAXLEN ~ 10000` trims what a consumer that is ten thousand
  entries behind has not read yet, and neither `NoGap` nor `Accounted` says anything of it.
- The SLA policy is part of the data the figures are computed from. Each process also keeps it
  in a variable of its own for a while (`cachedPolicy`, `analyticsV2.ts` 124-192), so figures
  computed after a change of policy may still follow the old one until it runs out.
- Statements to Postgres take effect or fail; the answer to one that took effect is not lost.
  A completion of a label job that was written but not heard of, which the worker would go on
  to mark as a failure, is left out.
- A quote is an operator on the tables as if nothing changed between its queries, and so is
  the lookup of the expected day when an order is placed. Weights
  and prices are whole numbers; currencies, codes and price types of plans are left out.

**Not modelled**, and why:

- *The live map's snapshot, positions and thinning* (`liveMapService.ts`). A snapshot reads
  and changes nothing. Positions are overwritten by whichever write comes last, also by an older
  fix than the one stored, and fields of an earlier order stay in the hash; no property of
  the repository speaks of either, and the model would restate the assignments.
- *Notifications and sockets.* A notification is one insert and one emit. A socket is
  authenticated when it opens (`realtimeHub.ts` 68-132) and never again, which leaves nothing to
  interleave.
- *User lists, addresses, customers, warehouses, tracking.* Repositories of one statement, or
  of one row at a time with no state in between.
- *Proofs of pickup and delivery.* An upload, then one row; the file may stay without it.
- *Reads and exports.* They change no state; of the analytics' SQL the model keeps which
  columns a section depends on (`AnalyticsFigures`).
- *Rendering, storage, metrics, configuration and wiring.* Input, output and libraries.

## 6. Plan

Done, in this order: `OrderBase`, `CashCustody`, `CashDesk`, `OrderTasks`, `OrderDesk`,
`LabelQueue`, `OrderIntake`, each with its proofs; the read side (`AnalyticsCache`,
`AnalyticsWorker`, `AnalyticsFigures`), the feed, presence, accounts and pricing; the
proofs of the read side, the feed and presence, the accounts, tariffs and days; the safety
halves of the queue's, the feed's and the accounts' liveness, and `LabelJobLife`. Every safety
property of a passing run is proved.

What would be next:

1. The remaining safety parts that the liveness properties rest on: that a backfill leaves
   alone only what it cannot give a day, and that a presence once right for a driver who shares
   his position goes wrong only by a switch.
2. An abstract specification of what an invoice goes through, for `OrderIntake` to implement.
   One of the workflow was considered and says little: a manager may set any status at any
   time, so all that is left of an order's life is the cash gate, which `CashAllows` states.
3. Positions on the live map, once the code says which of two fixes should win.
